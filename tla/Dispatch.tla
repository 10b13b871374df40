------------------------------ MODULE Dispatch ------------------------------
(***************************************************************************)
(* Sending an event: Client.send and nextBroker (client/client.go) over    *)
(* the online list, and Broker.Send (broker/broker.go), while brokers      *)
(* connect, break, leave and are replaced.                                 *)
(*                                                                         *)
(* The connections are those of Links, which BrokerConn implements: a      *)
(* "_.ready" may be handled before or after any earlier Start has cleared  *)
(* the fields and called delete.  Here stand the store that connect reads, *)
(* the list, the counter and the senders, each of which sends one event    *)
(* after another.                                                          *)
(***************************************************************************)
EXTENDS Loops

CONSTANTS
  Object,      \* Broker objects, <<ID, round>>: what each Client.Start makes
  Id,          \* broker IDs
  Sender,
  None,
  MaxRounds,   \* bound on the calls of Client.Start
  MaxStarts,   \* bound on the calls of Broker.Start, of all objects together
  CounterMax   \* number of values of currentSend: 2^64

ASSUME DispatchAssumption ==
  /\ Object \subseteq Id \X (1 .. MaxRounds)
  /\ None \notin Object
  /\ MaxRounds \in Nat \ {0} /\ MaxStarts \in Nat /\ CounterMax \in Nat \ {0}

VARIABLES
  link, attempt, cancelled, frame, connected, stream,  \* see Links
  store,          \* Store.brokers: the object of each ID, or None
  closing,        \* a Store.Done is in its loop and holds store.rw
  rebuilds,       \* calls of Store.Done
  starts,         \* calls of Broker.Start, made or due
  found,          \* what connect got from the store, in each ConnectFunc
  held,           \* c.rw is taken and will not be given back
  onlineBrokers,  \* Client.onlineBrokers; Client.online says that it has entries
  currentSend,    \* Client.currentSend
  mistaken,       \* IDs last listed for an object that did not come online
  picked,         \* the broker whose Send a sender has called, or None
  event           \* what a sender's event is like

L == INSTANCE Links WITH Broker <- Object

connVars == <<link, attempt, cancelled, frame, connected, stream>>
storeVars == <<store, closing, rebuilds>>
listVars == <<onlineBrokers, currentSend, mistaken>>
sendVars == <<picked, event>>
vars == <<connVars, storeVars, starts, found, held, listVars, sendVars>>

IdOf(b) == b[1]
Namesakes(b) == {x \in Object : IdOf(x) = IdOf(b)}

\* "bad" is an event that GetEvent cannot encode; "none" when nothing is sent.
Event == {"good", "bad", "none"}

TypeOK ==
  /\ L!LinkTypes
  /\ store \in [Id -> Object \union {None}]
  /\ \A i \in Id : store[i] # None => IdOf(store[i]) = i
  /\ closing \in BOOLEAN /\ held \in BOOLEAN
  /\ rebuilds \in 0 .. MaxRounds /\ starts \in 0 .. MaxStarts
  /\ found \in [Object -> Object \union {None}]
  /\ \A b \in Object : found[b] # None => found[b] \in Namesakes(b)
  /\ onlineBrokers \in Seq(Object)
  /\ currentSend \in 0 .. CounterMax - 1
  /\ mistaken \subseteq Id
  /\ picked \in [Sender -> Object \union {None}]
  /\ event \in [Sender -> Event]

Init ==
  /\ L!LinkInit
  /\ store = [i \in Id |-> None] /\ closing = FALSE /\ rebuilds = 0
  /\ starts = 0
  /\ found = [b \in Object |-> None]
  /\ held = FALSE
  /\ onlineBrokers = <<>> /\ currentSend = 0 /\ mistaken = {}
  /\ picked = [s \in Sender |-> None]
  /\ event = [s \in Sender |-> "none"]

------------------------------------------------------------------------------
(* Client.Start and Store.Done                                               *)

\* brokers.Set(bk) and go bk.Start(), whatever object has the ID.
Launch(b) ==
  /\ L!Launch(b) /\ b[2] <= rebuilds + 1
  /\ starts < MaxStarts /\ starts' = starts + 1
  /\ ~closing
  /\ store' = [store EXCEPT ![IdOf(b)] = b]
  /\ UNCHANGED <<closing, rebuilds, found, held, listVars, sendVars>>

\* A reset or owerstaying takes all objects out of the store.
BeginClose ==
  /\ ~closing /\ rebuilds < MaxRounds - 1
  /\ closing' = TRUE /\ rebuilds' = rebuilds + 1
  /\ UNCHANGED <<connVars, store, starts, found, held, listVars, sendVars>>

CloseOne(i) ==
  /\ closing /\ store[i] # None
  /\ L!Cancel(store[i])
  /\ store' = [store EXCEPT ![i] = None]
  /\ UNCHANGED <<closing, rebuilds, starts, found, held, listVars, sendVars>>

EndClose ==
  /\ closing /\ \A i \in Id : store[i] = None
  /\ closing' = FALSE
  /\ UNCHANGED <<connVars, store, rebuilds, starts, found, held, listVars, sendVars>>

------------------------------------------------------------------------------
(* The connections                                                           *)

\* What a driver does of its own accord; at the bound it gives up.
Driver(b) ==
  /\ \/ L!Retry(b) /\ starts < MaxStarts /\ starts' = starts + 1
     \/ /\ L!Dial(b) \/ L!DialFails(b) \/ L!Open(b) \/ L!GiveUp(b) \/ L!End(b)
        /\ UNCHANGED starts
  /\ UNCHANGED <<storeVars, found, held, listVars, sendVars>>

\* What the server and the network do.
Server(b) ==
  /\ L!Ready(b) \/ L!Drop(b)
  /\ UNCHANGED <<storeVars, starts, found, held, listVars, sendVars>>

\* connect looks its ID up; without an entry it returns.
Get(b) ==
  /\ link[b] = "ready" /\ found[b] = None /\ ~closing
  /\ found' = [found EXCEPT ![b] = store[IdOf(b)]]
  /\ IF store[IdOf(b)] = None THEN L!ConnectReturns(b) ELSE UNCHANGED connVars
  /\ UNCHANGED <<storeVars, starts, held, listVars, sendVars>>

\* set puts what connect found in the place of every other ID, and at the end.
Set(b) ==
  LET bk == found[b] IN
  /\ bk # None /\ ~held
  /\ L!ConnectReturns(b)
  /\ onlineBrokers' = [i \in 1 .. Len(Others(onlineBrokers, Namesakes(bk))) + 1 |-> bk]
  /\ currentSend' = 0
  /\ mistaken' = IF bk = b THEN mistaken \ {IdOf(b)} ELSE mistaken \union {IdOf(b)}
  /\ found' = [found EXCEPT ![b] = None]
  /\ UNCHANGED <<storeVars, starts, held, sendVars>>

\* A faulty variant: DisconnectFunc is not called.
Cleanup_Silent(b, n) ==
  /\ frame[b][n] = "parked" /\ n \in cancelled[b] /\ L!Unlocked(b)
  /\ frame' = [frame EXCEPT ![b][n] = "gone"]
  /\ connected' = [connected EXCEPT ![b] = FALSE]
  /\ stream' = [stream EXCEPT ![b] = 0]
  /\ UNCHANGED <<link, attempt, cancelled, storeVars, starts, found, held, listVars, sendVars>>

\* The n-th Start clears the fields of b, after its context.
Cleanup(b, n) ==
  /\ L!Cleanup(b, n)
  /\ UNCHANGED <<storeVars, starts, found, held, listVars, sendVars>>

\* A faulty variant: the first entry is removed, not every one.
Delete_First(b, n) ==
  /\ ~held
  /\ L!DisconnectReturns(b, n)
  /\ onlineBrokers' =
       IF onlineBrokers # <<>> /\ IdOf(Head(onlineBrokers)) = IdOf(b)
       THEN Tail(onlineBrokers) ELSE onlineBrokers
  /\ currentSend' = 0
  /\ mistaken' = mistaken \ {IdOf(b)}
  /\ UNCHANGED <<storeVars, starts, found, held, sendVars>>

\* delete, called by DisconnectFunc, removes by ID.
Delete(b, n) ==
  /\ ~held
  /\ L!DisconnectReturns(b, n)
  /\ onlineBrokers' = Others(onlineBrokers, Namesakes(b))
  /\ currentSend' = 0
  /\ mistaken' = mistaken \ {IdOf(b)}
  /\ UNCHANGED <<storeVars, starts, found, held, sendVars>>

\* c.rw is lost: a disconnect sends a signal that nobody receives, or owerstaying
\* waits for a lock or an answer that never comes.
Seize ==
  /\ held' = TRUE
  /\ UNCHANGED <<connVars, storeVars, starts, found, listVars, sendVars>>

------------------------------------------------------------------------------
(* The senders                                                               *)

\* Pub.Do or Pub.Sub calls send.
BeginSend(s, e) ==
  /\ event[s] = "none" /\ e # "none"
  /\ event' = [event EXCEPT ![s] = e]
  /\ UNCHANGED <<connVars, storeVars, starts, found, held, listVars, picked>>

Choosing(s) == event[s] # "none" /\ picked[s] = None

\* nextBroker, under the read lock; the counter wraps around.
NextBroker(s) ==
  /\ Choosing(s) /\ onlineBrokers # <<>> /\ ~held
  /\ currentSend' = (currentSend + 1) % CounterMax
  /\ picked' = [picked EXCEPT ![s] =
                  onlineBrokers[(currentSend % Len(onlineBrokers)) + 1]]
  /\ UNCHANGED <<connVars, storeVars, starts, found, held, onlineBrokers, mistaken, event>>

\* ErrClientNotConnected ends the send.
NotConnected(s) ==
  /\ Choosing(s) /\ onlineBrokers = <<>> /\ ~held
  /\ event' = [event EXCEPT ![s] = "none"]
  /\ UNCHANGED <<connVars, storeVars, starts, found, held, listVars, picked>>

\* The stream of b works, as far as anyone can tell.
Live(b) == link[b] = "up" /\ connected[b] /\ stream[b] = attempt[b] /\ ~L!ContextDone(b)

\* Broker.Send gets b.rw for reading.
Sending(s) == picked[s] # None /\ L!Unlocked(picked[s])

\* It returns nil: a dead stream may still take the message.
SendTakes(s) ==
  /\ Sending(s) /\ connected[picked[s]] /\ event[s] = "good"
  /\ picked' = [picked EXCEPT ![s] = None]
  /\ event' = [event EXCEPT ![s] = "none"]
  /\ UNCHANGED <<connVars, storeVars, starts, found, held, listVars>>

\* It returns an error, and send calls itself; a stream that worked so far is
\* dead for its read loop too.
SendFails(s) ==
  /\ Sending(s)
  /\ IF Live(picked[s]) /\ event[s] = "good" THEN L!Drop(picked[s]) ELSE UNCHANGED connVars
  /\ picked' = [picked EXCEPT ![s] = None]
  /\ UNCHANGED <<storeVars, starts, found, held, listVars, event>>

------------------------------------------------------------------------------
Rebuild ==
  \/ BeginClose \/ EndClose
  \/ (\E i \in Id : CloseOne(i)) \/ (\E b \in Object : Launch(b))

ConnStep(b) ==
  \/ Driver(b) \/ Server(b) \/ Get(b) \/ Set(b)
  \/ \E n \in L!Attempts : Cleanup(b, n) \/ Delete(b, n)

SendStep(s) ==
  \/ NextBroker(s) \/ NotConnected(s) \/ SendTakes(s) \/ SendFails(s)
  \/ \E e \in Event : BeginSend(s, e)

Next ==
  \/ Rebuild \/ Seize
  \/ \E b \in Object : ConnStep(b)
  \/ \E s \in Sender : SendStep(s)

Spec == Init /\ [][Next]_vars

\* Drivers, frames and senders keep running as long as c.rw is given back.  A
\* Send on a live stream may wait for the server; nothing makes a broker
\* connect, a ConnectFunc return, a stream break, a rebuild end or a caller send.
OnItsOwn(s) ==
  \/ NextBroker(s) \/ NotConnected(s)
  \/ (SendTakes(s) \/ SendFails(s)) /\ ~Live(picked[s])

FairSpec ==
  /\ Spec
  /\ \A b \in Object :
       /\ WF_vars(~held /\ Driver(b))
       /\ \A n \in L!Attempts : WF_vars(Cleanup(b, n)) /\ WF_vars(Delete(b, n))
  /\ \A s \in Sender : WF_vars(OnItsOwn(s))

------------------------------------------------------------------------------
(* Properties                                                                *)

\* Every entry will be taken off: a Start of the listed object has still to call
\* delete, unless connect found another object under the ID than the one that
\* came online (client.go:247-252, 255-288).
Listed == {onlineBrokers[i] : i \in DOMAIN onlineBrokers}
EntriesHaveFrames ==
  \A b \in Listed :
    IdOf(b) \in mistaken \/ \E n \in L!Attempts : frame[b][n] \in {"parked", "leaving"}

\* An event ends in a stream or in an error: its send does not keep coming back
\* to brokers that cannot send.  The exceptions are a lock that is never given
\* back, a stream that takes nothing for ever and an entry of an object that
\* never came online (client.go:213-230, broker.go:121-132).
SendEnds ==
  \A s \in Sender :
    event[s] = "good" ~>
      \/ event[s] = "none"
      \/ []held
      \/ [](\E b \in Object : link[b] = "ready")
      \/ [](picked[s] # None /\ Live(picked[s]))
      \/ [](\E b \in Listed : IdOf(b) \in mistaken)

\* What Get and Set rely on: b.rw keeps Store.Done away from an object whose
\* ConnectFunc runs, so what connect finds under its own ID has its frame.
StoredAreOpen ==
  \A b \in Object :
    /\ link[b] \notin {"absent", "waiting"} => attempt[b] # 0
    /\ \A n \in cancelled[b] : n <= attempt[b]
    /\ link[b] \in {"open", "ready", "up"} => frame[b][attempt[b]] # "none"
    /\ \A n \in L!Attempts : frame[b][n] \in {"leaving", "gone"} => n \in cancelled[b]
    /\ found[b] # None => link[b] = "ready"
    /\ b \in {store[IdOf(b)], found[b]} /\ link[b] \in {"dialing", "open", "ready", "up"} =>
         ~L!ContextDone(b)

DispatchInv == TypeOK /\ EntriesHaveFrames /\ StoredAreOpen
==============================================================================
