---------------------------- MODULE DispatchProofs ----------------------------
(***************************************************************************)
(* Theorems about Dispatch, for any objects and senders, any number of     *)
(* connections and any width of the counter.                               *)
(***************************************************************************)
EXTENDS Dispatch, LoopsProofs

\* What delete leaves, and what set makes of it (client.go:255-288).
LEMMA ListTypes ==
  ASSUME NEW list \in Seq(Object), NEW gone, NEW b \in Object
  PROVE  /\ Others(list, gone) \in Seq(Object)
         /\ \A i \in DOMAIN Others(list, gone) :
              /\ Others(list, gone)[i] \notin gone
              /\ \E k \in DOMAIN list : list[k] = Others(list, gone)[i]
         /\ [i \in 1 .. Len(Others(list, gone)) + 1 |-> b] \in Seq(Object)
<1> DEFINE S == Staying(Object, list, gone)
           next == Others(list, gone)
<1>1. next \in Seq(S)
  BY OthersEntries
<1>2. S \subseteq Object
  BY DEF Staying
<1>3. \A x \in S : x \notin gone /\ \E k \in DOMAIN list : list[k] = x
  BY DEF Staying
<1> HIDE DEF S, next
<1>4. next \in Seq(Object) /\ \A i \in DOMAIN next : next[i] \in S
  BY <1>1, <1>2
<1>5. Len(next) \in Nat
  BY <1>4
<1>6. [i \in 1 .. Len(next) + 1 |-> b] \in Seq(Object)
  BY <1>5
<1> QED
  BY <1>3, <1>4, <1>6 DEF next

\* An object has one ID.
LEMMA Ids == \A b \in Object : IdOf(b) \in Id /\ b \in Namesakes(b)
  BY DispatchAssumption DEF IdOf, Namesakes

\* Nothing runs yet.
LEMMA InitDispatch == Init => DispatchInv
<1> SUFFICES ASSUME Init PROVE DispatchInv
  OBVIOUS
<1> USE DispatchAssumption DEF Init, L!LinkInit
<1>1. L!LinkTypes
  BY DEF L!LinkTypes, L!Places, L!Frames
<1>2. TypeOK
  <2>1. onlineBrokers \in Seq(Object) /\ currentSend \in 0 .. CounterMax - 1
    OBVIOUS
  <2>2. /\ \A i \in Id : store[i] = None
        /\ \A b \in Object : found[b] = None
    OBVIOUS
  <2>3. /\ store \in [Id -> Object \union {None}] /\ found \in [Object -> Object \union {None}]
        /\ picked \in [Sender -> Object \union {None}] /\ event \in [Sender -> Event]
    BY DEF Event
  <2>4. rebuilds \in 0 .. MaxRounds /\ starts \in 0 .. MaxStarts /\ mistaken \subseteq Id
    OBVIOUS
  <2>5. closing \in BOOLEAN /\ held \in BOOLEAN
    OBVIOUS
  <2> HIDE DEF Init
  <2> QED
    BY <1>1, <2>1, <2>2, <2>3, <2>4, <2>5 DEF TypeOK
<1>3. EntriesHaveFrames
  BY DEF EntriesHaveFrames, Listed
<1>4. StoredAreOpen
  BY Ids DEF StoredAreOpen
<1> QED
  BY <1>2, <1>3, <1>4 DEF DispatchInv

------------------------------------------------------------------------------
(* The connections                                                           *)

\* The part of the invariant that Links keeps on its own.
Framed ==
  \A b \in Object :
    /\ link[b] \notin {"absent", "waiting"} => attempt[b] # 0
    /\ \A n \in cancelled[b] : n <= attempt[b]
    /\ link[b] \in {"open", "ready", "up"} => frame[b][attempt[b]] # "none"
    /\ \A n \in L!Attempts : frame[b][n] \in {"leaving", "gone"} => n \in cancelled[b]

\* It does.
LEMMA LinkKeeps ==
  ASSUME L!LinkTypes, Framed, L!LinkNext
  PROVE  L!LinkTypes' /\ Framed'
<1> USE DispatchAssumption
    DEF L!LinkTypes, L!Places, L!Frames, L!Attempts, Framed,
        L!Shift, L!ContextDone, L!numberVars, L!fieldVars
<1>1. ASSUME NEW b \in Object, L!Launch(b) PROVE L!LinkTypes' /\ Framed'
  BY <1>1 DEF L!Launch
<1>2. ASSUME NEW b \in Object, L!Dial(b) PROVE L!LinkTypes' /\ Framed'
  BY <1>2 DEF L!Dial
<1>3. ASSUME NEW b \in Object, L!DialFails(b) PROVE L!LinkTypes' /\ Framed'
  BY <1>3 DEF L!DialFails
<1>4. ASSUME NEW b \in Object, L!Open(b) PROVE L!LinkTypes' /\ Framed'
  <2>0. link[b] = "dialing" /\ attempt[b] \in L!Attempts
    <3>1. link[b] = "dialing"
      BY <1>4 DEF L!Open
    <3>2. attempt[b] \in 0 .. MaxStarts /\ attempt[b] # 0
      BY <3>1
    <3> QED
      BY <3>1, <3>2
  <2>1. /\ link[b] = "dialing" /\ attempt[b] \in L!Attempts
        /\ link' = [link EXCEPT ![b] = "open"]
        /\ frame' = [frame EXCEPT ![b][attempt[b]] = "parked"]
        /\ UNCHANGED <<attempt, cancelled, connected, stream>>
    BY <1>4, <2>0 DEF L!Open
  <2>2. L!LinkTypes'
    BY <2>1
  <2>3. /\ frame'[b][attempt[b]] = "parked"
        /\ \A n \in L!Attempts : n # attempt[b] => frame'[b][n] = frame[b][n]
        /\ \A c \in Object : c # b => frame'[c] = frame[c] /\ link'[c] = link[c]
    BY <2>1
  <2>4. Framed'
    BY <2>1, <2>3
  <2> QED
    BY <2>2, <2>4
<1>5. ASSUME NEW b \in Object, L!Ready(b) PROVE L!LinkTypes' /\ Framed'
  BY <1>5 DEF L!Ready
<1>6. ASSUME NEW b \in Object, L!ConnectReturns(b) PROVE L!LinkTypes' /\ Framed'
  BY <1>6 DEF L!ConnectReturns
<1>7. ASSUME NEW b \in Object, L!Drop(b) PROVE L!LinkTypes' /\ Framed'
  BY <1>7 DEF L!Drop
<1>8. ASSUME NEW b \in Object, L!Retry(b) PROVE L!LinkTypes' /\ Framed'
  BY <1>8 DEF L!Retry
<1>9. ASSUME NEW b \in Object, L!GiveUp(b) PROVE L!LinkTypes' /\ Framed'
  <2>1. /\ link' = [link EXCEPT ![b] = "ending"]
        /\ link[b] = "failed" \/ attempt[b] \in cancelled[b]
        /\ UNCHANGED <<attempt, cancelled, frame, connected, stream>>
    BY <1>9 DEF L!GiveUp
  <2>2. attempt[b] # 0
    <3>1. cancelled[b] \in SUBSET L!Attempts /\ 0 \notin L!Attempts
      OBVIOUS
    <3>2. link[b] = "failed" => attempt[b] # 0
      OBVIOUS
    <3> HIDE DEF L!Attempts, Framed
    <3> QED
      BY <2>1, <3>1, <3>2
  <2> QED
    BY <2>1, <2>2
<1>10. ASSUME NEW b \in Object, L!End(b) PROVE L!LinkTypes' /\ Framed'
  <2>1. /\ cancelled' = [cancelled EXCEPT ![b] = cancelled'[b]]
        /\ cancelled'[b] \in {cancelled[b], cancelled[b] \union {attempt[b]}}
        /\ UNCHANGED <<attempt, frame, connected, stream>>
    <3>1. PICK S \in {cancelled[b], cancelled[b] \union {attempt[b]}} :
            cancelled' = [cancelled EXCEPT ![b] = S]
      BY <1>10 DEF L!End
    <3> QED
      BY <1>10, <3>1 DEF L!End
  <2>2. cancelled'[b] \in SUBSET L!Attempts
    <3>1. attempt[b] \in 0 .. MaxStarts /\ cancelled[b] \in SUBSET L!Attempts
      OBVIOUS
    <3>2. attempt[b] = 0 => cancelled'[b] = cancelled[b]
      BY <1>10 DEF L!End
    <3> QED
      BY <2>1, <3>1, <3>2
  <2>3. L!LinkTypes'
    BY <1>10, <2>1, <2>2 DEF L!End
  <2>4. Framed'
    BY <1>10, <2>1 DEF L!End
  <2> QED
    BY <2>3, <2>4
<1>11. ASSUME NEW b \in Object, L!Cancel(b) PROVE L!LinkTypes' /\ Framed'
  <2>1. /\ cancelled' = [cancelled EXCEPT ![b] = cancelled'[b]]
        /\ cancelled'[b] \in {cancelled[b], cancelled[b] \union {attempt[b]}}
        /\ UNCHANGED <<attempt, frame, connected, stream>>
    <3>1. PICK S \in {cancelled[b], cancelled[b] \union {attempt[b]}} :
            cancelled' = [cancelled EXCEPT ![b] = S]
      BY <1>11 DEF L!Cancel
    <3> QED
      BY <1>11, <3>1 DEF L!Cancel
  <2>2. cancelled'[b] \in SUBSET L!Attempts
    <3>1. attempt[b] \in 0 .. MaxStarts /\ cancelled[b] \in SUBSET L!Attempts
      OBVIOUS
    <3>2. attempt[b] = 0 => cancelled'[b] = cancelled[b]
      BY <1>11 DEF L!Cancel
    <3> QED
      BY <2>1, <3>1, <3>2
  <2>3. L!LinkTypes'
    BY <1>11, <2>1, <2>2 DEF L!Cancel
  <2>4. Framed'
    BY <1>11, <2>1 DEF L!Cancel
  <2> QED
    BY <2>3, <2>4
<1>12. ASSUME NEW b \in Object, NEW n \in L!Attempts, L!Cleanup(b, n)
       PROVE  L!LinkTypes' /\ Framed'
  BY <1>12 DEF L!Cleanup
<1>13. ASSUME NEW b \in Object, NEW n \in L!Attempts, L!DisconnectReturns(b, n)
       PROVE  L!LinkTypes' /\ Framed'
  BY <1>13 DEF L!DisconnectReturns
<1> QED
  BY <1>1, <1>2, <1>3, <1>4, <1>5, <1>6, <1>7, <1>8, <1>9, <1>10, <1>11, <1>12, <1>13
     DEF L!LinkNext

\* A context is not undone, a frame that owes a delete keeps owing it until it
\* calls it, and whoever changes a context says whose.
LEMMA LinkMoves ==
  ASSUME L!LinkTypes, Framed, NEW b \in Object, NEW c \in Object, c # b,
         \/ L!Launch(b) \/ L!Dial(b) \/ L!DialFails(b) \/ L!Open(b)
         \/ L!Ready(b) \/ L!ConnectReturns(b)
         \/ L!Drop(b) \/ L!Retry(b) \/ L!GiveUp(b) \/ L!End(b) \/ L!Cancel(b)
         \/ \E n \in L!Attempts : L!Cleanup(b, n) \/ L!DisconnectReturns(b, n)
  PROVE  /\ link'[c] = link[c] /\ attempt'[c] = attempt[c]
         /\ cancelled'[c] = cancelled[c] /\ frame'[c] = frame[c]
BY DEF L!LinkTypes, L!Shift, L!numberVars, L!fieldVars, L!Launch, L!Dial, L!DialFails, L!Open,
       L!Ready, L!ConnectReturns, L!Drop, L!Retry, L!GiveUp, L!End, L!Cancel, L!Cleanup,
       L!DisconnectReturns

\* A Start of b has still to call delete.
Owes(b) == \E n \in L!Attempts : frame[b][n] \in {"parked", "leaving"}

\* The last part of StoredAreOpen, for one object.
OpenIfFound(b) ==
  /\ found[b] # None => link[b] = "ready"
  /\ b \in {store[IdOf(b)], found[b]} /\ link[b] \in {"dialing", "open", "ready", "up"} =>
       ~L!ContextDone(b)

\* The invariant in the parts that the steps disturb one at a time.
LEMMA Parts ==
  DispatchInv <=> /\ TypeOK /\ Framed
                  /\ \A b \in Listed : IdOf(b) \in mistaken \/ Owes(b)
                  /\ \A b \in Object : OpenIfFound(b)
BY DEF DispatchInv, TypeOK, StoredAreOpen, EntriesHaveFrames, Framed, Owes, OpenIfFound

\* The same for the next state.
LEMMA PartsLater ==
  ASSUME TypeOK', Framed',
         \A b \in Listed' : IdOf(b) \in mistaken' \/ Owes(b)',
         \A b \in Object : OpenIfFound(b)'
  PROVE  DispatchInv'
BY DEF DispatchInv, TypeOK, StoredAreOpen, EntriesHaveFrames, Framed, Owes, OpenIfFound

ConnOnly(b) ==
  \/ L!Dial(b) \/ L!DialFails(b) \/ L!Open(b) \/ L!Ready(b) \/ L!Drop(b)
  \/ L!Retry(b) \/ L!GiveUp(b) \/ L!End(b) \/ \E n \in L!Attempts : L!Cleanup(b, n)

\* A step of a connection that touches neither list nor store (broker.go:135-217).
LEMMA ConnOnlyKeeps ==
  ASSUME DispatchInv, NEW b \in Object, ConnOnly(b),
         UNCHANGED <<storeVars, found, held, listVars>>, starts' \in 0 .. MaxStarts,
         picked' \in [Sender -> Object \union {None}], event' \in [Sender -> Event]
  PROVE  DispatchInv'
<1> USE DEF storeVars, listVars
<1>1. L!LinkTypes /\ Framed /\ L!LinkTypes' /\ Framed'
  BY Parts, LinkKeeps DEF ConnOnly, L!LinkNext, TypeOK
<1>2. ASSUME NEW c \in Object, c # b
      PROVE  /\ link'[c] = link[c] /\ attempt'[c] = attempt[c]
             /\ cancelled'[c] = cancelled[c] /\ frame'[c] = frame[c]
  BY <1>1, <1>2, LinkMoves DEF ConnOnly
<1>3. TypeOK'
  BY <1>1 DEF DispatchInv, TypeOK
<1>4. ASSUME NEW c \in Object, Owes(c) PROVE Owes(c)'
  <2>1. PICK n \in L!Attempts : frame[c][n] \in {"parked", "leaving"}
    BY <1>4 DEF Owes
  <2>2. frame'[c][n] \in {"parked", "leaving"}
    <3>1. CASE c # b
      BY <1>2, <2>1, <3>1
    <3>2. CASE c = b
      BY <1>1, <2>1, <3>2
         DEF ConnOnly, L!LinkTypes, L!numberVars, L!fieldVars, L!Dial, L!DialFails, L!Open,
             L!Ready, L!Drop, L!Retry, L!GiveUp, L!End, L!Cleanup
    <3> QED
      BY <3>1, <3>2
  <2> QED
    BY <2>2 DEF Owes, L!Attempts
<1>5. \A c \in Listed' : IdOf(c) \in mistaken' \/ Owes(c)'
  <2>1. Listed' = Listed /\ Listed \subseteq Object
    BY DEF Listed, DispatchInv, TypeOK
  <2> QED
    BY <1>4, <2>1, Parts
<1>6. OpenIfFound(b)'
  <2> USE <1>1 DEF Framed, OpenIfFound, L!LinkTypes, L!Attempts, L!ContextDone, L!Shift,
                   L!numberVars, L!fieldVars, L!Places
  <2>1. OpenIfFound(b)
    BY Parts
  <2>2. CASE L!Dial(b)
    BY <2>1, <2>2 DEF L!Dial
  <2>3. CASE L!DialFails(b)
    BY <2>1, <2>3 DEF L!DialFails
  <2>4. CASE L!Open(b)
    BY <2>1, <2>4 DEF L!Open
  <2>5. CASE L!Ready(b)
    BY <2>1, <2>5 DEF L!Ready
  <2>6. CASE L!Drop(b)
    BY <2>1, <2>6 DEF L!Drop
  <2>7. CASE L!Retry(b)
    BY <2>1, <2>7 DEF L!Retry
  <2>8. CASE L!GiveUp(b)
    BY <2>1, <2>8 DEF L!GiveUp
  <2>9. CASE L!End(b)
    BY <2>1, <2>9 DEF L!End
  <2>10. ASSUME NEW n \in L!Attempts, L!Cleanup(b, n) PROVE OpenIfFound(b)'
    BY <2>1, <2>10 DEF L!Cleanup
  <2> QED
    BY <2>2, <2>3, <2>4, <2>5, <2>6, <2>7, <2>8, <2>9, <2>10 DEF ConnOnly
<1>7. ASSUME NEW c \in Object PROVE OpenIfFound(c)'
  <2>1. CASE c = b
    BY <1>6, <2>1
  <2>2. CASE c # b
    <3>1. OpenIfFound(c)
      BY Parts
    <3> QED
      BY <1>2, <2>2, <3>1 DEF OpenIfFound, L!ContextDone
  <2> QED
    BY <2>1, <2>2
<1> QED
  BY <1>1, <1>3, <1>5, <1>7, PartsLater

\* What an object's driver, the server and a frame's cleanup do (broker.go:135-300).
LEMMA DriverKeeps ==
  ASSUME DispatchInv, NEW b \in Object,
         \/ Driver(b) \/ Server(b) \/ \E n \in L!Attempts : Cleanup(b, n)
  PROVE  DispatchInv'
<1>1. UNCHANGED <<storeVars, found, held, listVars, sendVars>>
  BY DEF Driver, Server, Cleanup
<1>2. ConnOnly(b)
  BY DEF Driver, Server, Cleanup, ConnOnly
<1>3. starts' \in 0 .. MaxStarts
  <2>1. starts \in 0 .. MaxStarts /\ MaxStarts \in Nat
    BY DispatchAssumption DEF DispatchInv, TypeOK
  <2> QED
    BY <2>1 DEF Driver, Server, Cleanup
<1>4. picked' \in [Sender -> Object \union {None}] /\ event' \in [Sender -> Event]
  BY <1>1 DEF sendVars, DispatchInv, TypeOK
<1> QED
  BY <1>1, <1>2, <1>3, <1>4, ConnOnlyKeeps

------------------------------------------------------------------------------
(* Client.Start and Store.Done                                               *)

\* A new object in the store has no context yet (client.go:196-201).
LEMMA LaunchKeeps ==
  ASSUME DispatchInv, NEW b \in Object, Launch(b)
  PROVE  DispatchInv'
<1> USE DEF storeVars, listVars, sendVars
<1>1. L!LinkTypes /\ Framed /\ L!LinkTypes' /\ Framed'
  BY Parts, LinkKeeps DEF Launch, L!LinkNext, TypeOK
<1>2. ASSUME NEW c \in Object, c # b
      PROVE  link'[c] = link[c] /\ attempt'[c] = attempt[c] /\ cancelled'[c] = cancelled[c]
  BY <1>1, <1>2, LinkMoves DEF Launch
<1>3. TypeOK'
  <2>1. IdOf(b) \in Id /\ store' = [store EXCEPT ![IdOf(b)] = b]
    BY Ids DEF Launch
  <2>2. store' \in [Id -> Object \union {None}] /\ \A i \in Id : store'[i] # None => IdOf(store'[i]) = i
    BY <2>1 DEF DispatchInv, TypeOK
  <2>3. starts' \in 0 .. MaxStarts
    BY DispatchAssumption DEF Launch, DispatchInv, TypeOK
  <2> QED
    BY <1>1, <2>2, <2>3 DEF Launch, DispatchInv, TypeOK
<1>4. \A c \in Listed' : IdOf(c) \in mistaken' \/ Owes(c)'
  BY Parts DEF Launch, L!Launch, Listed, Owes, L!Attempts
<1>5. ASSUME NEW c \in Object PROVE OpenIfFound(c)'
  <2>1. OpenIfFound(c)
    BY Parts
  <2>2. CASE c = b
    BY <1>1, <2>1, <2>2 DEF Launch, L!Launch, L!Shift, L!LinkTypes, OpenIfFound
  <2>3. CASE c # b
    <3>1. c = store'[IdOf(c)] => c = store[IdOf(c)]
      BY <2>3, Ids DEF Launch, DispatchInv, TypeOK
    <3> QED
      BY <1>2, <2>1, <2>3, <3>1 DEF Launch, OpenIfFound, L!ContextDone
  <2> QED
    BY <2>2, <2>3
<1> QED
  BY <1>1, <1>3, <1>4, <1>5, PartsLater

\* Done takes the object that it cancels out of the store, and not while the
\* object's ConnectFunc runs (store.go:50-61).
LEMMA CloseOneKeeps ==
  ASSUME DispatchInv, NEW i \in Id, CloseOne(i)
  PROVE  DispatchInv'
<1> USE DEF storeVars, listVars, sendVars
<1>0. PICK b \in Object : b = store[i] /\ IdOf(b) = i /\ L!Cancel(b)
  BY DEF CloseOne, DispatchInv, TypeOK
<1>1. L!LinkTypes /\ Framed /\ L!LinkTypes' /\ Framed'
  BY <1>0, Parts, LinkKeeps DEF L!LinkNext, TypeOK
<1>2. ASSUME NEW c \in Object, c # b
      PROVE  link'[c] = link[c] /\ attempt'[c] = attempt[c] /\ cancelled'[c] = cancelled[c]
  BY <1>0, <1>1, <1>2, LinkMoves
<1>3. store' = [store EXCEPT ![i] = None] /\ UNCHANGED <<found, frame, link>>
  BY <1>0 DEF CloseOne, L!Cancel
<1>4. TypeOK'
  <2>1. store' \in [Id -> Object \union {None}] /\ \A j \in Id : store'[j] # None => IdOf(store'[j]) = j
    BY <1>3 DEF DispatchInv, TypeOK
  <2> QED
    BY <1>1, <2>1 DEF CloseOne, DispatchInv, TypeOK
<1>5. \A c \in Listed' : IdOf(c) \in mistaken' \/ Owes(c)'
  BY <1>3, Parts DEF CloseOne, Listed, Owes, L!Attempts
<1>6. ASSUME NEW c \in Object PROVE OpenIfFound(c)'
  <2>1. OpenIfFound(c)
    BY Parts
  <2>2. CASE c = b
    <3>1. store'[IdOf(b)] = None /\ link[b] # "ready"
      BY <1>0, <1>3 DEF L!Cancel, L!Unlocked, DispatchInv, TypeOK
    <3>2. found[b] = None
      BY <2>1, <2>2, <3>1 DEF OpenIfFound
    <3> QED
      BY <1>3, <2>2, <3>1, <3>2, DispatchAssumption DEF OpenIfFound
  <2>3. CASE c # b
    <3>1. c = store'[IdOf(c)] => c = store[IdOf(c)]
      BY <1>3, DispatchAssumption, Ids DEF DispatchInv, TypeOK
    <3> QED
      BY <1>2, <1>3, <2>1, <2>3, <3>1 DEF OpenIfFound, L!ContextDone
  <2> QED
    BY <2>2, <2>3
<1> QED
  BY <1>1, <1>4, <1>5, <1>6, PartsLater

\* The other steps leave the connections and the list alone.
LEMMA QuietKeeps ==
  ASSUME DispatchInv, BeginClose \/ EndClose \/ Seize
  PROVE  DispatchInv'
<1> USE DEF connVars, storeVars, listVars, sendVars
<1>1. UNCHANGED <<connVars, store, starts, found, listVars, sendVars>>
  BY DEF BeginClose, EndClose, Seize
<1>2. rebuilds' \in 0 .. MaxRounds /\ closing' \in BOOLEAN /\ held' \in BOOLEAN
  <2>1. rebuilds \in 0 .. MaxRounds /\ MaxRounds \in Nat
    BY DispatchAssumption DEF DispatchInv, TypeOK
  <2>2. rebuilds' \in 0 .. MaxRounds
    BY <2>1 DEF BeginClose, EndClose, Seize
  <2>3. closing \in BOOLEAN /\ held \in BOOLEAN
    BY DEF DispatchInv, TypeOK
  <2>4. closing' \in BOOLEAN /\ held' \in BOOLEAN
    BY <2>3 DEF BeginClose, EndClose, Seize
  <2> QED
    BY <2>2, <2>4
<1>3. TypeOK'
  BY <1>1, <1>2 DEF DispatchInv, TypeOK, L!LinkTypes
<1>4. /\ Framed'
      /\ \A b \in Listed' : IdOf(b) \in mistaken' \/ Owes(b)'
      /\ \A b \in Object : OpenIfFound(b)'
  BY <1>1, Parts DEF Framed, Listed, Owes, OpenIfFound, L!ContextDone, L!Attempts
<1> QED
  BY <1>3, <1>4, PartsLater

------------------------------------------------------------------------------
(* connect and delete                                                        *)

\* connect's return leaves b's context and its frames as they are.
LEMMA ReturnMoves ==
  ASSUME DispatchInv, NEW b \in Object, L!ConnectReturns(b)
  PROVE  /\ L!LinkTypes' /\ Framed'
         /\ link[b] = "ready" /\ link'[b] = "up"
         /\ \A c \in Object : c # b => link'[c] = link[c]
         /\ UNCHANGED <<attempt, cancelled, frame>>
<1>1. L!LinkTypes /\ Framed
  BY Parts DEF TypeOK
<1>2. L!LinkTypes' /\ Framed'
  BY <1>1, LinkKeeps DEF L!LinkNext
<1> QED
  BY <1>1, <1>2 DEF L!ConnectReturns, L!Shift, L!LinkTypes, L!numberVars

\* What connect finds under its own ID is open (client.go:246-253).
LEMMA GetKeeps ==
  ASSUME DispatchInv, NEW b \in Object, Get(b)
  PROVE  DispatchInv'
<1> USE DEF connVars, storeVars, listVars, sendVars
<1>1. /\ found' = [found EXCEPT ![b] = store[IdOf(b)]]
      /\ link[b] = "ready" /\ UNCHANGED <<storeVars, starts, held, listVars, sendVars>>
  BY DEF Get
<1>2. store[IdOf(b)] \in Object \union {None}
  BY Ids DEF DispatchInv, TypeOK
<1>3. store[IdOf(b)] # None => store[IdOf(b)] \in Namesakes(b)
  BY <1>2, Ids DEF DispatchInv, TypeOK, Namesakes
<1>4. /\ L!LinkTypes' /\ Framed' /\ UNCHANGED <<attempt, cancelled, frame>>
      /\ \A c \in Object : c # b => link'[c] = link[c]
      /\ link'[b] = IF store[IdOf(b)] = None THEN "up" ELSE "ready"
  <2>1. CASE store[IdOf(b)] = None
    BY <2>1, ReturnMoves DEF Get
  <2>2. CASE store[IdOf(b)] # None
    BY <1>1, <2>2, Parts DEF Get, TypeOK, L!LinkTypes, Framed, L!Attempts
  <2> QED
    BY <2>1, <2>2
<1>5. found' \in [Object -> Object \union {None}]
      /\ \A c \in Object : found'[c] = IF c = b THEN store[IdOf(b)] ELSE found[c]
  BY <1>1, <1>2 DEF DispatchInv, TypeOK
<1>6. TypeOK'
  BY <1>1, <1>3, <1>4, <1>5 DEF DispatchInv, TypeOK
<1>7. \A c \in Listed' : IdOf(c) \in mistaken' \/ Owes(c)'
  BY <1>1, <1>4, Parts DEF Listed, Owes, L!Attempts
<1>8. ASSUME NEW c \in Object PROVE OpenIfFound(c)'
  <2>1. OpenIfFound(c) /\ OpenIfFound(b)
    BY Parts
  <2>2. CASE c # b
    BY <1>1, <1>4, <1>5, <2>1, <2>2 DEF OpenIfFound, L!ContextDone
  <2>3. CASE c = b
    <3>1. b = store[IdOf(b)] => ~L!ContextDone(b)
      BY <1>1, <2>1 DEF OpenIfFound
    <3>2. None # b
      BY DispatchAssumption
    <3> QED
      BY <1>1, <1>4, <1>5, <2>3, <3>1, <3>2 DEF OpenIfFound, L!ContextDone
  <2> QED
    BY <2>2, <2>3
<1> QED
  BY <1>4, <1>6, <1>7, <1>8, PartsLater

\* set lists one object only: the one that came online, whose Start is parked, or
\* another, by mistake (client.go:255-273).
LEMMA SetKeeps ==
  ASSUME DispatchInv, NEW b \in Object, Set(b)
  PROVE  DispatchInv'
<1> DEFINE bk == found[b]
<1> USE DEF connVars, storeVars, listVars, sendVars
<1>1. bk \in Object /\ IdOf(bk) = IdOf(b) /\ onlineBrokers \in Seq(Object)
  BY DEF Set, DispatchInv, TypeOK, Namesakes
<1>2. /\ onlineBrokers' = [i \in 1 .. Len(Others(onlineBrokers, Namesakes(bk))) + 1 |-> bk]
      /\ currentSend' = 0
      /\ mistaken' = IF bk = b THEN mistaken \ {IdOf(b)} ELSE mistaken \union {IdOf(b)}
      /\ found' = [found EXCEPT ![b] = None]
      /\ UNCHANGED <<storeVars, starts, held, sendVars>>
  BY DEF Set
<1>3. onlineBrokers' \in Seq(Object) /\ Listed' \subseteq {bk}
  <2> HIDE DEF bk
  <2>1. onlineBrokers' \in Seq(Object)
    BY <1>1, <1>2, ListTypes
  <2>2. \A i \in DOMAIN onlineBrokers' : onlineBrokers'[i] = bk
    BY <1>2
  <2> QED
    BY <2>1, <2>2 DEF Listed
<1>4. /\ L!LinkTypes' /\ Framed'
      /\ link[b] = "ready" /\ link'[b] = "up"
      /\ \A c \in Object : c # b => link'[c] = link[c]
      /\ UNCHANGED <<attempt, cancelled, frame>>
  BY ReturnMoves DEF Set
<1>5. TypeOK'
  <2>1. found' \in [Object -> Object \union {None}] /\ \A c \in Object : found'[c] # None => found'[c] = found[c]
    BY <1>2 DEF DispatchInv, TypeOK
  <2>2. mistaken' \subseteq Id
    BY <1>2, Ids DEF DispatchInv, TypeOK
  <2>3. currentSend' \in 0 .. CounterMax - 1
    BY <1>2, DispatchAssumption
  <2> QED
    BY <1>2, <1>3, <1>4, <2>1, <2>2, <2>3 DEF DispatchInv, TypeOK
<1>6. ASSUME NEW c \in Listed' PROVE IdOf(c) \in mistaken' \/ Owes(c)'
  <2>1. c = bk
    BY <1>3
  <2>2. CASE bk # b
    BY <1>1, <1>2, <2>1, <2>2
  <2>3. CASE bk = b
    <3>1. attempt[b] \in L!Attempts /\ frame[b][attempt[b]] # "none"
      <4>1. attempt[b] \in 0 .. MaxStarts /\ attempt[b] # 0 /\ frame[b][attempt[b]] # "none"
        BY <1>4, Parts DEF Framed, DispatchInv, TypeOK, L!LinkTypes
      <4> QED
        BY <4>1 DEF L!Attempts
    <3>2. attempt[b] \notin cancelled[b]
      BY <1>4, <2>3, Parts DEF OpenIfFound, L!ContextDone
    <3>3. frame[b][attempt[b]] = "parked"
      BY <3>1, <3>2, Parts DEF Framed, DispatchInv, TypeOK, L!LinkTypes, L!Frames
    <3> QED
      BY <1>4, <2>1, <2>3, <3>1, <3>3 DEF Owes, L!Attempts
  <2> QED
    BY <2>2, <2>3
<1>7. ASSUME NEW c \in Object PROVE OpenIfFound(c)'
  <2>1. OpenIfFound(c)
    BY Parts
  <2>2. CASE c # b
    BY <1>2, <1>4, <2>1, <2>2 DEF OpenIfFound, L!ContextDone, DispatchInv, TypeOK
  <2>3. CASE c = b
    <3>1. found'[b] = None
      BY <1>2 DEF DispatchInv, TypeOK
    <3>2. None # b
      BY DispatchAssumption
    <3> QED
      BY <1>2, <1>4, <2>1, <2>3, <3>1, <3>2 DEF OpenIfFound, L!ContextDone
  <2> QED
    BY <2>2, <2>3
<1> QED
  BY <1>4, <1>5, <1>6, <1>7, PartsLater

\* A frame that calls delete owes nothing any more, and no entry of its ID is left
\* to be owed for (client.go:275-288).
LEMMA DeleteKeeps ==
  ASSUME DispatchInv, NEW b \in Object, NEW n \in L!Attempts, Delete(b, n)
  PROVE  DispatchInv'
<1> USE DEF connVars, storeVars, listVars, sendVars
<1>1. L!LinkTypes /\ Framed /\ L!LinkTypes' /\ Framed'
  BY Parts, LinkKeeps DEF Delete, L!LinkNext, TypeOK
<1>2. \A c \in Object : c # b => frame'[c] = frame[c]
  BY <1>1, LinkMoves DEF Delete
<1>3. /\ onlineBrokers' = Others(onlineBrokers, Namesakes(b)) /\ onlineBrokers \in Seq(Object)
      /\ currentSend' = 0 /\ mistaken' = mistaken \ {IdOf(b)}
      /\ UNCHANGED <<link, attempt, cancelled, storeVars, starts, found, held, sendVars>>
  BY DEF Delete, L!DisconnectReturns, L!numberVars, DispatchInv, TypeOK
<1>4. onlineBrokers' \in Seq(Object) /\ Listed' \subseteq Listed /\ Listed' \intersect Namesakes(b) = {}
  <2>1. /\ onlineBrokers' \in Seq(Object)
        /\ \A i \in DOMAIN onlineBrokers' :
             /\ onlineBrokers'[i] \notin Namesakes(b)
             /\ \E k \in DOMAIN onlineBrokers : onlineBrokers[k] = onlineBrokers'[i]
    BY <1>3, ListTypes
  <2> QED
    BY <2>1 DEF Listed
<1>5. TypeOK'
  <2>1. currentSend' \in 0 .. CounterMax - 1
    BY <1>3, DispatchAssumption
  <2> QED
    BY <1>1, <1>3, <1>4, <2>1 DEF DispatchInv, TypeOK
<1>6. ASSUME NEW c \in Listed' PROVE IdOf(c) \in mistaken' \/ Owes(c)'
  <2>1. c \in Object /\ c \in Listed /\ c \notin Namesakes(b)
    BY <1>4 DEF Listed, DispatchInv, TypeOK
  <2>2. IdOf(c) # IdOf(b) /\ c # b
    BY <2>1 DEF Namesakes
  <2>3. IdOf(c) \in mistaken \/ Owes(c)
    BY <2>1, Parts
  <2> QED
    BY <1>2, <1>3, <2>1, <2>2, <2>3 DEF Owes, L!Attempts
<1>7. \A c \in Object : OpenIfFound(c)'
  BY <1>3, Parts DEF OpenIfFound, L!ContextDone
<1> QED
  BY <1>1, <1>5, <1>6, <1>7, PartsLater

------------------------------------------------------------------------------
(* The senders                                                               *)

\* So does every step of a sender; nextBroker never leaves the list
\* (client.go:213-230, 342-353).
LEMMA SenderKeeps ==
  ASSUME DispatchInv, NEW s \in Sender, SendStep(s)
  PROVE  DispatchInv'
<1> USE DEF connVars, storeVars, listVars, sendVars
<1>1. CASE SendFails(s) /\ L!Drop(picked[s])
  <2>1. picked[s] \in Object
    BY <1>1 DEF SendFails, Sending, DispatchInv, TypeOK
  <2>2. /\ UNCHANGED <<storeVars, starts, found, held, listVars>>
        /\ picked' \in [Sender -> Object \union {None}] /\ event' \in [Sender -> Event]
    BY <1>1 DEF SendFails, DispatchInv, TypeOK
  <2>3. starts' \in 0 .. MaxStarts
    BY <2>2 DEF DispatchInv, TypeOK
  <2> QED
    BY <1>1, <2>1, <2>2, <2>3, ConnOnlyKeeps DEF ConnOnly
<1>2. CASE ~(SendFails(s) /\ L!Drop(picked[s]))
  <2>1. UNCHANGED <<connVars, storeVars, starts, found, held, onlineBrokers, mistaken>>
    BY <1>2 DEF SendStep, SendFails, NextBroker, NotConnected, SendTakes, BeginSend
  <2>2. currentSend' \in 0 .. CounterMax - 1
    <3>1. currentSend \in Nat /\ CounterMax \in Nat \ {0}
      BY DispatchAssumption DEF DispatchInv, TypeOK
    <3>2. (currentSend + 1) % CounterMax \in 0 .. CounterMax - 1
      BY <3>1
    <3> QED
      BY <3>2 DEF SendStep, SendFails, NextBroker, NotConnected, SendTakes, BeginSend,
                  DispatchInv, TypeOK
  <2>3. picked' \in [Sender -> Object \union {None}]
    <3>1. CASE NextBroker(s)
      <4>1. Len(onlineBrokers) \in Nat \ {0} /\ currentSend \in Nat
        BY <3>1 DEF NextBroker, DispatchInv, TypeOK
      <4>2. (currentSend % Len(onlineBrokers)) + 1 \in 1 .. Len(onlineBrokers)
        BY <4>1
      <4>3. onlineBrokers[(currentSend % Len(onlineBrokers)) + 1] \in Object
        BY <4>2 DEF DispatchInv, TypeOK
      <4> QED
        BY <3>1, <4>3 DEF NextBroker, DispatchInv, TypeOK
    <3>2. CASE ~NextBroker(s)
      BY <3>2 DEF SendStep, SendFails, NotConnected, SendTakes, BeginSend, DispatchInv, TypeOK
    <3> QED
      BY <3>1, <3>2
  <2>4. event' \in [Sender -> Event]
    BY DEF SendStep, SendFails, NextBroker, NotConnected, SendTakes, BeginSend,
           DispatchInv, TypeOK, Event
  <2>5. TypeOK'
    BY <2>1, <2>2, <2>3, <2>4 DEF DispatchInv, TypeOK, L!LinkTypes
  <2>6. /\ Framed'
        /\ \A b \in Listed' : IdOf(b) \in mistaken' \/ Owes(b)'
        /\ \A b \in Object : OpenIfFound(b)'
    BY <2>1, Parts DEF Framed, Listed, Owes, OpenIfFound, L!ContextDone, L!Attempts
  <2> QED
    BY <2>5, <2>6, PartsLater
<1> QED
  BY <1>1, <1>2

\* Types, and no entry of the online list is left without a Start that will take
\* it off, unless connect listed it by mistake: in whatever order "_.ready"s,
\* cleanups, deletes and rebuilds come (client.go:174-202, 246-288).
THEOREM DispatchCorrect == Spec => []DispatchInv
<1>1. DispatchInv /\ [Next]_vars => DispatchInv'
  <2> SUFFICES ASSUME DispatchInv, [Next]_vars PROVE DispatchInv'
    OBVIOUS
  <2>1. CASE UNCHANGED vars
    BY <2>1 DEF DispatchInv, TypeOK, EntriesHaveFrames, StoredAreOpen, Listed, L!LinkTypes,
                L!ContextDone, L!Attempts, vars, connVars, storeVars, listVars, sendVars
  <2>2. CASE Rebuild \/ Seize
    BY <2>2, QuietKeeps, CloseOneKeeps, LaunchKeeps DEF Rebuild
  <2>3. ASSUME NEW b \in Object, ConnStep(b) PROVE DispatchInv'
    BY <2>3, DriverKeeps, GetKeeps, SetKeeps, DeleteKeeps DEF ConnStep
  <2> QED
    BY <2>1, <2>2, <2>3, SenderKeeps DEF Next
<1> QED
  BY InitDispatch, <1>1, PTL DEF Spec
===============================================================================
