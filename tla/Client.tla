------------------------------- MODULE Client -------------------------------
(***************************************************************************)
(* The client (client/client.go) and the broker store (broker/store.go)    *)
(* around the connections of BrokerConn: the online list, the two flags,   *)
(* the deferred reset with its channel, the overstay takeover, and Start.  *)
(*                                                                         *)
(* The connections call back into the client while they hold their own     *)
(* locks, so the locks are what this module is about.  Each is derived     *)
(* from who stands where: b.rw is held in a ConnectFunc (BrokerConn);      *)
(* store.rw by the goroutine in Store.Done; c.rw is write-held by          *)
(* owerstaying from its sleep to its end, and read-held by a disconnect    *)
(* that sends its signal.  Every shorter critical section is one action.   *)
(***************************************************************************)
EXTENDS Loops, FiniteSets

CONSTANTS
  Id,        \* broker IDs
  None,      \* no broker
  Boot,      \* the goroutine of New that runs the first Client.Start
  Resetter,  \* the goroutines that reset() may spawn
  MaxRounds, \* bound on the calls of Client.Start
  durationMax, overstayAttempts, MaxStarts  \* see BrokerConn

\* The Broker object that the n-th Client.Start makes for an ID.
Object == Id \X (1 .. MaxRounds)
IdOf(b) == b[1]
Namesakes(b) == {x \in Object : IdOf(x) = IdOf(b)}

\* What can run Client.Start: the boot goroutine, a resetter, or the driver of a
\* broker in owerstaying.
Runner == {Boot} \union Resetter \union Object

ASSUME ClientAssumption ==
  /\ Boot \notin Resetter \union Object
  /\ Resetter \intersect Object = {}
  /\ None \notin Object
  /\ MaxRounds \in Nat
  /\ durationMax \in Nat \ {0} /\ overstayAttempts \in Nat /\ MaxStarts \in Nat

VARIABLES
  at, attempt, cancelled, frame, readied, connected, stream, done, duration,
  overstayCount,     \* the connections
  store,             \* Store.brokers: the object of each ID, or None
  onlineBrokers, online, resetProcess, overstayProcess,
  stopResetProcess,  \* the current channel, as the number of the Start it is from
  pc,                \* where each runner stands
  round,             \* the number of the Start a runner is in
  toLaunch,          \* the IDs it has yet to launch
  listensOn,         \* the channel a resetter waits on
  found,             \* what connect got from the store, in each ConnectFunc
  checking,          \* <<b, n>>: disconnects between delete and the check
  signals            \* <<b, n, channel>>: disconnects blocked in their send

BC == INSTANCE BrokerConn WITH Broker <- Object

connVars == <<at, attempt, cancelled, frame, readied, connected, stream, done,
              duration, overstayCount>>
listVars == <<onlineBrokers, online>>
flagVars == <<resetProcess, overstayProcess>>
runVars == <<pc, round, toLaunch, listensOn, stopResetProcess>>
callVars == <<found, checking, signals>>
clientVars == <<store, listVars, flagVars, runVars, callVars>>
vars == <<connVars, clientVars>>

RunnerPoints == {"idle", "spawned", "waiting", "sleeping", "stopping", "closing",
                 "requesting", "launching", "done", "panicked"}
Rounds == 0 .. MaxRounds

ClientTypes ==
  /\ store \in [Id -> Object \union {None}]
  /\ onlineBrokers \in Seq(Object)
  /\ online \in BOOLEAN /\ resetProcess \in BOOLEAN /\ overstayProcess \in BOOLEAN
  /\ stopResetProcess \in Rounds
  /\ pc \in [Runner -> RunnerPoints]
  /\ round \in [Runner -> Rounds]
  /\ \A r \in Runner : pc[r] \in {"requesting", "launching"} => round[r] # 0
  /\ toLaunch \in [Runner -> SUBSET Id]
  /\ listensOn \in [Resetter -> Rounds]
  /\ found \in [Object -> Object \union {None}]
  /\ checking \subseteq Object \X BC!Attempts
  /\ signals \subseteq Object \X BC!Attempts \X Rounds

TypeOK == BC!TypeOK /\ ClientTypes

Init ==
  /\ BC!Init
  /\ store = [i \in Id |-> None]
  /\ onlineBrokers = <<>> /\ online = FALSE
  /\ resetProcess = FALSE /\ overstayProcess = FALSE
  /\ stopResetProcess = 0
  /\ pc = [r \in Runner |-> "idle"]
  /\ round = [r \in Runner |-> 0]
  /\ toLaunch = [r \in Runner |-> {}]
  /\ listensOn = [r \in Resetter |-> 0]
  /\ found = [b \in Object |-> None]
  /\ checking = {} /\ signals = {}

------------------------------------------------------------------------------
(* Locks and the process                                                     *)

Overstaying == {b \in Object : pc[b] \notin {"idle", "done"}}
CanRead == Overstaying = {}                    \* c.rw.RLock would succeed

\* Faulty variants: disconnect unlocks before its send; owerstaying unlocks
\* before its sleep.
CanWrite_IgnoresSignals == Overstaying = {}
CanWrite_IgnoresOverstay == signals = {}

CanWrite == Overstaying = {} /\ signals = {}   \* c.rw.Lock would succeed
StoreFree == \A r \in Runner : pc[r] # "closing"

\* A panic in any goroutine ends the process.
Alive == ~BC!Crashed /\ \A r \in Runner : pc[r] # "panicked"

Move(r, from, to) == Alive /\ pc[r] = from /\ pc' = [pc EXCEPT ![r] = to]

------------------------------------------------------------------------------
(* Steps of a connection that the client does not see                        *)

ConnStep(b) ==
  /\ Alive
  /\ \/ BC!StartSteps(b)
     \/ BC!RecvReady(b) \/ BC!HandleReady(b)
     \/ BC!RecvReset(b) \/ BC!SendAck(b)
     \/ BC!RecvError(b) \/ BC!End(b)
     \/ BC!RestartBelowMax(b) \/ BC!RestartAtMax(b)
     \/ BC!CheckContext(b) \/ BC!TimerFires(b) \/ BC!WaitCancelled(b)
     \/ \E n \in BC!Attempts : BC!Cleanup(b, n)
  /\ UNCHANGED clientVars

------------------------------------------------------------------------------
(* connect: ConnectFunc, called with b.rw held                               *)

\* brokers.Get(id); without an entry connect returns.
ConnectGet(b) ==
  /\ Alive /\ at[b] = "connecting" /\ found[b] = None
  /\ StoreFree
  /\ found' = [found EXCEPT ![b] = store[IdOf(b)]]
  /\ IF store[IdOf(b)] = None THEN BC!ConnectReturns(b) ELSE UNCHANGED connVars
  /\ UNCHANGED <<store, listVars, flagVars, runVars, checking, signals>>

\* A faulty variant: the list is made with the length that it should only have as
\* its capacity.
ListWith_NilEntries(bk) ==
  LET others == Others(onlineBrokers, Namesakes(bk))
  IN  [i \in 1 .. Len(others) + 2 |-> IF i = Len(others) + 2 THEN bk ELSE None]

\* set builds a list that keeps the length of the others but holds bk alone.
ListWith(bk) ==
  LET others == Others(onlineBrokers, Namesakes(bk))
  IN  [i \in 1 .. Len(others) + 1 |-> bk]

ConnectSet(b) ==
  /\ Alive /\ at[b] = "connecting" /\ found[b] # None
  /\ CanWrite
  /\ onlineBrokers' = ListWith(found[b])
  /\ online' = TRUE
  /\ overstayProcess' = FALSE
  /\ found' = [found EXCEPT ![b] = None]
  /\ BC!ConnectReturns(b)
  /\ UNCHANGED <<store, resetProcess, runVars, checking, signals>>

------------------------------------------------------------------------------
(* disconnect: DisconnectFunc, called by the n-th Start of b                 *)

Leaving(b, n) == Alive /\ frame[b][n] = "leaving"

\* delete(id) removes by ID, whichever object the list holds.
Delete(b, n) ==
  LET next == Others(onlineBrokers, Namesakes(b)) IN
  /\ Leaving(b, n) /\ <<b, n>> \notin checking
  /\ \A s \in signals : <<s[1], s[2]>> # <<b, n>>
  /\ CanWrite
  /\ onlineBrokers' = next
  /\ online' = (next # <<>>)
  /\ checking' = checking \union {<<b, n>>}
  /\ UNCHANGED <<connVars, store, flagVars, runVars, found, signals>>

\* A faulty variant: a reset is signalled whether the client is offline or not.
CheckAndSignal_Anyway(b, n) ==
  /\ Leaving(b, n) /\ <<b, n>> \in checking
  /\ CanRead
  /\ checking' = checking \ {<<b, n>>}
  /\ IF resetProcess
     THEN signals' = signals \union {<<b, n, stopResetProcess>>} /\ UNCHANGED connVars
     ELSE BC!DisconnectReturns(b, n) /\ UNCHANGED signals
  /\ UNCHANGED <<store, listVars, flagVars, runVars, found>>

\* Under c.rw.RLock: signal when a reset runs and the client is offline.
CheckAndSignal(b, n) ==
  /\ Leaving(b, n) /\ <<b, n>> \in checking
  /\ CanRead
  /\ checking' = checking \ {<<b, n>>}
  /\ IF resetProcess /\ ~online
     THEN signals' = signals \union {<<b, n, stopResetProcess>>} /\ UNCHANGED connVars
     ELSE BC!DisconnectReturns(b, n) /\ UNCHANGED signals
  /\ UNCHANGED <<store, listVars, flagVars, runVars, found>>

\* The channel is unbuffered: the send returns when a resetter receives.
SignalReceived(r, b, n) ==
  /\ <<b, n, listensOn[r]>> \in signals
  /\ Move(r, "waiting", "stopping")
  /\ signals' = signals \ {<<b, n, listensOn[r]>>}
  /\ BC!DisconnectReturns(b, n)
  /\ UNCHANGED <<store, listVars, flagVars, round, toLaunch, listensOn,
                 stopResetProcess, found, checking>>

------------------------------------------------------------------------------
(* reset: ResetFunc, and the goroutine it spawns                             *)

\* A faulty variant: a second call is not ignored.
Reset_Always(b) ==
  /\ Alive /\ at[b] = "resetting" /\ CanWrite
  /\ BC!ResetReturns(b)
  /\ resetProcess' = TRUE
  /\ \E r \in Resetter : Move(r, "idle", "spawned")
  /\ UNCHANGED <<store, listVars, overstayProcess, round, toLaunch, listensOn,
                 stopResetProcess, callVars>>

\* A second call is ignored as long as the flag is up.
Reset(b) ==
  /\ Alive /\ at[b] = "resetting" /\ CanWrite
  /\ BC!ResetReturns(b)
  /\ resetProcess' = TRUE
  /\ IF resetProcess THEN UNCHANGED pc
     ELSE \E r \in Resetter : Move(r, "idle", "spawned")
  /\ UNCHANGED <<store, listVars, overstayProcess, round, toLaunch, listensOn,
                 stopResetProcess, callVars>>

\* The select evaluates c.stopResetProcess when the goroutine gets to it.
ResetterSelects(r) ==
  /\ Move(r, "spawned", "waiting")
  /\ listensOn' = [listensOn EXCEPT ![r] = stopResetProcess]
  /\ UNCHANGED <<connVars, store, listVars, flagVars, round, toLaunch,
                 stopResetProcess, callVars>>

\* A faulty variant: the timer is ignored while a broker is online.
ResetTimerFires_Offline(r) ==
  /\ Move(r, "waiting", "stopping") /\ ~online
  /\ UNCHANGED <<connVars, store, listVars, flagVars, round, toLaunch, listensOn,
                 stopResetProcess, callVars>>

\* Both cases of the select lead to the same reset.
ResetTimerFires(r) ==
  /\ Move(r, "waiting", "stopping")
  /\ UNCHANGED <<connVars, store, listVars, flagVars, round, toLaunch, listensOn,
                 stopResetProcess, callVars>>

------------------------------------------------------------------------------
(* owerstaying: OwerstayingFunc                                              *)

\* Something else is already being done about it: answer FALSE.
DeclineOverstay(b) ==
  /\ Alive /\ at[b] = "overstaying" /\ pc[b] = "idle"
  /\ CanWrite
  /\ resetProcess \/ online \/ overstayProcess
  /\ BC!OverstayReturns(b, FALSE)
  /\ UNCHANGED clientVars

\* From here to FinishStart c.rw stays locked.
BeginOverstay(b) ==
  /\ at[b] = "overstaying" /\ CanWrite
  /\ ~resetProcess /\ ~online /\ ~overstayProcess
  /\ Move(b, "idle", "sleeping")
  /\ overstayProcess' = TRUE
  /\ UNCHANGED <<connVars, store, listVars, resetProcess, round, toLaunch,
                 listensOn, stopResetProcess, callVars>>

------------------------------------------------------------------------------
(* Store.Done and Client.Start, by a resetter or in owerstaying              *)

\* Store.Done locks store.rw.
BeginClose(r) ==
  /\ \E from \in {"stopping", "sleeping"} : Move(r, from, "closing")
  /\ StoreFree
  /\ UNCHANGED <<connVars, store, listVars, flagVars, round, toLaunch, listensOn,
                 stopResetProcess, callVars>>

\* bk.Done() needs b.rw; then the entry goes.
CloseOne(r, id) ==
  /\ Alive /\ pc[r] = "closing" /\ store[id] # None
  /\ BC!Done(store[id])
  /\ store' = [store EXCEPT ![id] = None]
  /\ UNCHANGED <<listVars, flagVars, runVars, callVars>>

\* Client.Start makes a new channel; for the boot goroutine it is the first.
BeginStart(r) ==
  /\ \/ r = Boot /\ Move(r, "idle", "requesting")
     \/ Move(r, "closing", "requesting") /\ \A id \in Id : store[id] = None
  /\ stopResetProcess < MaxRounds
  /\ stopResetProcess' = stopResetProcess + 1
  /\ round' = [round EXCEPT ![r] = stopResetProcess + 1]
  /\ UNCHANGED <<connVars, store, listVars, flagVars, toLaunch, listensOn, callVars>>

\* The server answers with any set of brokers.
RequestReturns(r, ids) ==
  /\ Move(r, "requesting", "launching")
  /\ toLaunch' = [toLaunch EXCEPT ![r] = ids]
  /\ UNCHANGED <<connVars, store, listVars, flagVars, round, listensOn,
                 stopResetProcess, callVars>>

\* A refused or malformed answer is a panic; lost ones are retried in Request.
RequestPanics(r) ==
  /\ Move(r, "requesting", "panicked")
  /\ UNCHANGED <<connVars, store, listVars, flagVars, round, toLaunch, listensOn,
                 stopResetProcess, callVars>>

\* brokers.Set(bk) and go bk.Start().
LaunchOne(r, id) ==
  LET bk == <<id, round[r]>> IN
  /\ Alive /\ pc[r] = "launching" /\ id \in toLaunch[r]
  /\ StoreFree
  /\ store' = [store EXCEPT ![id] = bk]
  /\ BC!Spawn(bk)
  /\ toLaunch' = [toLaunch EXCEPT ![r] = @ \ {id}]
  /\ UNCHANGED <<listVars, flagVars, pc, round, listensOn, stopResetProcess, callVars>>

\* A faulty variant: Start clears the flag of overstay alone.
FinishStart_KeepsReset(r) ==
  /\ Move(r, "launching", "done") /\ toLaunch[r] = {}
  /\ overstayProcess' = FALSE
  /\ IF r \in Object THEN BC!OverstayReturns(r, TRUE) ELSE UNCHANGED connVars
  /\ UNCHANGED <<store, listVars, resetProcess, round, toLaunch, listensOn,
                 stopResetProcess, callVars>>

\* Both flags are cleared, whoever set them; owerstaying then answers TRUE.
FinishStart(r) ==
  /\ Move(r, "launching", "done") /\ toLaunch[r] = {}
  /\ overstayProcess' = FALSE
  /\ resetProcess' = FALSE
  /\ IF r \in Object THEN BC!OverstayReturns(r, TRUE) ELSE UNCHANGED connVars
  /\ UNCHANGED <<store, listVars, round, toLaunch, listensOn, stopResetProcess, callVars>>

------------------------------------------------------------------------------
Callbacks(b) ==
  \/ ConnectGet(b) \/ ConnectSet(b)
  \/ \E n \in BC!Attempts : Delete(b, n) \/ CheckAndSignal(b, n)
  \/ \E r \in Resetter, n \in BC!Attempts : SignalReceived(r, b, n)
  \/ Reset(b) \/ DeclineOverstay(b) \/ BeginOverstay(b)

Answer(r) == (\E ids \in SUBSET Id : RequestReturns(r, ids)) \/ RequestPanics(r)

Advance(r) ==
  \/ BeginClose(r) \/ (\E id \in Id : CloseOne(r, id))
  \/ BeginStart(r)
  \/ (\E id \in Id : LaunchOne(r, id)) \/ FinishStart(r)

Rebuild(r) == Answer(r) \/ Advance(r)

Next ==
  \/ \E b \in Object : ConnStep(b) \/ Callbacks(b)
  \/ \E r \in Resetter : ResetterSelects(r) \/ ResetTimerFires(r)
  \/ \E r \in Runner : Rebuild(r)

Spec == Init /\ [][Next]_vars

\* Every goroutine keeps running: a driver unless it reads from a live stream, a
\* frame once its context is cancelled, the boot goroutine and the resetters.
\* The answer to Start's request need never come: Request retries for ever.
\* A goroutine waits for one thing at a time, so strong fairness of all its
\* steps says that a lock it keeps finding free is granted.
Driver(b) ==
  \/ at[b] # "reading" /\ ConnStep(b) /\ at'[b] # at[b]
  \/ BC!ContextDone(b) /\ BC!RecvError(b) /\ UNCHANGED clientVars
  \/ ConnectGet(b) \/ ConnectSet(b)
  \/ Reset(b) \/ DeclineOverstay(b) \/ BeginOverstay(b)
  \/ Advance(b)

Leave(b, n) ==
  \/ BC!Cleanup(b, n) /\ Alive /\ UNCHANGED clientVars
  \/ Delete(b, n) \/ CheckAndSignal(b, n)
  \/ \E r \in Resetter : SignalReceived(r, b, n)

Fairness ==
  /\ \A b \in Object :
       SF_vars(Driver(b)) /\ \A n \in BC!Attempts : SF_vars(Leave(b, n))
  /\ SF_vars(Advance(Boot))
  /\ \A r \in Resetter : SF_vars(ResetterSelects(r) \/ ResetTimerFires(r) \/ Advance(r))

FairSpec == Spec /\ Fairness

------------------------------------------------------------------------------
(* Properties                                                                *)

\* While owerstaying sleeps, closes and rebuilds, no connection comes online
\* behind its back: it took the decision with the client offline and keeps
\* c.rw (client.go:331-332).
OverstayOffline == Overstaying # {} => ~online

\* A disconnect that signals a reset found the client offline, and it still is
\* when the signal arrives, because the lock is held across the send
\* (client.go:236-243).
SignalsOffline == signals # {} => ~online

\* What will call Client.Start next, the boot goroutine aside.
Rebuilders == {r \in Runner \ {Boot} : pc[r] \notin {"idle", "done"}}

\* A flag is never left behind: as long as one is set, the goroutine that set
\* it is still on its way to clear it (client.go:204-207, 301, 330).
FlagsHaveOwners ==
  /\ resetProcess => Rebuilders \intersect Resetter # {}
  /\ overstayProcess => Overstaying # {}

\* The flags keep rebuilds apart, except that the boot goroutine clears flags it
\* did not set: one rebuild at a time until it has, never more than two after
\* (client.go:298, 324).
RebuildsBounded ==
  /\ Cardinality(Rebuilders) <= 2
  /\ pc[Boot] # "done" => Cardinality(Rebuilders) <= 1

\* Store.Done has taken every object out of the store.
Closed(r) ==
  \/ pc[r] \in {"requesting", "launching", "done"}
  \/ pc[r] = "closing" /\ \A id \in Id : store[id] = None

\* Store.Done, with store.rw locked, waits for the b.rw of a "_.ready" handler
\* that waits for store.rw, or for c.rw.
LockCycle ==
  \E r \in Runner, id \in Id :
    /\ pc[r] = "closing" /\ store[id] # None
    /\ at[store[id]] = "connecting"
    /\ found[store[id]] = None \/ ~CanWrite

\* A reset that has begun takes all objects out of the store, unless a panic ends
\* the process or a rebuild and a "_.ready" handler wait for each other for ever
\* (client.go:290-319, 334, store.go:50-61).
ResetCompletes ==
  \A r \in Resetter : pc[r] = "spawned" ~> (Closed(r) \/ ~Alive \/ []LockCycle)

------------------------------------------------------------------------------
(* The inductive invariant behind the safety properties                      *)

RunTypes ==
  /\ pc \in [Runner -> RunnerPoints]
  /\ online \in BOOLEAN /\ resetProcess \in BOOLEAN /\ overstayProcess \in BOOLEAN

\* A rebuild is accounted for by the flag that is up; the boot goroutine, when
\* it clears the flags, leaves room for one that is not.
Count(condition) == IF condition THEN 1 ELSE 0
FlagsCount ==
  /\ IsFiniteSet(Rebuilders)
  /\ Cardinality(Rebuilders) <=
       Count(pc[Boot] = "done") + Count(resetProcess \/ overstayProcess)

ClientInv ==
  RunTypes /\ OverstayOffline /\ SignalsOffline /\ FlagsHaveOwners /\ FlagsCount
==============================================================================
