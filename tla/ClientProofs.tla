----------------------------- MODULE ClientProofs -----------------------------
(***************************************************************************)
(* Theorems about Client, for any IDs, any number of resetters and any     *)
(* bounds.  For the flags, the locks and the runners it does not matter    *)
(* what the connections do: whichever of their steps a client step is      *)
(* joined with, these change as the client's part says.  That the steps    *)
(* are those of BrokerConn brings its theorems to the client.              *)
(***************************************************************************)
EXTENDS Client, LoopsProofs, FiniteSetTheorems

------------------------------------------------------------------------------
(* What a runner's move does to the rebuilds under way                       *)

\* A move between two points of a rebuild changes nobody's standing.
LEMMA MoveWithin ==
  ASSUME RunTypes, NEW r \in Runner, NEW from, NEW to, Move(r, from, to),
         r = Boot \/ (from \notin {"idle", "done"} /\ to \notin {"idle", "done"})
  PROVE  Rebuilders' = Rebuilders /\ Overstaying' = Overstaying
  BY ClientAssumption DEF RunTypes, Move, Rebuilders, Overstaying, Runner

\* A runner that leaves "idle" becomes a rebuild.
LEMMA MoveIn ==
  ASSUME RunTypes, NEW r \in Runner \ {Boot}, NEW to, Move(r, "idle", to),
         to \notin {"idle", "done"}
  PROVE  /\ r \notin Rebuilders
         /\ Rebuilders' = Rebuilders \union {r}
         /\ r \in Resetter => Overstaying' = Overstaying
  BY ClientAssumption DEF RunTypes, Move, Rebuilders, Overstaying, Runner

\* A runner that gets to "done" is one no more.
LEMMA MoveOut ==
  ASSUME RunTypes, NEW r \in Runner \ {Boot}, NEW from, Move(r, from, "done"),
         from \notin {"idle", "done"}
  PROVE  /\ r \in Rebuilders
         /\ Rebuilders' = Rebuilders \ {r}
         /\ Overstaying' \subseteq Overstaying
  BY DEF RunTypes, Move, Rebuilders, Overstaying, Runner

\* The same flags, the same client state and the same rebuilds keep the
\* invariant.
LEMMA QuietKeeps ==
  ASSUME ClientInv, UNCHANGED <<online, flagVars>>, RunTypes', signals' \subseteq signals,
         Rebuilders' = Rebuilders, Overstaying' = Overstaying,
         pc[Boot] = "done" => pc'[Boot] = "done"
  PROVE  ClientInv'
<1> USE DEF ClientInv, flagVars
<1>1. OverstayOffline' /\ SignalsOffline'
  BY DEF OverstayOffline, SignalsOffline
<1>2. FlagsHaveOwners'
  BY DEF FlagsHaveOwners
<1>3. FlagsCount'
  <2>1. Cardinality(Rebuilders) \in Nat
    BY FS_CardinalityType DEF FlagsCount
  <2> QED
    BY <2>1 DEF FlagsCount, Count
<1> QED
  BY <1>1, <1>2, <1>3

\* No runner is anywhere in a step that leaves pc alone.
LEMMA StillKeeps ==
  ASSUME ClientInv, UNCHANGED <<online, flagVars, pc>>, signals' \subseteq signals
  PROVE  ClientInv'
<1>1. RunTypes' /\ Rebuilders' = Rebuilders /\ Overstaying' = Overstaying
  BY DEF ClientInv, RunTypes, flagVars, Rebuilders, Overstaying
<1> QED
  BY <1>1, QuietKeeps

\* A step of one runner between two points of a rebuild, or of the boot
\* goroutine before its end.
LEMMA MoveKeeps ==
  ASSUME ClientInv, UNCHANGED <<online, flagVars>>, signals' \subseteq signals,
         NEW r \in Runner, NEW from, NEW to \in RunnerPoints \ {"idle", "done"},
         Move(r, from, to), from # "done", r = Boot \/ from # "idle"
  PROVE  ClientInv'
<1>1. RunTypes
  BY DEF ClientInv
<1>2. Rebuilders' = Rebuilders /\ Overstaying' = Overstaying
  BY <1>1, MoveWithin
<1>3. RunTypes'
  BY <1>1 DEF RunTypes, Move, flagVars
<1>4. pc[Boot] = "done" => pc'[Boot] = "done"
  BY <1>1 DEF RunTypes, Move, Runner
<1> QED
  BY <1>2, <1>3, <1>4, QuietKeeps

------------------------------------------------------------------------------
(* The steps                                                                 *)

\* What a connection does by itself (broker.go:135-300).
LEMMA ConnStepKeeps ==
  ASSUME ClientInv, NEW b \in Object, ConnStep(b)
  PROVE  ClientInv'
  BY StillKeeps DEF ConnStep, clientVars, listVars, flagVars, runVars, callVars

\* connect, up to the lock (client.go:246-251).
LEMMA ConnectGetKeeps ==
  ASSUME ClientInv, NEW b \in Object, ConnectGet(b)
  PROVE  ClientInv'
  BY StillKeeps DEF ConnectGet, listVars, flagVars, runVars

\* set, under the lock (client.go:255-273).
LEMMA ConnectSetKeeps ==
  ASSUME ClientInv, NEW b \in Object, ConnectSet(b)
  PROVE  ClientInv'
<1>1. Overstaying = {} /\ signals = {} /\ signals' = signals /\ pc' = pc
  BY DEF ConnectSet, CanWrite, runVars
<1>2. overstayProcess = FALSE /\ overstayProcess' = FALSE /\ resetProcess' = resetProcess
  BY <1>1 DEF ClientInv, RunTypes, FlagsHaveOwners, ConnectSet
<1>3. Rebuilders' = Rebuilders /\ Overstaying' = Overstaying
  BY <1>1 DEF Rebuilders, Overstaying
<1>4. RunTypes'
  BY <1>1, <1>2 DEF ClientInv, RunTypes, ConnectSet
<1>5. OverstayOffline' /\ SignalsOffline'
  BY <1>1, <1>3 DEF OverstayOffline, SignalsOffline
<1>6. FlagsHaveOwners' /\ FlagsCount'
  BY <1>1, <1>2, <1>3 DEF ClientInv, FlagsHaveOwners, FlagsCount
<1> QED
  BY <1>4, <1>5, <1>6 DEF ClientInv

\* delete, under the lock (client.go:275-288).
LEMMA DeleteKeeps ==
  ASSUME ClientInv, NEW b \in Object, NEW n \in BC!Attempts, Delete(b, n)
  PROVE  ClientInv'
<1>1. Overstaying = {} /\ signals = {} /\ signals' = signals /\ pc' = pc
  BY DEF Delete, CanWrite, runVars
<1>2. UNCHANGED flagVars
  BY DEF Delete
<1>3. Rebuilders' = Rebuilders /\ Overstaying' = Overstaying
  BY <1>1 DEF Rebuilders, Overstaying
<1>4. online' \in BOOLEAN
  BY DEF Delete
<1>5. RunTypes'
  BY <1>1, <1>2, <1>4 DEF ClientInv, RunTypes, flagVars
<1>6. OverstayOffline' /\ SignalsOffline'
  BY <1>1, <1>3 DEF OverstayOffline, SignalsOffline
<1>7. FlagsHaveOwners' /\ FlagsCount'
  BY <1>1, <1>2, <1>3 DEF ClientInv, FlagsHaveOwners, FlagsCount, flagVars
<1> QED
  BY <1>5, <1>6, <1>7 DEF ClientInv

\* The rest of disconnect, under the read lock (client.go:235-243): only a
\* client that is offline is signalled.
LEMMA CheckKeeps ==
  ASSUME ClientInv, NEW b \in Object, NEW n \in BC!Attempts, CheckAndSignal(b, n)
  PROVE  ClientInv'
<1>1. UNCHANGED <<online, flagVars, pc>>
  BY DEF CheckAndSignal, listVars, runVars
<1>2. CASE resetProcess /\ ~online
  <2>1. Rebuilders' = Rebuilders /\ Overstaying' = Overstaying
    BY <1>1 DEF Rebuilders, Overstaying
  <2>2. ~online'
    BY <1>1, <1>2
  <2> QED
    BY <1>1, <2>1, <2>2 DEF ClientInv, RunTypes, OverstayOffline, SignalsOffline,
       FlagsHaveOwners, FlagsCount, flagVars
<1>3. CASE ~(resetProcess /\ ~online)
  <2>1. signals' = signals
    BY <1>3 DEF CheckAndSignal
  <2> QED
    BY <1>1, <2>1, StillKeeps
<1> QED
  BY <1>2, <1>3

\* A resetter receives the signal (client.go:306).
LEMMA SignalKeeps ==
  ASSUME ClientInv, NEW r \in Resetter, NEW b \in Object, NEW n \in BC!Attempts,
         SignalReceived(r, b, n)
  PROVE  ClientInv'
<1>1. UNCHANGED <<online, flagVars>> /\ signals' \subseteq signals
  BY DEF SignalReceived, listVars
<1>2. Move(r, "waiting", "stopping") /\ r \in Runner
  BY DEF SignalReceived, Runner
<1>3. "stopping" \in RunnerPoints \ {"idle", "done"}
  BY DEF RunnerPoints
<1> QED
  BY <1>1, <1>2, <1>3, MoveKeeps

\* reset, under the lock (client.go:295-303): nothing owned a flag that is down.
LEMMA ResetKeeps ==
  ASSUME ClientInv, NEW b \in Object, Reset(b)
  PROVE  ClientInv'
<1>1. Overstaying = {} /\ signals' = signals /\ UNCHANGED <<online, overstayProcess>>
  BY DEF Reset, CanWrite, listVars, callVars
<1>2. resetProcess' = TRUE /\ overstayProcess = FALSE
  BY <1>1 DEF Reset, ClientInv, RunTypes, FlagsHaveOwners
<1>3. CASE resetProcess
  <2>1. pc' = pc /\ resetProcess' = resetProcess
    BY <1>2, <1>3 DEF Reset, ClientInv, RunTypes
  <2> QED
    BY <1>1, <2>1, StillKeeps DEF flagVars
<1>4. CASE ~resetProcess
  <2>1. PICK r \in Resetter : Move(r, "idle", "spawned")
    BY <1>4 DEF Reset
  <2>2. r \in Runner \ {Boot} /\ RunTypes
    BY ClientAssumption DEF Runner, ClientInv
  <2>3. r \notin Rebuilders /\ Rebuilders' = Rebuilders \union {r}
        /\ Overstaying' = Overstaying
    BY <2>1, <2>2, MoveIn
  <2>4. RunTypes' /\ pc'[Boot] = pc[Boot]
    BY <1>1, <1>2, <2>1, <2>2 DEF RunTypes, RunnerPoints, Move, Runner
  <2>5. OverstayOffline' /\ SignalsOffline'
    BY <1>1, <2>3 DEF ClientInv, OverstayOffline, SignalsOffline
  <2>6. FlagsHaveOwners'
    BY <1>1, <1>2, <2>3 DEF FlagsHaveOwners
  <2>7. FlagsCount'
    <3>1. IsFiniteSet(Rebuilders') /\ Cardinality(Rebuilders') = Cardinality(Rebuilders) + 1
      BY <2>3, FS_AddElement DEF ClientInv, FlagsCount
    <3>2. Cardinality(Rebuilders) \in Nat
      BY FS_CardinalityType DEF ClientInv, FlagsCount
    <3>3. Cardinality(Rebuilders) <= Count(pc[Boot] = "done")
      BY <1>2, <1>4, <3>2 DEF ClientInv, FlagsCount, Count
    <3> QED
      BY <1>2, <2>4, <3>1, <3>2, <3>3 DEF FlagsCount, Count
  <2> QED
    BY <2>4, <2>5, <2>6, <2>7 DEF ClientInv
<1> QED
  BY <1>3, <1>4


\* owerstaying answers FALSE (client.go:324-326).
LEMMA DeclineKeeps ==
  ASSUME ClientInv, NEW b \in Object, DeclineOverstay(b)
  PROVE  ClientInv'
  BY StillKeeps DEF DeclineOverstay, clientVars, listVars, flagVars, runVars, callVars

\* owerstaying goes to sleep with the lock (client.go:327-330).
LEMMA BeginOverstayKeeps ==
  ASSUME ClientInv, NEW b \in Object, BeginOverstay(b)
  PROVE  ClientInv'
<1>1. ~resetProcess /\ ~online /\ ~overstayProcess /\ overstayProcess' = TRUE
      /\ UNCHANGED <<online, resetProcess>>
  BY DEF BeginOverstay, listVars
<1>2. b \in Runner \ {Boot} /\ b \notin Resetter /\ RunTypes /\ Move(b, "idle", "sleeping")
  BY ClientAssumption DEF Runner, ClientInv, BeginOverstay
<1>3. b \notin Rebuilders /\ Rebuilders' = Rebuilders \union {b}
  BY <1>2, MoveIn
<1>4. RunTypes' /\ pc'[Boot] = pc[Boot] /\ b \in Overstaying'
  BY <1>1, <1>2 DEF RunTypes, RunnerPoints, Move, Runner, Overstaying
<1>5. OverstayOffline' /\ SignalsOffline'
  BY <1>1 DEF OverstayOffline, SignalsOffline
<1>6. FlagsHaveOwners'
  BY <1>1, <1>4 DEF FlagsHaveOwners
<1>7. FlagsCount'
  <2>1. IsFiniteSet(Rebuilders') /\ Cardinality(Rebuilders') = Cardinality(Rebuilders) + 1
    BY <1>3, FS_AddElement DEF ClientInv, FlagsCount
  <2>2. Cardinality(Rebuilders) \in Nat
    BY FS_CardinalityType DEF ClientInv, FlagsCount
  <2>3. Cardinality(Rebuilders) <= Count(pc[Boot] = "done")
    BY <1>1, <2>2 DEF ClientInv, FlagsCount, Count
  <2> QED
    BY <1>1, <1>4, <2>1, <2>2, <2>3 DEF FlagsCount, Count
<1> QED
  BY <1>4, <1>5, <1>6, <1>7 DEF ClientInv

\* The select of a resetter (client.go:304-311).
LEMMA SelectKeeps ==
  ASSUME ClientInv, NEW r \in Resetter, ResetterSelects(r) \/ ResetTimerFires(r)
  PROVE  ClientInv'
<1>1. r \in Runner /\ {"waiting", "stopping"} \subseteq RunnerPoints
  BY DEF Runner, RunnerPoints
<1>2. UNCHANGED <<online, flagVars, signals>>
  BY DEF ResetterSelects, ResetTimerFires, listVars, callVars
<1>3. CASE ResetterSelects(r)
  BY <1>1, <1>2, <1>3, MoveKeeps DEF ResetterSelects
<1>4. CASE ResetTimerFires(r)
  BY <1>1, <1>2, <1>4, MoveKeeps DEF ResetTimerFires
<1> QED
  BY <1>3, <1>4

\* Store.Done and Client.Start, but for the end of Start (client.go:134-202).
LEMMA RebuildKeeps ==
  ASSUME ClientInv, NEW r \in Runner, Rebuild(r), ~FinishStart(r)
  PROVE  ClientInv'
<1>1. {"closing", "requesting", "launching", "panicked"} \subseteq RunnerPoints
  BY DEF RunnerPoints
<1>2. CASE BeginClose(r)
  <2>1. PICK from \in {"stopping", "sleeping"} : Move(r, from, "closing")
    BY <1>2 DEF BeginClose
  <2> QED
    BY <1>1, <1>2, <2>1, MoveKeeps DEF BeginClose, listVars, callVars
<1>3. ASSUME NEW id \in Id, CloseOne(r, id)
      PROVE  ClientInv'
  BY <1>3, StillKeeps DEF CloseOne, listVars, flagVars, runVars, callVars
<1>4. CASE BeginStart(r)
  BY <1>1, <1>4, MoveKeeps DEF BeginStart, listVars, callVars
<1>5. ASSUME NEW ids \in SUBSET Id, RequestReturns(r, ids)
      PROVE  ClientInv'
  BY <1>1, <1>5, MoveKeeps DEF RequestReturns, listVars, callVars
<1>6. CASE RequestPanics(r)
  BY <1>1, <1>6, MoveKeeps DEF RequestPanics, listVars, callVars
<1>7. ASSUME NEW id \in Id, LaunchOne(r, id)
      PROVE  ClientInv'
  BY <1>7, StillKeeps DEF LaunchOne, listVars, flagVars, callVars
<1> QED
  BY <1>2, <1>3, <1>4, <1>5, <1>6, <1>7 DEF Rebuild, Answer, Advance

\* The end of Start clears both flags (client.go:204-207).  A rebuild that ends
\* leaves one less to account for; the boot goroutine was not counted.
LEMMA FinishKeeps ==
  ASSUME ClientInv, NEW r \in Runner, FinishStart(r)
  PROVE  ClientInv'
<1>1. overstayProcess' = FALSE /\ resetProcess' = FALSE /\ online' = online
      /\ signals' = signals
  BY DEF FinishStart, listVars, callVars
<1>2. Move(r, "launching", "done") /\ RunTypes
  BY DEF FinishStart, ClientInv
<1>3. RunTypes'
  BY <1>1, <1>2 DEF RunTypes, RunnerPoints, Move
<1>4. Overstaying' \subseteq Overstaying
  BY <1>2, MoveOut DEF RunTypes, Move, Overstaying, Runner
<1>5. OverstayOffline' /\ SignalsOffline' /\ FlagsHaveOwners'
  BY <1>1, <1>4 DEF ClientInv, OverstayOffline, SignalsOffline, FlagsHaveOwners
<1>6. Cardinality(Rebuilders) \in Nat
  BY FS_CardinalityType DEF ClientInv, FlagsCount
<1>7. CASE r = Boot
  <2>1. Rebuilders' = Rebuilders
    BY <1>2, <1>7 DEF RunTypes, Move, Rebuilders
  <2>2. pc[Boot] # "done" /\ pc'[Boot] = "done"
    BY <1>2, <1>7 DEF RunTypes, Move, Runner
  <2>3. FlagsCount'
    BY <1>1, <1>6, <2>1, <2>2 DEF ClientInv, FlagsCount, Count
  <2> QED
    BY <1>3, <1>5, <2>3 DEF ClientInv
<1>8. CASE r # Boot
  <2>1. r \in Rebuilders /\ Rebuilders' = Rebuilders \ {r}
    BY <1>2, <1>8, MoveOut
  <2>2. pc'[Boot] = pc[Boot]
    BY <1>2, <1>8 DEF RunTypes, Move, Runner
  <2>3. IsFiniteSet(Rebuilders') /\ Cardinality(Rebuilders') = Cardinality(Rebuilders) - 1
    BY <2>1, FS_RemoveElement DEF ClientInv, FlagsCount
  <2>4. FlagsCount'
    BY <1>1, <1>6, <2>2, <2>3 DEF ClientInv, FlagsCount, Count
  <2> QED
    BY <1>3, <1>5, <2>4 DEF ClientInv
<1> QED
  BY <1>7, <1>8

------------------------------------------------------------------------------
(* The theorems                                                              *)

\* The client starts offline, with no flag up and nothing but the boot
\* goroutine to come.
LEMMA InitClient == Init => ClientInv
<1> SUFFICES ASSUME Init PROVE ClientInv
  OBVIOUS
<1>1. RunTypes /\ OverstayOffline /\ SignalsOffline /\ FlagsHaveOwners
  BY DEF Init, RunTypes, RunnerPoints, OverstayOffline, SignalsOffline, FlagsHaveOwners
<1>2. Rebuilders = {}
  BY DEF Init, Rebuilders
<1>3. FlagsCount
  BY <1>2, FS_EmptySet DEF FlagsCount, Count
<1> QED
  BY <1>1, <1>3 DEF ClientInv

\* Every step keeps the invariant.
LEMMA NextKeeps == ClientInv /\ [Next]_vars => ClientInv'
<1> SUFFICES ASSUME ClientInv, [Next]_vars PROVE ClientInv'
  OBVIOUS
<1>1. ASSUME NEW b \in Object, ConnStep(b) \/ Callbacks(b)
      PROVE  ClientInv'
  BY <1>1, ConnStepKeeps, ConnectGetKeeps, ConnectSetKeeps, DeleteKeeps, CheckKeeps,
     SignalKeeps, ResetKeeps, DeclineKeeps, BeginOverstayKeeps DEF Callbacks
<1>2. ASSUME NEW r \in Resetter, ResetterSelects(r) \/ ResetTimerFires(r)
      PROVE  ClientInv'
  BY <1>2, SelectKeeps
<1>3. ASSUME NEW r \in Runner, Rebuild(r)
      PROVE  ClientInv'
  BY <1>3, RebuildKeeps, FinishKeeps
<1>4. CASE UNCHANGED vars
  BY <1>4, StillKeeps DEF vars, clientVars, listVars, flagVars, runVars, callVars
<1> QED
  BY <1>1, <1>2, <1>3, <1>4 DEF Next

\* What owerstaying, reset, disconnect and Start keep between their steps.
THEOREM ClientCorrect == Spec => []ClientInv
  BY InitClient, NextKeeps, PTL DEF Spec

\* No connection comes online while owerstaying rebuilds (client.go:331-332).
THEOREM OverstayKeepsOffline == Spec => []OverstayOffline
<1>1. ClientInv => OverstayOffline
  BY DEF ClientInv
<1> QED
  BY ClientCorrect, <1>1, PTL

\* The client a signal leaves for is offline when it arrives (client.go:236-243).
THEOREM SignalsKeepOffline == Spec => []SignalsOffline
<1>1. ClientInv => SignalsOffline
  BY DEF ClientInv
<1> QED
  BY ClientCorrect, <1>1, PTL

\* A flag that is up has a goroutine that will clear it (client.go:204-207).
THEOREM FlagsAreOwned == Spec => []FlagsHaveOwners
<1>1. ClientInv => FlagsHaveOwners
  BY DEF ClientInv
<1> QED
  BY ClientCorrect, <1>1, PTL

\* There are never more than two rebuilds, and one until the boot goroutine is
\* done, however many brokers ask for them (client.go:298, 324).
THEOREM RebuildsAreBounded == Spec => []RebuildsBounded
<1>1. ClientInv => RebuildsBounded
  <2> SUFFICES ASSUME ClientInv PROVE RebuildsBounded
    OBVIOUS
  <2>1. Cardinality(Rebuilders) \in Nat
    BY FS_CardinalityType DEF ClientInv, FlagsCount
  <2> QED
    BY <2>1 DEF ClientInv, FlagsCount, Count, RebuildsBounded
<1> QED
  BY ClientCorrect, <1>1, PTL
------------------------------------------------------------------------------
(* Types                                                                     *)

\* The lists that set and delete make (client.go:255-288).
LEMMA ListTypes ==
  ASSUME NEW list \in Seq(Object), NEW gone, NEW bk \in Object
  PROVE  /\ Others(list, gone) \in Seq(Object)
         /\ [i \in 1 .. Len(Others(list, gone)) + 1 |-> bk] \in Seq(Object)
<1> DEFINE next == Others(list, gone)
<1>1. next \in Seq(Staying(Object, list, gone))
  BY OthersEntries
<1>2. Staying(Object, list, gone) \subseteq Object
  BY DEF Staying
<1> HIDE DEF next
<1>3. next \in Seq(Object)
  BY <1>1, <1>2
<1>4. Len(next) \in Nat
  BY <1>3
<1>5. [i \in 1 .. Len(next) + 1 |-> bk] \in Seq(Object)
  BY <1>4
<1> QED
  BY <1>3, <1>5 DEF next

\* Nothing runs yet.
LEMMA InitTyped == Init => ClientTypes
<1> SUFFICES ASSUME Init PROVE ClientTypes
  OBVIOUS
<1>1. 0 \in Rounds /\ "idle" \in RunnerPoints
  BY ClientAssumption DEF Rounds, RunnerPoints
<1>2. onlineBrokers \in Seq(Object)
  BY DEF Init
<1> QED
  BY <1>1, <1>2 DEF Init, ClientTypes

\* The steps that leave the client's variables alone, or only move them on.
LEMMA ConnectTyped ==
  ASSUME ClientTypes, NEW b \in Object, ConnStep(b) \/ ConnectGet(b) \/ ConnectSet(b)
  PROVE  ClientTypes'
<1> USE DEF ClientTypes
<1>1. CASE ConnStep(b)
  BY <1>1 DEF ConnStep, clientVars, listVars, flagVars, runVars, callVars
<1>2. CASE ConnectGet(b)
  <2>1. store[IdOf(b)] \in Object \union {None}
    BY DEF Object, IdOf
  <2> QED
    BY <1>2, <2>1 DEF ConnectGet, listVars, flagVars, runVars
<1>3. CASE ConnectSet(b)
  <2>1. found[b] \in Object
    BY <1>3 DEF ConnectSet
  <2>2. onlineBrokers' \in Seq(Object)
    <3>1. onlineBrokers' = [i \in 1 .. Len(Others(onlineBrokers, Namesakes(found[b]))) + 1 |-> found[b]]
      BY <1>3 DEF ConnectSet, ListWith
    <3> QED
      BY <2>1, <3>1, ListTypes
  <2> QED
    BY <1>3, <2>2 DEF ConnectSet, runVars
<1> QED
  BY <1>1, <1>2, <1>3

\* disconnect (client.go:232-243).
LEMMA DisconnectTyped ==
  ASSUME ClientTypes, NEW b \in Object, NEW n \in BC!Attempts,
         Delete(b, n) \/ CheckAndSignal(b, n)
           \/ \E r \in Resetter : SignalReceived(r, b, n)
  PROVE  ClientTypes'
<1> USE DEF ClientTypes
<1>1. CASE Delete(b, n)
  <2>1. onlineBrokers' \in Seq(Object)
    <3>1. onlineBrokers' = Others(onlineBrokers, Namesakes(b))
      BY <1>1 DEF Delete
    <3> QED
      BY <3>1, ListTypes
  <2>2. online' \in BOOLEAN
    BY <1>1 DEF Delete
  <2> QED
    BY <1>1, <2>1, <2>2 DEF Delete, flagVars, runVars
<1>2. CASE CheckAndSignal(b, n)
  <2>1. signals' \subseteq Object \X BC!Attempts \X Rounds
    BY <1>2 DEF CheckAndSignal
  <2> QED
    BY <1>2, <2>1 DEF CheckAndSignal, listVars, flagVars, runVars
<1>3. ASSUME NEW r \in Resetter, SignalReceived(r, b, n)
      PROVE  ClientTypes'
  <2>1. r \in Runner /\ "stopping" \in RunnerPoints
    BY DEF Runner, RunnerPoints
  <2> QED
    BY <1>3, <2>1 DEF SignalReceived, Move, listVars, flagVars
<1> QED
  BY <1>1, <1>2, <1>3

\* reset and owerstaying, up to what a runner does next (client.go:290-330).
LEMMA ResetTyped ==
  ASSUME ClientTypes, NEW b \in Object, Reset(b) \/ DeclineOverstay(b) \/ BeginOverstay(b)
  PROVE  ClientTypes'
<1> USE DEF ClientTypes
<1>1. CASE Reset(b)
  <2>1. CASE pc' = pc
    BY <1>1, <2>1 DEF Reset, listVars, callVars
  <2>2. ASSUME NEW r \in Resetter, Move(r, "idle", "spawned")
        PROVE  ClientTypes'
    <3>1. r \in Runner /\ "spawned" \in RunnerPoints
      BY DEF Runner, RunnerPoints
    <3> QED
      BY <1>1, <2>2, <3>1 DEF Reset, Move, listVars, callVars
  <2> QED
    BY <1>1, <2>1, <2>2 DEF Reset
<1>2. CASE DeclineOverstay(b)
  BY <1>2 DEF DeclineOverstay, clientVars, listVars, flagVars, runVars, callVars
<1>3. CASE BeginOverstay(b)
  <2>1. b \in Runner /\ "sleeping" \in RunnerPoints
    BY DEF Runner, RunnerPoints
  <2> QED
    BY <1>3, <2>1 DEF BeginOverstay, Move, listVars, callVars
<1> QED
  BY <1>1, <1>2, <1>3

\* The goroutine of reset until it turns to the store (client.go:304-311).
LEMMA ResetterTyped ==
  ASSUME ClientTypes, NEW r \in Resetter, ResetterSelects(r) \/ ResetTimerFires(r)
  PROVE  ClientTypes'
<1> USE DEF ClientTypes
<1>1. r \in Runner /\ {"waiting", "stopping"} \subseteq RunnerPoints
  BY DEF Runner, RunnerPoints
<1>2. CASE ResetterSelects(r)
  BY <1>1, <1>2 DEF ResetterSelects, Move, listVars, flagVars, callVars
<1>3. CASE ResetTimerFires(r)
  BY <1>1, <1>3 DEF ResetTimerFires, Move, listVars, flagVars, callVars
<1> QED
  BY <1>2, <1>3

\* Store.Done and Client.Start (client.go:134-207, store.go:54-63).
LEMMA RebuildTyped ==
  ASSUME ClientTypes, NEW r \in Runner, Rebuild(r)
  PROVE  ClientTypes'
<1> USE DEF ClientTypes
<1>1. {"closing", "requesting", "launching", "panicked", "done"} \subseteq RunnerPoints
  BY DEF RunnerPoints
<1>2. CASE BeginClose(r)
  BY <1>1, <1>2 DEF BeginClose, Move, listVars, flagVars, callVars
<1>3. ASSUME NEW id \in Id, CloseOne(r, id)
      PROVE  ClientTypes'
  BY <1>3 DEF CloseOne, listVars, flagVars, runVars, callVars
<1>4. CASE BeginStart(r)
  <2>1. stopResetProcess + 1 \in Rounds \ {0}
    BY <1>4, ClientAssumption DEF BeginStart, Rounds
  <2>2. PICK from \in {"idle", "closing"} : Move(r, from, "requesting")
    BY <1>4 DEF BeginStart
  <2> QED
    BY <1>1, <1>4, <2>1, <2>2 DEF BeginStart, Move, listVars, flagVars, callVars
<1>5. ASSUME NEW ids \in SUBSET Id, RequestReturns(r, ids)
      PROVE  ClientTypes'
  BY <1>1, <1>5 DEF RequestReturns, Move, listVars, flagVars, callVars
<1>6. CASE RequestPanics(r)
  BY <1>1, <1>6 DEF RequestPanics, Move, listVars, flagVars, callVars
<1>7. ASSUME NEW id \in Id, LaunchOne(r, id)
      PROVE  ClientTypes'
  <2>1. round[r] \in 1 .. MaxRounds
    BY <1>7, ClientAssumption DEF LaunchOne, Rounds
  <2>2. <<id, round[r]>> \in Object
    BY <2>1 DEF Object
  <2> QED
    BY <1>7, <2>2 DEF LaunchOne, listVars, flagVars, callVars
<1>8. CASE FinishStart(r)
  BY <1>1, <1>8 DEF FinishStart, Move, listVars, callVars
<1> QED
  BY <1>2, <1>3, <1>4, <1>5, <1>6, <1>7, <1>8 DEF Rebuild, Answer, Advance

\* The client's variables keep their types in every step.
LEMMA TypedInvariant == Spec => []ClientTypes
<1>1. ClientTypes /\ [Next]_vars => ClientTypes'
  <2> SUFFICES ASSUME ClientTypes, [Next]_vars PROVE ClientTypes'
    OBVIOUS
  <2>1. CASE UNCHANGED vars
    BY <2>1 DEF vars, clientVars, listVars, flagVars, runVars, callVars, ClientTypes
  <2> QED
    BY <2>1, ConnectTyped, DisconnectTyped, ResetTyped, ResetterTyped, RebuildTyped
       DEF Next, Callbacks
<1> QED
  BY InitTyped, <1>1, PTL DEF Spec

------------------------------------------------------------------------------
(* The connections inside the client                                         *)

\* Each step of the client takes one connection through one step of its own, or
\* none (client.go:196-201, 232-336, broker.go:111-300).
LEMMA ConnectionStep ==
  ASSUME ClientTypes, [Next]_vars
  PROVE  [BC!Next]_(BC!vars)
<1> DEFINE Goal == BC!Next \/ UNCHANGED connVars
<1>1. ASSUME NEW b \in Object, ConnStep(b) PROVE Goal
  BY <1>1 DEF ConnStep, BC!Next, BC!ReadSteps, BC!RestartSteps, BC!FrameSteps
<1>2. ASSUME NEW b \in Object, ConnectGet(b) \/ ConnectSet(b) PROVE Goal
  BY <1>2 DEF ConnectGet, ConnectSet, BC!Next, BC!ReadSteps
<1>3. ASSUME NEW b \in Object, NEW n \in BC!Attempts,
             Delete(b, n) \/ CheckAndSignal(b, n)
               \/ \E r \in Resetter : SignalReceived(r, b, n)
      PROVE  Goal
  BY <1>3 DEF Delete, CheckAndSignal, SignalReceived, BC!Next, BC!FrameSteps
<1>4. ASSUME NEW b \in Object, Reset(b) \/ DeclineOverstay(b) \/ BeginOverstay(b)
      PROVE  Goal
  BY <1>4 DEF Reset, DeclineOverstay, BeginOverstay, BC!Next, BC!ReadSteps, BC!RestartSteps
<1>5. ASSUME NEW r \in Resetter, ResetterSelects(r) \/ ResetTimerFires(r)
      PROVE  Goal
  BY <1>5 DEF ResetterSelects, ResetTimerFires
<1>6. ASSUME NEW r \in Runner, Rebuild(r) PROVE Goal
  <2>1. ASSUME NEW id \in Id, CloseOne(r, id) PROVE Goal
    <3>1. store[id] \in Object
      BY <2>1 DEF CloseOne, ClientTypes
    <3> QED
      BY <2>1, <3>1 DEF CloseOne, BC!Next
  <2>2. ASSUME NEW id \in Id, LaunchOne(r, id) PROVE Goal
    <3>1. round[r] \in 1 .. MaxRounds
      BY <2>2, ClientAssumption DEF LaunchOne, ClientTypes, Rounds
    <3>2. <<id, round[r]>> \in Object
      BY <3>1 DEF Object
    <3> QED
      BY <2>2, <3>2 DEF LaunchOne, BC!Next
  <2>3. CASE FinishStart(r)
    BY <2>3 DEF FinishStart, BC!Next, BC!RestartSteps
  <2>4. CASE BeginClose(r) \/ BeginStart(r) \/ RequestPanics(r)
    BY <2>4 DEF BeginClose, BeginStart, RequestPanics
  <2>5. ASSUME NEW ids \in SUBSET Id, RequestReturns(r, ids) PROVE Goal
    BY <2>5 DEF RequestReturns
  <2> QED
    BY <1>6, <2>1, <2>2, <2>3, <2>4, <2>5 DEF Rebuild, Answer, Advance
<1>7. ASSUME UNCHANGED vars PROVE Goal
  BY <1>7 DEF vars
<1>8. ASSUME NEW b \in Object, Callbacks(b) PROVE Goal
  <2> HIDE DEF Goal
  <2> QED
    BY <1>2, <1>3, <1>4, <1>8 DEF Callbacks
<1>9. Goal
  <2> HIDE DEF Goal
  <2> QED
    BY <1>1, <1>5, <1>6, <1>7, <1>8 DEF Next
<1> QED
  BY <1>9 DEF connVars, BC!vars, BC!ctxVars, BC!liveVars, BC!backoffVars

\* The theorems about BrokerConn may be used for the client's connections.
LEMMA ConnectionsRun == Spec => BC!Spec
<1>1. Init => BC!Init
  BY DEF Init
<1>2. ClientTypes /\ [Next]_vars => [BC!Next]_(BC!vars)
  BY ConnectionStep
<1> QED
  BY <1>1, <1>2, TypedInvariant, PTL DEF Spec, BC!Spec

\* The theorems about BrokerConn, for the objects of the client.
Conn == INSTANCE BrokerConnProofs WITH Broker <- Object

\* They are theorems about the connections that Client instantiates.
LEMMA SameSpec == BC!Spec => Conn!Spec
<1>1. BC!Init => Conn!Init
  BY DEF BC!Init, Conn!Init, BC!Attempts, Conn!Attempts
<1>2. BC!Next => Conn!Next
  BY DEF BC!Next, Conn!Next,
    BC!Spawn, BC!Done, BC!StartSteps, BC!ReadSteps, BC!RestartSteps, BC!FrameSteps,
    BC!BeginStart, BC!DialFails, BC!ChannelFails, BC!ChannelOpens, BC!Cleanup,
    BC!DisconnectReturns, BC!RecvReady, BC!HandleReady, BC!ConnectReturns,
    BC!RecvReset, BC!SendAck, BC!ResetReturns, BC!RecvError, BC!End,
    BC!RestartBelowMax, BC!RestartAtMax, BC!OverstayReturns, BC!CheckContext,
    BC!TimerFires, BC!WaitCancelled, BC!Go, BC!Crashed, BC!Unlocked, BC!ContextDone,
    BC!Attempts, BC!fibo, BC!FibonacciAbove, BC!Turns,
    BC!ctxVars, BC!liveVars, BC!backoffVars,
    Conn!Spawn, Conn!Done, Conn!StartSteps, Conn!ReadSteps, Conn!RestartSteps,
    Conn!FrameSteps, Conn!BeginStart, Conn!DialFails, Conn!ChannelFails,
    Conn!ChannelOpens, Conn!Cleanup, Conn!DisconnectReturns, Conn!RecvReady,
    Conn!HandleReady, Conn!ConnectReturns, Conn!RecvReset, Conn!SendAck,
    Conn!ResetReturns, Conn!RecvError, Conn!End, Conn!RestartBelowMax,
    Conn!RestartAtMax, Conn!OverstayReturns, Conn!CheckContext, Conn!TimerFires,
    Conn!WaitCancelled, Conn!Go, Conn!Crashed, Conn!Unlocked, Conn!ContextDone,
    Conn!Attempts, Conn!fibo, Conn!FibonacciAbove, Conn!Turns,
    Conn!ctxVars, Conn!liveVars, Conn!backoffVars
<1>3. [BC!Next]_(BC!vars) => [Conn!Next]_(Conn!vars)
  BY <1>2 DEF BC!vars, BC!ctxVars, BC!liveVars, BC!backoffVars,
     Conn!vars, Conn!ctxVars, Conn!liveVars, Conn!backoffVars
<1> QED
  BY <1>1, <1>3, PTL DEF BC!Spec, Conn!Spec

LEMMA ConnSpec == Spec => Conn!Spec
  BY ConnectionsRun, SameSpec, PTL

LEMMA ConnAssumptions == Conn!ConnAssumption /\ Conn!DurationMaxAssumption
  BY ClientAssumption DEF Conn!ConnAssumption, Conn!DurationMaxAssumption

\* Types of everything.
THEOREM TypeCorrect == Spec => []TypeOK
<1>1. Conn!TypeOK => BC!TypeOK
  BY DEF Conn!TypeOK, BC!TypeOK, Conn!Points, BC!Points, Conn!Frames, BC!Frames,
     Conn!Attempts, BC!Attempts
<1>2. ClientTypes /\ BC!TypeOK => TypeOK
  BY DEF TypeOK
<1>3. Spec => []Conn!TypeOK
  BY ConnAssumptions, ConnSpec, Conn!TypeCorrect, PTL
<1> QED
  BY <1>1, <1>2, <1>3, TypedInvariant, PTL
\* A Client keeps at most one live context, stream and budget of Starts for each
\* object, although its callbacks hold the object's lock while they wait for
\* c.rw or the server (broker.go:125-142, 238, 264-300).
THEOREM ConnectionsCorrect ==
  Spec => [](BC!OneLiveContext /\ BC!StreamIsOwned /\ BC!AckOnOwnStream /\ BC!RetryBudget)
<1>1. Conn!OneLiveContext => BC!OneLiveContext
  BY DEF Conn!OneLiveContext, BC!OneLiveContext, Conn!Attempts, BC!Attempts
<1>2. Conn!StreamIsOwned => BC!StreamIsOwned
  BY DEF Conn!StreamIsOwned, BC!StreamIsOwned, Conn!Attempts, BC!Attempts
<1>3. Conn!AckOnOwnStream => BC!AckOnOwnStream
  BY DEF Conn!AckOnOwnStream, BC!AckOnOwnStream
<1>4. Conn!RetryBudget => BC!RetryBudget
  <2>1. Conn!Delays = BC!Delays
    BY DEF Conn!Delays, BC!Delays, Conn!fibo, BC!fibo,
       Conn!FibonacciAbove, BC!FibonacciAbove, Conn!Turns, BC!Turns
  <2>2. Conn!Cardinality(BC!Delays) = BC!Cardinality(BC!Delays)
    BY DEF Conn!Cardinality, BC!Cardinality
  <2> QED
    BY <2>1, <2>2 DEF Conn!RetryBudget, BC!RetryBudget, Conn!Budget, BC!Budget
<1>5. Spec => [](Conn!OneLiveContext /\ Conn!StreamIsOwned /\ Conn!AckOnOwnStream
                 /\ Conn!RetryBudget)
  BY ConnAssumptions, ConnSpec, Conn!ContextsCorrect, Conn!StreamsCorrect,
     Conn!AcksCorrect, Conn!BudgetKept, PTL
<1> QED
  BY <1>1, <1>2, <1>3, <1>4, <1>5, PTL

\* Once a broker has asked for a reset, only a new object of Client.Start
\* connects to it again (broker.go:234, 280, client.go:196-201).
THEOREM ResetIsFinal == Spec => BC!NoStartAfterReset
<1> DEFINE After == \A b \in Object : done[b] => attempt'[b] = attempt[b]
<1>1. [After]_(Conn!vars) => [After]_(BC!vars)
  BY DEF BC!vars, BC!ctxVars, BC!liveVars, BC!backoffVars,
     Conn!vars, Conn!ctxVars, Conn!liveVars, Conn!backoffVars
<1>2. Spec => Conn!NoStartAfterReset
  BY ConnAssumptions, ConnSpec, Conn!ResetIsFinal, PTL
<1>3. Conn!NoStartAfterReset => BC!NoStartAfterReset
  BY <1>1, PTL DEF Conn!NoStartAfterReset, BC!NoStartAfterReset
<1> QED
  BY <1>2, <1>3

\* Each object follows the reconnect policy under the client's callbacks: its
\* tries stay within the budget, and a retired one tries no more
\* (broker.go:135-300).
THEOREM ConnectionsFollowPolicy == Spec => Conn!FollowsPolicy
  BY ConnAssumptions, ConnSpec, Conn!ConnFollowsPolicy, PTL

==============================================================================
