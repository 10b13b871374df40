--------------------------- MODULE BrokerConnProofs ---------------------------
(***************************************************************************)
(* Theorems about BrokerConn, for any set of Broker objects and any values *)
(* of durationMax, overstayAttempts and MaxStarts; last, that it           *)
(* implements ReconnectPolicy and Links.                                   *)
(***************************************************************************)
EXTENDS BrokerConn, LoopsProofs, FiniteSetTheorems

------------------------------------------------------------------------------
(* The delays                                                                *)

\* What restart relies on: below the cap the next delay is longer, and the cap
\* is where the delays stay (utils.go:22-35).
THEOREM FiboGrows ==
  /\ \A d \in 0 .. durationMax - 1 : fibo(d) \in d + 1 .. durationMax
  /\ fibo(durationMax) = durationMax
<1>1. durationMax \in Nat \ {0}
  BY DurationMaxAssumption
<1>2. ASSUME NEW d \in 0 .. durationMax
      PROVE  /\ FibonacciAbove(d) \in Int /\ FibonacciAbove(d) > d
             /\ fibo(d) = IF FibonacciAbove(d) > durationMax THEN durationMax
                          ELSE FibonacciAbove(d)
  <2>1. d \in Nat /\ ~(d < 0)
    BY <1>1
  <2>2. FibonacciAbove(d) \in d + 1 .. 2 * d + 1
    BY <2>1, FibonacciIsAbove
  <2> QED
    BY <2>1, <2>2 DEF fibo
<1>3. ASSUME NEW d \in 0 .. durationMax - 1
      PROVE  fibo(d) \in d + 1 .. durationMax
  BY <1>1, <1>2
<1>4. fibo(durationMax) = durationMax
  BY <1>1, <1>2
<1> QED
  BY <1>3, <1>4

\* What the comment of fibo says: the smallest Fibonacci number greater than
\* the attempt, capped at durationMax (utils.go:20-35).
THEOREM FiboIsSmallest ==
  ASSUME NEW k \in Int, NEW fib, Fibonaccis(fib)
  PROVE  /\ fibo(k) <= durationMax
         /\ fibo(k) # durationMax => fibo(k) > k /\ \E n \in Nat : fibo(k) = fib[n]
         /\ \A n \in Nat : fib[n] > k => fibo(k) <= fib[n]
<1> DEFINE floor == IF k < 0 THEN 0 ELSE k
           least == FibonacciAbove(floor)
<1>1. floor \in Nat /\ floor >= k /\ durationMax \in Nat
  BY DurationMaxAssumption
<1>2. fibo(k) = IF least > durationMax THEN durationMax ELSE least
  BY DEF fibo
<1>3. least \in Nat
  <2> HIDE DEF floor
  <2>1. least \in floor + 1 .. 2 * floor + 1
    BY <1>1, FibonacciIsAbove
  <2> QED
    BY <1>1, <2>1
<1>4. ASSUME NEW n \in Nat, fib[n] > k PROVE fib[n] > floor /\ fib[n] \in Nat
  BY <1>4, FibonaccisRise
<1> HIDE DEF floor
<1>5. /\ \E n \in Nat : least = fib[n]
      /\ least > floor
      /\ \A n \in Nat : fib[n] > floor => least <= fib[n]
  BY <1>1, FibonacciIsSmallest
<1> HIDE DEF least
<1>6. fibo(k) <= durationMax /\ fibo(k) <= least
  BY <1>1, <1>2, <1>3
<1>7. fibo(k) # durationMax => fibo(k) = least
  BY <1>2
<1>8. \A n \in Nat : fib[n] > k => fibo(k) <= fib[n]
  BY <1>1, <1>2, <1>3, <1>4, <1>5, <1>6
<1> QED
  BY <1>1, <1>3, <1>5, <1>6, <1>7, <1>8

\* A delay never leaves the range that durationMax bounds (utils.go:31-33).
LEMMA DelayBounds ==
  \A d \in 0 .. durationMax : fibo(d) \in 0 .. durationMax
<1> SUFFICES ASSUME NEW d \in 0 .. durationMax
             PROVE  fibo(d) \in 0 .. durationMax
  OBVIOUS
<1>1. durationMax \in Nat \ {0}
  BY DurationMaxAssumption
<1>2. CASE d = durationMax
  <2>1. fibo(durationMax) = durationMax
    BY FiboGrows
  <2>2. fibo(d) = durationMax
    BY <1>2, <2>1
  <2>3. QED
    BY <1>1, <2>2
<1>3. CASE d # durationMax
  <2>1. d \in 0 .. durationMax - 1
    BY <1>1, <1>3
  <2>2. fibo(d) \in d + 1 .. durationMax
    BY <2>1, FiboGrows
  <2>3. QED
    BY <1>1, <2>1, <2>2
<1>4. QED
  BY <1>2, <1>3

\* There are finitely many delays, all within the cap.
LEMMA DelaysFinite == IsFiniteSet(Delays) /\ Delays \subseteq 0 .. durationMax
<1>1. durationMax \in Nat
  BY DurationMaxAssumption
<1>2. Delays \subseteq 0 .. durationMax
  BY DelayBounds DEF Delays
<1>3. IsFiniteSet(0 .. durationMax)
  BY <1>1, FS_Interval
<1>4. QED
  BY <1>2, <1>3, FS_Subset

\* Ranks are bounded by the number of delays.
LEMMA RankBound ==
  ASSUME NEW d \in 0 .. durationMax
  PROVE  Rank(d) \in Nat /\ Cardinality(Delays) \in Nat /\ Rank(d) <= Cardinality(Delays)
<1> DEFINE S == {x \in Delays : x <= d}
<1>1. S \subseteq Delays
  OBVIOUS
<1>2. IsFiniteSet(S) /\ Cardinality(S) <= Cardinality(Delays)
  BY <1>1, DelaysFinite, FS_Subset
<1>3. Cardinality(S) \in Nat /\ Cardinality(Delays) \in Nat
  BY <1>2, DelaysFinite, FS_CardinalityType
<1>4. QED
  BY <1>2, <1>3 DEF Rank

\* Below the longest delay the next one ranks higher.
LEMMA RankGrows ==
  ASSUME NEW d \in 0 .. durationMax, d # durationMax
  PROVE  Rank(d) + 1 <= Rank(fibo(d))
<1> DEFINE S == {x \in Delays : x <= d}
           T == {x \in Delays : x <= fibo(d)}
<1>1. durationMax \in Nat
  BY DurationMaxAssumption
<1>2. d \in 0 .. durationMax - 1
  BY <1>1
<1>3. fibo(d) \in d + 1 .. durationMax
  BY <1>2, FiboGrows
<1>4. fibo(d) \in Delays
  BY DEF Delays
<1>5. S \subseteq T /\ S # T
  <2>1. ASSUME NEW x \in Delays, x <= d  PROVE x <= fibo(d)
    BY <1>1, <1>2, <1>3, <2>1, DelaysFinite
  <2>2. fibo(d) \in T
    BY <1>1, <1>3, <1>4
  <2>3. fibo(d) \notin S
    BY <1>1, <1>2, <1>3
  <2>4. QED
    BY <2>1, <2>2, <2>3
<1>6. T \subseteq Delays
  OBVIOUS
<1>7. IsFiniteSet(T)
  BY <1>6, DelaysFinite, FS_Subset
<1>8. IsFiniteSet(S) /\ Cardinality(S) <= Cardinality(T) /\ Cardinality(S) # Cardinality(T)
  BY <1>5, <1>7, FS_Subset
<1>9. Cardinality(S) \in Nat /\ Cardinality(T) \in Nat
  BY <1>7, <1>8, FS_CardinalityType
<1>10. QED
  BY <1>8, <1>9 DEF Rank

------------------------------------------------------------------------------
(* Types and counts                                                          *)

\* At the longest delay the count stays within one of the limit, and restart
\* goes on only within it (broker.go:265-275).
LEMMA RestartAtMaxCounts ==
  ASSUME TypeOK, Counted, NEW b \in Broker, RestartAtMax(b)
  PROVE  TypeOK' /\ Counted'
<1>1. at[b] = "failed"
  BY DEF RestartAtMax, Go
<1>2. overstayCount[b] \in 0 .. overstayAttempts
  <2>1. overstayCount[b] <= overstayAttempts
    BY <1>1 DEF Counted
  <2>2. overstayCount[b] \in 0 .. overstayAttempts + 1
    BY DEF TypeOK
  <2>3. QED
    BY <2>1, <2>2, ConnAssumption
<1>3. /\ overstayCount' = [overstayCount EXCEPT ![b] = overstayCount[b] + 1]
      /\ UNCHANGED <<attempt, cancelled, frame, readied, connected, stream, done, duration>>
  BY DEF RestartAtMax, ctxVars, liveVars
<1>4. /\ overstayCount' \in [Broker -> 0 .. overstayAttempts + 1]
      /\ overstayCount'[b] = overstayCount[b] + 1
      /\ \A c \in Broker : c # b => overstayCount'[c] = overstayCount[c]
  BY <1>2, <1>3, ConnAssumption DEF TypeOK
<1>5. PICK to \in {"ending", "overstaying"} :
        /\ at' = [at EXCEPT ![b] = to]
        /\ to = "overstaying" => overstayCount[b] + 1 <= overstayAttempts
  <2>1. CASE overstayCount[b] + 1 > overstayAttempts
    <3>1. at' = [at EXCEPT ![b] = "ending"]
      BY <2>1 DEF RestartAtMax, Go
    <3>2. QED
      BY <3>1
  <2>2. CASE ~(overstayCount[b] + 1 > overstayAttempts)
    <3>1. at' = [at EXCEPT ![b] = "overstaying"]
      BY <2>2 DEF RestartAtMax, Go
    <3>2. overstayCount[b] + 1 <= overstayAttempts
      BY <2>2, <1>2, ConnAssumption
    <3>3. QED
      BY <3>1, <3>2
  <2>3. QED
    BY <2>1, <2>2
<1>6. TypeOK'
  BY <1>3, <1>4, <1>5 DEF TypeOK, Points
<1>7. /\ at'[b] = to
      /\ \A c \in Broker : c # b => at'[c] = at[c]
  BY <1>5 DEF TypeOK
<1>8. Counted'
  <2>1. ASSUME NEW c \in Broker, c # b
        PROVE  /\ at'[c] = at[c] /\ attempt'[c] = attempt[c]
               /\ readied'[c] = readied[c] /\ overstayCount'[c] = overstayCount[c]
    BY <1>3, <1>4, <1>7, <2>1
  <2>2. /\ attempt'[b] = attempt[b] /\ readied'[b] = readied[b]
        /\ at'[b] \notin {"absent", "spawned", "dialing", "gotReady"} /\ attempt[b] # 0
        /\ at'[b] \notin {"ending", "stopped", "panicked"} =>
             overstayCount'[b] <= overstayAttempts
    BY <1>1, <1>3, <1>4, <1>5, <1>7 DEF Counted
  <2>3. QED
    BY <2>1, <2>2 DEF Counted
<1>9. QED
  BY <1>6, <1>8

\* Every step keeps the types, the place of the driver against the number of
\* its Start and the overstay limit (broker.go:135-300).
LEMMA CountedStep ==
  ASSUME TypeOK, Counted, [Next]_vars
  PROVE  TypeOK' /\ Counted'
<1> USE ConnAssumption, DurationMaxAssumption
    DEF TypeOK, Counted, Go, Attempts, Points, Frames, ctxVars, liveVars, backoffVars
<1>1. ASSUME NEW b \in Broker, Spawn(b)
      PROVE  TypeOK' /\ Counted'
  BY <1>1 DEF Spawn
<1>2. ASSUME NEW b \in Broker, BeginStart(b)
      PROVE  TypeOK' /\ Counted'
  <2>1. attempt' = [attempt EXCEPT ![b] = attempt[b] + 1] /\ attempt[b] + 1 \in Attempts
    BY <1>2 DEF BeginStart
  <2>2. attempt[b] = 0 \/ attempt[b] \in Attempts
    OBVIOUS
  <2>3. cancelled' \in [Broker -> SUBSET Attempts]
    BY <1>2, <2>2 DEF BeginStart
  <2>4. at' = [at EXCEPT ![b] = "dialing"] /\ at[b] \in {"spawned", "fired"}
    BY <1>2 DEF BeginStart
  <2>5. TypeOK'
    BY <1>2, <2>1, <2>3, <2>4 DEF BeginStart
  <2>6. Counted'
    BY <1>2, <2>1, <2>4 DEF BeginStart
  <2>7. QED
    BY <2>5, <2>6
<1>3. ASSUME NEW b \in Broker, DialFails(b)
      PROVE  TypeOK' /\ Counted'
  BY <1>3 DEF DialFails
<1>4. ASSUME NEW b \in Broker, ChannelFails(b)
      PROVE  TypeOK' /\ Counted'
  BY <1>4 DEF ChannelFails
<1>5. ASSUME NEW b \in Broker, ChannelOpens(b)
      PROVE  TypeOK' /\ Counted'
  BY <1>5 DEF ChannelOpens
<1>6. ASSUME NEW b \in Broker, NEW n \in Attempts, Cleanup(b, n)
      PROVE  TypeOK' /\ Counted'
  BY <1>6 DEF Cleanup
<1>7. ASSUME NEW b \in Broker, NEW n \in Attempts, DisconnectReturns(b, n)
      PROVE  TypeOK' /\ Counted'
  BY <1>7 DEF DisconnectReturns
<1>8. ASSUME NEW b \in Broker, Done(b)
      PROVE  TypeOK' /\ Counted'
  BY <1>8 DEF Done
<1>9. ASSUME NEW b \in Broker, RecvReady(b)
      PROVE  TypeOK' /\ Counted'
  BY <1>9 DEF RecvReady
<1>10. ASSUME NEW b \in Broker, HandleReady(b)
      PROVE  TypeOK' /\ Counted'
  BY <1>10 DEF HandleReady
<1>11. ASSUME NEW b \in Broker, ConnectReturns(b)
      PROVE  TypeOK' /\ Counted'
  BY <1>11 DEF ConnectReturns
<1>12. ASSUME NEW b \in Broker, RecvReset(b)
      PROVE  TypeOK' /\ Counted'
  BY <1>12 DEF RecvReset
<1>13. ASSUME NEW b \in Broker, SendAck(b)
      PROVE  TypeOK' /\ Counted'
  BY <1>13 DEF SendAck
<1>14. ASSUME NEW b \in Broker, ResetReturns(b)
      PROVE  TypeOK' /\ Counted'
  BY <1>14 DEF ResetReturns
<1>15. ASSUME NEW b \in Broker, RecvError(b)
      PROVE  TypeOK' /\ Counted'
  BY <1>15 DEF RecvError
<1>16. ASSUME NEW b \in Broker, End(b)
      PROVE  TypeOK' /\ Counted'
  BY <1>16 DEF End
<1>17. ASSUME NEW b \in Broker, RestartBelowMax(b)
      PROVE  TypeOK' /\ Counted'
  BY <1>17 DEF RestartBelowMax
<1>18. ASSUME NEW b \in Broker, RestartAtMax(b)
      PROVE  TypeOK' /\ Counted'
  BY <1>18, RestartAtMaxCounts
<1>19. ASSUME NEW b \in Broker, NEW handled \in BOOLEAN, OverstayReturns(b, handled)
      PROVE  TypeOK' /\ Counted'
  BY <1>19 DEF OverstayReturns
<1>20. ASSUME NEW b \in Broker, CheckContext(b)
      PROVE  TypeOK' /\ Counted'
  BY <1>20, DelayBounds DEF CheckContext
<1>21. ASSUME NEW b \in Broker, TimerFires(b)
      PROVE  TypeOK' /\ Counted'
  BY <1>21 DEF TimerFires
<1>22. ASSUME NEW b \in Broker, WaitCancelled(b)
      PROVE  TypeOK' /\ Counted'
  BY <1>22 DEF WaitCancelled
<1>23. CASE UNCHANGED vars
  BY <1>23 DEF vars
<1>24. QED
  BY <1>1, <1>2, <1>3, <1>4, <1>5, <1>6, <1>7, <1>8, <1>9, <1>10, <1>11,
     <1>12, <1>13, <1>14, <1>15, <1>16, <1>17, <1>18, <1>19, <1>20, <1>21,
     <1>22, <1>23 DEF Next, StartSteps, ReadSteps, RestartSteps, FrameSteps

\* Types, for any number of objects, any backoff and any number of reconnects.
THEOREM TypeCorrect == Spec => [](TypeOK /\ Counted)
<1>1. Init => TypeOK /\ Counted
  <2>1. Init => TypeOK
    BY ConnAssumption, DurationMaxAssumption DEF Init, TypeOK, Points, Frames, Attempts
  <2>2. Init => Counted
    BY ConnAssumption DEF Init, Counted
  <2>3. QED
    BY <2>1, <2>2
<1>2. TypeOK /\ Counted /\ [Next]_vars => (TypeOK /\ Counted)'
  BY CountedStep
<1>3. QED
  BY <1>1, <1>2, PTL DEF Spec

------------------------------------------------------------------------------
(* Contexts and streams                                                      *)

\* No step lets an earlier context live, publishes a stream nobody will clear, or
\* lets an earlier stream stand for the current one (broker.go:135-217, 232-238).
LEMMA StreamedStep ==
  ASSUME TypeOK, Counted, OneLiveContext, StreamIsOwned, Streamed, [Next]_vars
  PROVE  OneLiveContext' /\ StreamIsOwned' /\ Streamed'
<1> USE ConnAssumption
    DEF TypeOK, Counted, OneLiveContext, StreamIsOwned, Streamed, Go,
        Attempts, ctxVars, liveVars, backoffVars
<1>1. ASSUME NEW b \in Broker, Spawn(b)
      PROVE  OneLiveContext' /\ StreamIsOwned' /\ Streamed'
  BY <1>1 DEF Spawn
<1>2. ASSUME NEW b \in Broker, BeginStart(b)
      PROVE  OneLiveContext' /\ StreamIsOwned' /\ Streamed'
  BY <1>2 DEF BeginStart
<1>3. ASSUME NEW b \in Broker, DialFails(b)
      PROVE  OneLiveContext' /\ StreamIsOwned' /\ Streamed'
  BY <1>3 DEF DialFails
<1>4. ASSUME NEW b \in Broker, ChannelFails(b)
      PROVE  OneLiveContext' /\ StreamIsOwned' /\ Streamed'
  BY <1>4 DEF ChannelFails
<1>5. ASSUME NEW b \in Broker, ChannelOpens(b)
      PROVE  OneLiveContext' /\ StreamIsOwned' /\ Streamed'
  <2>1. attempt[b] \in Attempts /\ at[b] = "dialing" /\ at' = [at EXCEPT ![b] = "reading"]
    <3>1. at[b] = "dialing" /\ at' = [at EXCEPT ![b] = "reading"]
      BY <1>5 DEF ChannelOpens
    <3>2. attempt[b] \in 0 .. MaxStarts /\ attempt[b] # 0
      BY <3>1
    <3>3. QED
      BY <3>1, <3>2
  <2>2. /\ frame' = [frame EXCEPT ![b][attempt[b]] = "parked"]
        /\ UNCHANGED <<attempt, cancelled, readied, connected, stream>>
    BY <1>5 DEF ChannelOpens
  <2>3. frame'[b][attempt[b]] = "parked"
    BY <2>1, <2>2
  <2>4. \A c \in Broker : \A n \in Attempts :
          frame'[c][n] = frame[c][n] \/ (c = b /\ n = attempt[b] /\ frame'[c][n] = "parked")
    BY <2>1, <2>2
  <2>5. OneLiveContext' /\ StreamIsOwned'
    BY <2>2, <2>4
  <2>6. Streamed'
    BY <2>1, <2>2, <2>3, <2>4
  <2>7. QED
    BY <2>5, <2>6
<1>6. ASSUME NEW b \in Broker, NEW n \in Attempts, Cleanup(b, n)
      PROVE  OneLiveContext' /\ StreamIsOwned' /\ Streamed'
  BY <1>6 DEF Cleanup
<1>7. ASSUME NEW b \in Broker, NEW n \in Attempts, DisconnectReturns(b, n)
      PROVE  OneLiveContext' /\ StreamIsOwned' /\ Streamed'
  BY <1>7 DEF DisconnectReturns
<1>8. ASSUME NEW b \in Broker, Done(b)
      PROVE  OneLiveContext' /\ StreamIsOwned' /\ Streamed'
  BY <1>8 DEF Done
<1>9. ASSUME NEW b \in Broker, RecvReady(b)
      PROVE  OneLiveContext' /\ StreamIsOwned' /\ Streamed'
  BY <1>9 DEF RecvReady
<1>10. ASSUME NEW b \in Broker, HandleReady(b)
      PROVE  OneLiveContext' /\ StreamIsOwned' /\ Streamed'
  <2>1. attempt[b] \in Attempts /\ at[b] = "gotReady" /\ frame[b][attempt[b]] \in Frames \ {"none"}
    <3>1. at[b] = "gotReady"
      BY <1>10 DEF HandleReady
    <3>2. attempt[b] \in 0 .. MaxStarts /\ attempt[b] # 0
      BY <3>1
    <3>3. QED
      BY <3>1, <3>2
  <2>2. /\ at' = [at EXCEPT ![b] = "connecting"]
        /\ connected' = [connected EXCEPT ![b] = TRUE]
        /\ stream' = [stream EXCEPT ![b] = attempt[b]]
        /\ readied' = [readied EXCEPT ![b] = attempt[b]]
        /\ UNCHANGED <<attempt, cancelled, frame>>
    BY <1>10 DEF HandleReady
  <2>3. OneLiveContext' /\ Streamed'
    BY <2>1, <2>2
  <2>4. attempt[b] \in cancelled[b] \/ frame[b][attempt[b]] = "parked"
    BY <2>1 DEF Frames
  <2>5. StreamIsOwned'
    BY <2>1, <2>2, <2>4
  <2>6. QED
    BY <2>3, <2>5
<1>11. ASSUME NEW b \in Broker, ConnectReturns(b)
      PROVE  OneLiveContext' /\ StreamIsOwned' /\ Streamed'
  BY <1>11 DEF ConnectReturns
<1>12. ASSUME NEW b \in Broker, RecvReset(b)
      PROVE  OneLiveContext' /\ StreamIsOwned' /\ Streamed'
  BY <1>12 DEF RecvReset
<1>13. ASSUME NEW b \in Broker, SendAck(b)
      PROVE  OneLiveContext' /\ StreamIsOwned' /\ Streamed'
  BY <1>13 DEF SendAck
<1>14. ASSUME NEW b \in Broker, ResetReturns(b)
      PROVE  OneLiveContext' /\ StreamIsOwned' /\ Streamed'
  BY <1>14 DEF ResetReturns
<1>15. ASSUME NEW b \in Broker, RecvError(b)
      PROVE  OneLiveContext' /\ StreamIsOwned' /\ Streamed'
  BY <1>15 DEF RecvError
<1>16. ASSUME NEW b \in Broker, End(b)
      PROVE  OneLiveContext' /\ StreamIsOwned' /\ Streamed'
  BY <1>16 DEF End
<1>17. ASSUME NEW b \in Broker, RestartBelowMax(b)
      PROVE  OneLiveContext' /\ StreamIsOwned' /\ Streamed'
  BY <1>17 DEF RestartBelowMax
<1>18. ASSUME NEW b \in Broker, RestartAtMax(b)
      PROVE  OneLiveContext' /\ StreamIsOwned' /\ Streamed'
  BY <1>18 DEF RestartAtMax
<1>19. ASSUME NEW b \in Broker, NEW handled \in BOOLEAN, OverstayReturns(b, handled)
      PROVE  OneLiveContext' /\ StreamIsOwned' /\ Streamed'
  BY <1>19 DEF OverstayReturns
<1>20. ASSUME NEW b \in Broker, CheckContext(b)
      PROVE  OneLiveContext' /\ StreamIsOwned' /\ Streamed'
  BY <1>20 DEF CheckContext
<1>21. ASSUME NEW b \in Broker, TimerFires(b)
      PROVE  OneLiveContext' /\ StreamIsOwned' /\ Streamed'
  BY <1>21 DEF TimerFires
<1>22. ASSUME NEW b \in Broker, WaitCancelled(b)
      PROVE  OneLiveContext' /\ StreamIsOwned' /\ Streamed'
  BY <1>22 DEF WaitCancelled
<1>23. CASE UNCHANGED vars
  BY <1>23 DEF vars
<1>24. QED
  BY <1>1, <1>2, <1>3, <1>4, <1>5, <1>6, <1>7, <1>8, <1>9, <1>10, <1>11,
     <1>12, <1>13, <1>14, <1>15, <1>16, <1>17, <1>18, <1>19, <1>20, <1>21,
     <1>22, <1>23 DEF Next, StartSteps, ReadSteps, RestartSteps, FrameSteps

\* Contexts, streams and frames keep together in every behaviour (broker.go:135-217).
LEMMA StreamedInvariant == Spec => [](OneLiveContext /\ StreamIsOwned /\ Streamed)
<1>1. Init => OneLiveContext /\ StreamIsOwned /\ Streamed
  BY DEF Init, OneLiveContext, StreamIsOwned, Streamed, Attempts
<1>2. TypeOK /\ Counted /\ OneLiveContext /\ StreamIsOwned /\ Streamed /\ [Next]_vars
        => (OneLiveContext /\ StreamIsOwned /\ Streamed)'
  BY StreamedStep
<1>3. QED
  BY <1>1, <1>2, TypeCorrect, PTL DEF Spec

\* A reconnect leaves no live context behind (broker.go:139-142).
THEOREM ContextsCorrect == Spec => []OneLiveContext
BY StreamedInvariant, PTL

\* What Send finds while connected is set is a stream, not nil, and as long as
\* its context is live the Start that clears it is parked (broker.go:125-132).
THEOREM StreamsCorrect == Spec => []StreamIsOwned
BY StreamedInvariant, PTL

\* The acknowledgement of a reset goes out on the stream the reset came in on,
\* or on none (broker.go:238).
THEOREM AcksCorrect == Spec => []AckOnOwnStream
<1>1. Streamed => AckOnOwnStream
  BY DEF Streamed, AckOnOwnStream
<1>2. QED
  BY <1>1, StreamedInvariant, PTL

------------------------------------------------------------------------------
(* Resets                                                                    *)

\* After "_.reset" no step leads back towards Start (broker.go:234, 280).
LEMMA RestingStep ==
  ASSUME TypeOK, Resting, [Next]_vars
  PROVE  Resting'
<1> USE DEF TypeOK, Resting, Go, ctxVars, liveVars, backoffVars
<1>1. ASSUME NEW b \in Broker, Spawn(b)
      PROVE  Resting'
  BY <1>1 DEF Spawn
<1>2. ASSUME NEW b \in Broker, BeginStart(b)
      PROVE  Resting'
  BY <1>2 DEF BeginStart
<1>3. ASSUME NEW b \in Broker, DialFails(b)
      PROVE  Resting'
  BY <1>3 DEF DialFails
<1>4. ASSUME NEW b \in Broker, ChannelFails(b)
      PROVE  Resting'
  BY <1>4 DEF ChannelFails
<1>5. ASSUME NEW b \in Broker, ChannelOpens(b)
      PROVE  Resting'
  BY <1>5 DEF ChannelOpens
<1>6. ASSUME NEW b \in Broker, NEW n \in Attempts, Cleanup(b, n)
      PROVE  Resting'
  BY <1>6 DEF Cleanup
<1>7. ASSUME NEW b \in Broker, NEW n \in Attempts, DisconnectReturns(b, n)
      PROVE  Resting'
  BY <1>7 DEF DisconnectReturns
<1>8. ASSUME NEW b \in Broker, Done(b)
      PROVE  Resting'
  BY <1>8 DEF Done
<1>9. ASSUME NEW b \in Broker, RecvReady(b)
      PROVE  Resting'
  BY <1>9 DEF RecvReady
<1>10. ASSUME NEW b \in Broker, HandleReady(b)
      PROVE  Resting'
  BY <1>10 DEF HandleReady
<1>11. ASSUME NEW b \in Broker, ConnectReturns(b)
      PROVE  Resting'
  BY <1>11 DEF ConnectReturns
<1>12. ASSUME NEW b \in Broker, RecvReset(b)
      PROVE  Resting'
  BY <1>12 DEF RecvReset
<1>13. ASSUME NEW b \in Broker, SendAck(b)
      PROVE  Resting'
  BY <1>13 DEF SendAck
<1>14. ASSUME NEW b \in Broker, ResetReturns(b)
      PROVE  Resting'
  BY <1>14 DEF ResetReturns
<1>15. ASSUME NEW b \in Broker, RecvError(b)
      PROVE  Resting'
  BY <1>15 DEF RecvError
<1>16. ASSUME NEW b \in Broker, End(b)
      PROVE  Resting'
  BY <1>16 DEF End
<1>17. ASSUME NEW b \in Broker, RestartBelowMax(b)
      PROVE  Resting'
  BY <1>17 DEF RestartBelowMax
<1>18. ASSUME NEW b \in Broker, RestartAtMax(b)
      PROVE  Resting'
  BY <1>18 DEF RestartAtMax
<1>19. ASSUME NEW b \in Broker, NEW handled \in BOOLEAN, OverstayReturns(b, handled)
      PROVE  Resting'
  BY <1>19 DEF OverstayReturns
<1>20. ASSUME NEW b \in Broker, CheckContext(b)
      PROVE  Resting'
  BY <1>20 DEF CheckContext
<1>21. ASSUME NEW b \in Broker, TimerFires(b)
      PROVE  Resting'
  BY <1>21 DEF TimerFires
<1>22. ASSUME NEW b \in Broker, WaitCancelled(b)
      PROVE  Resting'
  BY <1>22 DEF WaitCancelled
<1>23. CASE UNCHANGED vars
  BY <1>23 DEF vars
<1>24. QED
  BY <1>1, <1>2, <1>3, <1>4, <1>5, <1>6, <1>7, <1>8, <1>9, <1>10, <1>11,
     <1>12, <1>13, <1>14, <1>15, <1>16, <1>17, <1>18, <1>19, <1>20, <1>21,
     <1>22, <1>23 DEF Next, StartSteps, ReadSteps, RestartSteps, FrameSteps

\* A reset object is never on its way to a Start (broker.go:231-244, 280).
LEMMA RestingInvariant == Spec => []Resting
<1>1. Init => Resting
  BY DEF Init, Resting
<1>2. TypeOK /\ Resting /\ [Next]_vars => Resting'
  BY RestingStep
<1>3. QED
  BY <1>1, <1>2, TypeCorrect, PTL DEF Spec

\* A broker that has asked for a reset never connects again (broker.go:280).
THEOREM ResetIsFinal == Spec => NoStartAfterReset
<1>1. TypeOK /\ Resting /\ [Next]_vars =>
        [\A b \in Broker : done[b] => attempt'[b] = attempt[b]]_vars
  <2> SUFFICES ASSUME TypeOK, Resting, Next, NEW b \in Broker, done[b]
               PROVE  attempt'[b] = attempt[b]
    OBVIOUS
  <2>1. ASSUME NEW c \in Broker, BeginStart(c)
        PROVE  attempt'[b] = attempt[b]
    <3>1. c # b
      BY <2>1 DEF BeginStart, Go, Resting
    <3>2. QED
      BY <2>1, <3>1 DEF BeginStart, TypeOK
  <2>2. ASSUME NEW c \in Broker, ~BeginStart(c),
               \/ Spawn(c) \/ Done(c)
               \/ StartSteps(c) \/ ReadSteps(c) \/ RestartSteps(c) \/ FrameSteps(c)
        PROVE  attempt'[b] = attempt[b]
    <3> USE DEF ctxVars
    <3>1. CASE Spawn(c) \/ Done(c)
      BY <3>1 DEF Spawn, Done
    <3>2. CASE StartSteps(c)
      BY <3>2, <2>2 DEF StartSteps, DialFails, ChannelFails, ChannelOpens
    <3>3. CASE ReadSteps(c)
      BY <3>3 DEF ReadSteps, RecvReady, HandleReady, ConnectReturns, RecvReset,
                  SendAck, ResetReturns, RecvError, End
    <3>4. CASE RestartSteps(c)
      BY <3>4 DEF RestartSteps, RestartBelowMax, RestartAtMax, OverstayReturns,
                  CheckContext, TimerFires, WaitCancelled
    <3>5. CASE FrameSteps(c)
      BY <3>5 DEF FrameSteps, Cleanup, DisconnectReturns
    <3>6. QED
      BY <2>2, <3>1, <3>2, <3>3, <3>4, <3>5
  <2>3. QED
    BY <2>1, <2>2 DEF Next
<1>2. QED
  BY <1>1, TypeCorrect, RestingInvariant, PTL DEF Spec, NoStartAfterReset

------------------------------------------------------------------------------
(* The retry budget                                                          *)

Ended == {"ending", "stopped", "panicked"}

\* What an object has paid for never exceeds the budget while restart goes on.
LEMMA PaidBound ==
  ASSUME TypeOK, Counted, NEW b \in Broker
  PROVE  /\ Paid(b) \in Nat /\ Budget \in Nat
         /\ at[b] \notin Ended => Paid(b) + 1 <= Budget
<1>1. duration[b] \in 0 .. durationMax
  BY DEF TypeOK
<1>2. /\ Rank(duration[b]) \in Nat /\ Cardinality(Delays) \in Nat
      /\ Rank(duration[b]) <= Cardinality(Delays)
  BY <1>1, RankBound
<1>3. overstayCount[b] \in Nat
  BY ConnAssumption DEF TypeOK
<1>4. at[b] \notin Ended => overstayCount[b] <= overstayAttempts
  BY DEF Counted, Ended
<1>5. QED
  BY <1>2, <1>3, <1>4, ConnAssumption DEF Paid, Budget

\* A step that only moves the driver keeps the account, unless it claims that
\* another Start is paid for.
LEMMA MovePays ==
  ASSUME TypeOK, Counted, Paying, NEW b \in Broker, NEW to \in Points,
         at' = [at EXCEPT ![b] = to],
         UNCHANGED <<attempt, readied, duration, overstayCount>>,
         at[b] \in Ended => to \in Ended,
         to \in Ended \/ Ahead(b) \/ ~Ahead(b)'
  PROVE  Paying'
<1>1. ASSUME NEW c \in Broker
      PROVE  Paid(c)' = Paid(c)
  BY DEF Paid
<1>2. ASSUME NEW c \in Broker, c # b
      PROVE  at'[c] = at[c] /\ (Ahead(c)' <=> Ahead(c))
  BY <1>2 DEF TypeOK, Ahead
<1>3. at'[b] = to
  BY DEF TypeOK
<1>4. attempt[b] - readied[b] \in Int /\ Paid(b) \in Nat /\ Budget \in Nat
  BY PaidBound DEF TypeOK
<1>5. CASE to \in Ended
  <2>1. attempt[b] - readied[b] <= Budget
    BY <1>4, PaidBound DEF Paying, Ended
  <2>2. QED
    BY <1>1, <1>2, <1>3, <1>5, <2>1 DEF Paying, Ended
<1>6. CASE to \notin Ended
  <2>1. attempt[b] - readied[b] <= Paid(b) + (IF Ahead(b)' THEN 0 ELSE 1)
    BY <1>4, <1>6 DEF Paying, Ended
  <2>2. QED
    BY <1>1, <1>2, <1>3, <1>6, <2>1 DEF Paying, Ended
<1>7. QED
  BY <1>5, <1>6

\* A step of one object keeps the account of all when it keeps its own.
LEMMA OwnAccount ==
  ASSUME TypeOK, Paying, NEW b \in Broker,
         \A c \in Broker : c # b =>
           /\ at'[c] = at[c] /\ attempt'[c] = attempt[c] /\ readied'[c] = readied[c]
           /\ duration'[c] = duration[c] /\ overstayCount'[c] = overstayCount[c],
         IF at'[b] \in Ended THEN attempt'[b] - readied'[b] <= Budget
         ELSE attempt'[b] - readied'[b] <= Paid(b)' + (IF Ahead(b)' THEN 0 ELSE 1)
  PROVE  Paying'
<1>1. ASSUME NEW c \in Broker, c # b
      PROVE  Paid(c)' = Paid(c) /\ (Ahead(c)' <=> Ahead(c))
  BY <1>1 DEF Paid, Ahead
<1>2. QED
  BY <1>1 DEF Paying, Ended

\* A new Start uses up what was paid ahead (broker.go:137-146, 296).
LEMMA BeginStartPays ==
  ASSUME TypeOK, Counted, Paying, NEW b \in Broker, BeginStart(b)
  PROVE  Paying'
<1>1. /\ at[b] \in {"spawned", "fired"} /\ at' = [at EXCEPT ![b] = "dialing"]
      /\ attempt' = [attempt EXCEPT ![b] = attempt[b] + 1]
      /\ UNCHANGED <<readied, duration, overstayCount>>
  BY DEF BeginStart, Go, liveVars, backoffVars
<1>2. at'[b] = "dialing" /\ attempt'[b] = attempt[b] + 1
  BY <1>1 DEF TypeOK
<1>3. attempt[b] - readied[b] <= Paid(b)
  <2>1. Ahead(b) /\ at[b] \notin Ended
    BY <1>1 DEF Ahead, Ended
  <2>2. attempt[b] - readied[b] <= Paid(b) + 0
    BY <2>1 DEF Paying, Ended
  <2>3. QED
    BY <2>2, PaidBound
<1>4. attempt[b] \in Int /\ readied[b] \in Int /\ Paid(b) \in Nat /\ Paid(b)' = Paid(b)
  BY <1>1, PaidBound DEF TypeOK, Paid
<1>5. attempt'[b] - readied'[b] <= Paid(b)' + 1
  BY <1>1, <1>2, <1>3, <1>4
<1>6. at'[b] \notin Ended /\ ~Ahead(b)'
  BY <1>2 DEF Ended, Ahead
<1>7. \A c \in Broker : c # b =>
        /\ at'[c] = at[c] /\ attempt'[c] = attempt[c] /\ readied'[c] = readied[c]
        /\ duration'[c] = duration[c] /\ overstayCount'[c] = overstayCount[c]
  BY <1>1 DEF TypeOK
<1>8. QED
  BY <1>5, <1>6, <1>7, OwnAccount

\* Readiness settles the account (broker.go:177-181).
LEMMA HandleReadyPays ==
  ASSUME TypeOK, Counted, Paying, NEW b \in Broker, HandleReady(b)
  PROVE  Paying'
<1>1. /\ at' = [at EXCEPT ![b] = "connecting"]
      /\ readied' = [readied EXCEPT ![b] = attempt[b]]
      /\ duration' = [duration EXCEPT ![b] = 0]
      /\ overstayCount' = [overstayCount EXCEPT ![b] = 0]
      /\ UNCHANGED attempt
  BY DEF HandleReady, Go, ctxVars
<1>2. /\ at'[b] = "connecting" /\ readied'[b] = attempt[b] /\ attempt'[b] = attempt[b]
      /\ duration'[b] = 0 /\ overstayCount'[b] = 0
  BY <1>1 DEF TypeOK
<1>3. Rank(0) \in Nat
  BY RankBound, DurationMaxAssumption
<1>4. Paid(b)' \in Nat
  BY <1>2, <1>3 DEF Paid
<1>5. attempt'[b] - readied'[b] <= Paid(b)' + 1
  BY <1>2, <1>4 DEF TypeOK
<1>6. at'[b] \notin Ended /\ ~Ahead(b)'
  BY <1>2 DEF Ended, Ahead
<1>7. \A c \in Broker : c # b =>
        /\ at'[c] = at[c] /\ attempt'[c] = attempt[c] /\ readied'[c] = readied[c]
        /\ duration'[c] = duration[c] /\ overstayCount'[c] = overstayCount[c]
  BY <1>1 DEF TypeOK
<1>8. QED
  BY <1>5, <1>6, <1>7, OwnAccount

\* At the longest delay it is the overstay count that pays (broker.go:265-275).
LEMMA RestartAtMaxPays ==
  ASSUME TypeOK, Counted, Paying, NEW b \in Broker, RestartAtMax(b)
  PROVE  Paying'
<1>1. /\ at[b] = "failed" /\ duration[b] = durationMax
      /\ overstayCount' = [overstayCount EXCEPT ![b] = overstayCount[b] + 1]
      /\ UNCHANGED <<attempt, readied, duration>>
  BY DEF RestartAtMax, Go, ctxVars, liveVars
<1>2. at' = [at EXCEPT ![b] = IF overstayCount[b] + 1 > overstayAttempts
                                THEN "ending" ELSE "overstaying"]
  BY DEF RestartAtMax, Go
<1>3. /\ at'[b] = (IF overstayCount[b] + 1 > overstayAttempts THEN "ending" ELSE "overstaying")
      /\ \A c \in Broker : c # b => at'[c] = at[c]
  BY <1>2 DEF TypeOK
<1>4. attempt[b] - readied[b] <= Paid(b) + 1
  <2>1. ~Ahead(b) /\ at[b] \notin Ended
    BY <1>1 DEF Ahead, Ended
  <2>2. QED
    BY <2>1 DEF Paying, Ended
<1>5. Paid(b) + 1 <= Budget /\ Paid(b) \in Nat /\ Budget \in Nat
  BY <1>1, PaidBound DEF Ended
<1>6. attempt[b] \in Int /\ readied[b] \in Int
  BY DEF TypeOK
<1>7. overstayCount'[b] = overstayCount[b] + 1 /\ Paid(b)' = Paid(b) + 1
  <2>1. overstayCount'[b] = overstayCount[b] + 1 /\ duration'[b] = duration[b]
    BY <1>1 DEF TypeOK
  <2>2. overstayCount[b] \in Nat /\ Rank(duration[b]) \in Nat
    BY ConnAssumption, RankBound DEF TypeOK
  <2>3. QED
    BY <2>1, <2>2 DEF Paid
<1>8. \A c \in Broker : c # b =>
        /\ at'[c] = at[c] /\ attempt'[c] = attempt[c] /\ readied'[c] = readied[c]
        /\ duration'[c] = duration[c] /\ overstayCount'[c] = overstayCount[c]
  BY <1>1, <1>3 DEF TypeOK
<1>9. CASE overstayCount[b] + 1 > overstayAttempts
  <2>1. at'[b] \in Ended
    BY <1>3, <1>9 DEF Ended
  <2>2. attempt'[b] - readied'[b] <= Budget
    BY <1>1, <1>4, <1>5, <1>6
  <2>3. QED
    BY <1>8, <2>1, <2>2, OwnAccount
<1>10. CASE ~(overstayCount[b] + 1 > overstayAttempts)
  <2>1. at'[b] = "overstaying"
    BY <1>3, <1>10
  <2>2. at'[b] \notin Ended /\ Ahead(b)'
    BY <1>1, <2>1 DEF Ended, Ahead
  <2>3. attempt'[b] - readied'[b] <= Paid(b)' + 0
    BY <1>1, <1>4, <1>5, <1>6, <1>7
  <2>4. QED
    BY <1>8, <2>2, <2>3, OwnAccount
<1>11. QED
  BY <1>9, <1>10

\* Below it the longer delay pays (broker.go:277-290).
LEMMA CheckContextPays ==
  ASSUME TypeOK, Counted, Paying, NEW b \in Broker, CheckContext(b)
  PROVE  Paying'
<1> DEFINE skip == ContextDone(b) \/ done[b]
<1>1. at[b] = "checking" /\ UNCHANGED <<attempt, readied, overstayCount>>
  BY DEF CheckContext, Go, ctxVars, liveVars
<1>2. CASE skip
  <2>1. at' = [at EXCEPT ![b] = "ending"] /\ UNCHANGED duration
    BY <1>2 DEF CheckContext, Go
  <2>2. QED
    BY <1>1, <2>1, MovePays DEF Ended, Points
<1>3. CASE ~skip
  <2>1. /\ at' = [at EXCEPT ![b] = "waiting"]
        /\ duration' = [duration EXCEPT ![b] = fibo(duration[b])]
    BY <1>3 DEF CheckContext, Go
  <2>2. at'[b] = "waiting" /\ duration'[b] = fibo(duration[b])
    BY <2>1 DEF TypeOK
  <2>3. \A c \in Broker : c # b =>
          /\ at'[c] = at[c] /\ attempt'[c] = attempt[c] /\ readied'[c] = readied[c]
          /\ duration'[c] = duration[c] /\ overstayCount'[c] = overstayCount[c]
    BY <1>1, <2>1 DEF TypeOK
  <2>4. at'[b] \notin Ended /\ Ahead(b)'
    BY <2>2 DEF Ended, Ahead
  <2>5. /\ duration[b] \in 0 .. durationMax /\ overstayCount[b] \in Nat
        /\ attempt[b] \in Int /\ readied[b] \in Int
    BY ConnAssumption DEF TypeOK
  <2>6. Rank(duration[b]) \in Nat /\ Rank(fibo(duration[b])) \in Nat
    BY <2>5, RankBound, DelayBounds
  <2>7. attempt[b] - readied[b] <= Rank(fibo(duration[b])) + overstayCount[b]
    <3>1. CASE duration[b] = durationMax
      <4>1. attempt[b] - readied[b] <= Paid(b) + 0
        BY <1>1, <3>1 DEF Paying, Ended, Ahead
      <4>2. fibo(duration[b]) = duration[b]
        BY <3>1, FiboGrows
      <4>3. QED
        BY <2>5, <2>6, <4>1, <4>2 DEF Paid
    <3>2. CASE duration[b] # durationMax
      <4>1. attempt[b] - readied[b] <= Paid(b) + 1
        BY <1>1, <3>2 DEF Paying, Ended, Ahead
      <4>2. Rank(duration[b]) + 1 <= Rank(fibo(duration[b]))
        BY <2>5, <3>2, RankGrows
      <4>3. QED
        BY <2>5, <2>6, <4>1, <4>2 DEF Paid
    <3>3. QED
      BY <3>1, <3>2
  <2>8. attempt'[b] - readied'[b] <= Paid(b)' + 0
    BY <1>1, <2>2, <2>5, <2>6, <2>7 DEF Paid
  <2>9. QED
    BY <2>3, <2>4, <2>8, OwnAccount
<1>4. QED
  BY <1>2, <1>3

\* No step calls Start on credit.
LEMMA PayingStep ==
  ASSUME TypeOK, Counted, Paying, [Next]_vars
  PROVE  Paying'
<1>1. ASSUME NEW b \in Broker, Spawn(b)
      PROVE  Paying'
  <2>1. at[b] = "absent" /\ at' = [at EXCEPT ![b] = "spawned"]
        /\ UNCHANGED <<attempt, readied, duration, overstayCount>>
    BY <1>1 DEF Spawn, Go, ctxVars, liveVars, backoffVars
  <2>2. QED
    BY <2>1, MovePays DEF Ended, Ahead, Points
<1>2. ASSUME NEW b \in Broker, BeginStart(b)
      PROVE  Paying'
  BY <1>2, BeginStartPays
<1>3. ASSUME NEW b \in Broker, DialFails(b)
      PROVE  Paying'
  <2>1. at[b] = "dialing" /\ at' = [at EXCEPT ![b] = "stopped"]
        /\ UNCHANGED <<attempt, readied, duration, overstayCount>>
    BY <1>3 DEF DialFails, Go, ctxVars, liveVars, backoffVars
  <2>2. QED
    BY <2>1, MovePays DEF Ended, Ahead, Points
<1>4. ASSUME NEW b \in Broker, ChannelFails(b)
      PROVE  Paying'
  <2>1. at[b] = "dialing" /\ at' = [at EXCEPT ![b] = "failed"]
        /\ UNCHANGED <<attempt, readied, duration, overstayCount>>
    BY <1>4 DEF ChannelFails, Go, ctxVars, liveVars, backoffVars
  <2>2. QED
    BY <2>1, MovePays DEF Ended, Ahead, Points
<1>5. ASSUME NEW b \in Broker, ChannelOpens(b)
      PROVE  Paying'
  <2>1. at[b] = "dialing" /\ at' = [at EXCEPT ![b] = "reading"]
        /\ UNCHANGED <<attempt, readied, duration, overstayCount>>
    BY <1>5 DEF ChannelOpens, Go, ctxVars, liveVars, backoffVars
  <2>2. QED
    BY <2>1, MovePays DEF Ended, Ahead, Points
<1>6. ASSUME NEW b \in Broker, NEW n \in Attempts, Cleanup(b, n)
      PROVE  Paying'
  <2>1. UNCHANGED <<at, attempt, readied, duration, overstayCount>>
    BY <1>6 DEF Cleanup, ctxVars, liveVars, backoffVars
  <2>2. QED
    BY <2>1 DEF Paying, Paid, Ahead
<1>7. ASSUME NEW b \in Broker, NEW n \in Attempts, DisconnectReturns(b, n)
      PROVE  Paying'
  <2>1. UNCHANGED <<at, attempt, readied, duration, overstayCount>>
    BY <1>7 DEF DisconnectReturns, ctxVars, liveVars, backoffVars
  <2>2. QED
    BY <2>1 DEF Paying, Paid, Ahead
<1>8. ASSUME NEW b \in Broker, Done(b)
      PROVE  Paying'
  <2>1. UNCHANGED <<at, attempt, readied, duration, overstayCount>>
    BY <1>8 DEF Done, ctxVars, liveVars, backoffVars
  <2>2. QED
    BY <2>1 DEF Paying, Paid, Ahead
<1>9. ASSUME NEW b \in Broker, RecvReady(b)
      PROVE  Paying'
  <2>1. at[b] = "reading" /\ at' = [at EXCEPT ![b] = "gotReady"]
        /\ UNCHANGED <<attempt, readied, duration, overstayCount>>
    BY <1>9 DEF RecvReady, Go, ctxVars, liveVars, backoffVars
  <2>2. QED
    BY <2>1, MovePays DEF Ended, Ahead, Points
<1>10. ASSUME NEW b \in Broker, HandleReady(b)
      PROVE  Paying'
  BY <1>10, HandleReadyPays
<1>11. ASSUME NEW b \in Broker, ConnectReturns(b)
      PROVE  Paying'
  <2>1. at[b] = "connecting" /\ at' = [at EXCEPT ![b] = "reading"]
        /\ UNCHANGED <<attempt, readied, duration, overstayCount>>
    BY <1>11 DEF ConnectReturns, Go, ctxVars, liveVars, backoffVars
  <2>2. QED
    BY <2>1, MovePays DEF Ended, Ahead, Points
<1>12. ASSUME NEW b \in Broker, RecvReset(b)
      PROVE  Paying'
  <2>1. at[b] = "reading" /\ at' = [at EXCEPT ![b] = "acking"]
        /\ UNCHANGED <<attempt, readied, duration, overstayCount>>
    BY <1>12 DEF RecvReset, Go, ctxVars, liveVars, backoffVars
  <2>2. QED
    BY <2>1, MovePays DEF Ended, Ahead, Points
<1>13. ASSUME NEW b \in Broker, SendAck(b)
      PROVE  Paying'
  <2>1. PICK to \in {"panicked", "resetting"} :
          at[b] = "acking" /\ at' = [at EXCEPT ![b] = to]
    BY <1>13 DEF SendAck, Go
  <2>2. UNCHANGED <<attempt, readied, duration, overstayCount>>
    BY <1>13 DEF SendAck, ctxVars, liveVars, backoffVars
  <2>3. to \in Ended \/ ~Ahead(b)'
    BY <2>1 DEF Ended, Ahead, TypeOK
  <2>4. QED
    BY <2>1, <2>2, <2>3, MovePays DEF Ended, Points
<1>14. ASSUME NEW b \in Broker, ResetReturns(b)
      PROVE  Paying'
  <2>1. at[b] = "resetting" /\ at' = [at EXCEPT ![b] = "reading"]
        /\ UNCHANGED <<attempt, readied, duration, overstayCount>>
    BY <1>14 DEF ResetReturns, Go, ctxVars, liveVars, backoffVars
  <2>2. QED
    BY <2>1, MovePays DEF Ended, Ahead, Points
<1>15. ASSUME NEW b \in Broker, RecvError(b)
      PROVE  Paying'
  <2>1. PICK to \in {"ending", "failed"} :
          at[b] = "reading" /\ at' = [at EXCEPT ![b] = to]
    BY <1>15 DEF RecvError, Go
  <2>2. UNCHANGED <<attempt, readied, duration, overstayCount>>
    BY <1>15 DEF RecvError, ctxVars, liveVars, backoffVars
  <2>3. to \in Ended \/ ~Ahead(b)'
    BY <2>1 DEF Ended, Ahead, TypeOK
  <2>4. QED
    BY <2>1, <2>2, <2>3, MovePays DEF Ended, Points
<1>16. ASSUME NEW b \in Broker, End(b)
      PROVE  Paying'
  <2>1. at[b] = "ending" /\ at' = [at EXCEPT ![b] = "stopped"]
        /\ UNCHANGED <<attempt, readied, duration, overstayCount>>
    BY <1>16 DEF End, Go, ctxVars, liveVars, backoffVars
  <2>2. QED
    BY <2>1, MovePays DEF Ended, Ahead, Points
<1>17. ASSUME NEW b \in Broker, RestartBelowMax(b)
      PROVE  Paying'
  <2>1. at[b] = "failed" /\ at' = [at EXCEPT ![b] = "checking"] /\ duration[b] # durationMax
        /\ UNCHANGED <<attempt, readied, duration, overstayCount>>
    BY <1>17 DEF RestartBelowMax, Go, ctxVars, liveVars, backoffVars
  <2>2. ~Ahead(b)'
    BY <2>1 DEF Ahead, TypeOK
  <2>3. QED
    BY <2>1, <2>2, MovePays DEF Ended, Points
<1>18. ASSUME NEW b \in Broker, RestartAtMax(b)
      PROVE  Paying'
  BY <1>18, RestartAtMaxPays
<1>19. ASSUME NEW b \in Broker, NEW handled \in BOOLEAN, OverstayReturns(b, handled)
      PROVE  Paying'
  <2>1. PICK to \in {"ending", "checking"} :
          at[b] = "overstaying" /\ at' = [at EXCEPT ![b] = to]
    BY <1>19 DEF OverstayReturns, Go
  <2>2. UNCHANGED <<attempt, readied, duration, overstayCount>>
    BY <1>19 DEF OverstayReturns, ctxVars, liveVars, backoffVars
  <2>3. Ahead(b) \/ ~Ahead(b)'
    BY <2>1, <2>2 DEF Ahead, TypeOK
  <2>4. QED
    BY <2>1, <2>2, <2>3, MovePays DEF Ended, Points
<1>20. ASSUME NEW b \in Broker, CheckContext(b)
      PROVE  Paying'
  BY <1>20, CheckContextPays
<1>21. ASSUME NEW b \in Broker, TimerFires(b)
      PROVE  Paying'
  <2>1. at[b] = "waiting" /\ at' = [at EXCEPT ![b] = "fired"]
        /\ UNCHANGED <<attempt, readied, duration, overstayCount>>
    BY <1>21 DEF TimerFires, Go, ctxVars, liveVars, backoffVars
  <2>2. QED
    BY <2>1, MovePays DEF Ended, Ahead, Points
<1>22. ASSUME NEW b \in Broker, WaitCancelled(b)
      PROVE  Paying'
  <2>1. at[b] = "waiting" /\ at' = [at EXCEPT ![b] = "ending"]
        /\ UNCHANGED <<attempt, readied, duration, overstayCount>>
    BY <1>22 DEF WaitCancelled, Go, ctxVars, liveVars, backoffVars
  <2>2. QED
    BY <2>1, MovePays DEF Ended, Ahead, Points
<1>23. CASE UNCHANGED vars
  BY <1>23 DEF vars, ctxVars, liveVars, backoffVars, Paying, Paid, Ahead
<1>24. QED
  BY <1>1, <1>2, <1>3, <1>4, <1>5, <1>6, <1>7, <1>8, <1>9, <1>10, <1>11,
     <1>12, <1>13, <1>14, <1>15, <1>16, <1>17, <1>18, <1>19, <1>20, <1>21,
     <1>22, <1>23 DEF Next, StartSteps, ReadSteps, RestartSteps, FrameSteps

\* Every Start of an outage is paid for (broker.go:262-300).
LEMMA PayingInvariant == Spec => []Paying
<1>1. Init => Paying
  <2>1. Rank(0) \in Nat
    BY RankBound, DurationMaxAssumption
  <2>2. QED
    BY <2>1 DEF Init, Paying, Paid, Ahead
<1>2. TypeOK /\ Counted /\ Paying /\ [Next]_vars => Paying'
  BY PayingStep
<1>3. QED
  BY <1>1, <1>2, TypeCorrect, PTL DEF Spec

\* An outage costs a bounded number of calls of Start, however cancellations,
\* resets and the client's answers fall into it (broker.go:262-300).
THEOREM BudgetKept == Spec => []RetryBudget
<1>1. TypeOK /\ Counted /\ Paying => RetryBudget
  <2> SUFFICES ASSUME TypeOK, Counted, Paying, NEW b \in Broker
               PROVE  attempt[b] - readied[b] <= Budget
    BY DEF RetryBudget
  <2>1. attempt[b] - readied[b] \in Int /\ Paid(b) \in Nat /\ Budget \in Nat
    BY PaidBound DEF TypeOK
  <2>2. CASE at[b] \in Ended
    BY <2>2 DEF Paying, Ended
  <2>3. CASE at[b] \notin Ended
    <3>1. attempt[b] - readied[b] <= Paid(b) + 1
      BY <2>1, <2>3 DEF Paying, Ended
    <3>2. QED
      BY <2>1, <2>3, <3>1, PaidBound
  <2>4. QED
    BY <2>2, <2>3
<1>2. QED
  BY <1>1, TypeCorrect, PayingInvariant, PTL

\* The invariant that the safety theorems rest on, as one statement: types,
\* contexts, streams, resets and the backoff's account (broker.go:135-300).
THEOREM ConnInvCorrect == Spec => []ConnInv
<1>1. (TypeOK /\ Counted) /\ (OneLiveContext /\ StreamIsOwned /\ Streamed) /\ Resting /\ Paying
        => ConnInv
  BY DEF ConnInv
<1>2. QED
  BY <1>1, TypeCorrect, StreamedInvariant, RestingInvariant, PayingInvariant, PTL

------------------------------------------------------------------------------
(* ReconnectPolicy: every step of a goroutine maps to one of its steps or    *)
(* leaves phase, tries and retired alone                                     *)

\* A step that only moves the driver changes at most the phase of its object.
LEMMA PhaseMoves ==
  ASSUME TypeOK, NEW b \in Broker, NEW to \in Points,
         at' = [at EXCEPT ![b] = to], UNCHANGED <<attempt, readied>>
  PROVE  /\ Phase' = [Phase EXCEPT ![b] = PhaseAt(to, readied[b] = attempt[b])]
         /\ UNCHANGED Tries
<1>1. /\ at'[b] = to
      /\ \A c \in Broker : c # b => at'[c] = at[c]
  BY DEF TypeOK
<1>2. ASSUME NEW c \in Broker
      PROVE  Phase'[c] = [Phase EXCEPT ![b] = PhaseAt(to, readied[b] = attempt[b])][c]
  <2>1. CASE c = b
    BY <1>1, <2>1 DEF Phase
  <2>2. CASE c # b
    BY <1>1, <2>2 DEF Phase
  <2>3. QED
    BY <2>1, <2>2
<1>3. Phase' = [Phase EXCEPT ![b] = PhaseAt(to, readied[b] = attempt[b])]
  BY <1>2 DEF Phase
<1>4. UNCHANGED Tries
  BY DEF Tries
<1>5. QED
  BY <1>3, <1>4

\* A move between two points of one phase is no step of the policy.
LEMMA MoveWithin ==
  ASSUME TypeOK, NEW b \in Broker, NEW to \in Points,
         at' = [at EXCEPT ![b] = to], UNCHANGED <<attempt, readied, done>>,
         PhaseAt(to, readied[b] = attempt[b]) = PhaseAt(at[b], readied[b] = attempt[b])
  PROVE  UNCHANGED Policy!policyVars
<1>1. Phase' = [Phase EXCEPT ![b] = Phase[b]] /\ UNCHANGED Tries
  <2>1. Phase[b] = PhaseAt(to, readied[b] = attempt[b])
    BY DEF Phase
  <2>2. QED
    BY <2>1, PhaseMoves
<1>2. UNCHANGED Phase
  BY <1>1 DEF Phase
<1>3. QED
  BY <1>1, <1>2 DEF Policy!policyVars

\* The end of a connection is the policy's GiveUp.
LEMMA MoveToEnd ==
  ASSUME TypeOK, NEW b \in Broker, NEW to \in Ended, at[b] \notin {"absent", "spawned"} \cup Ended,
         at' = [at EXCEPT ![b] = to], UNCHANGED <<attempt, readied, done>>
  PROVE  Policy!GiveUp(b)
<1>1. Phase' = [Phase EXCEPT ![b] = "over"] /\ UNCHANGED Tries
  <2>1. to \in Points /\ PhaseAt(to, readied[b] = attempt[b]) = "over"
    BY DEF Ended, Points, PhaseAt
  <2>2. QED
    BY <2>1, PhaseMoves
<1>2. Phase[b] \in {"trying", "up", "down"}
  <2>1. at[b] \notin {"absent", "spawned", "ending", "stopped", "panicked"}
    BY DEF Ended
  <2>2. Phase[b] = PhaseAt(at[b], readied[b] = attempt[b])
    BY DEF Phase
  <2>3. QED
    BY <2>1, <2>2 DEF PhaseAt
<1>3. QED
  BY <1>1, <1>2 DEF Policy!GiveUp, Policy!Move

\* A failed connection is the policy's Lose.
LEMMA MoveToFailed ==
  ASSUME TypeOK, NEW b \in Broker, at[b] \in {"dialing", "reading"},
         at' = [at EXCEPT ![b] = "failed"], UNCHANGED <<attempt, readied, done>>
  PROVE  Policy!Lose(b)
<1>1. Phase' = [Phase EXCEPT ![b] = "down"] /\ UNCHANGED Tries
  <2>1. "failed" \in Points /\ PhaseAt("failed", readied[b] = attempt[b]) = "down"
    BY DEF Points, PhaseAt
  <2>2. QED
    BY <2>1, PhaseMoves
<1>2. Phase[b] \in {"trying", "up"}
  BY DEF Phase, PhaseAt
<1>3. QED
  BY <1>1, <1>2 DEF Policy!Lose, Policy!Move

------------------------------------------------------------------------------
(* The steps that change more than the driver's place                        *)

\* The first section of Start is a Try of the policy (broker.go:139-146).
LEMMA BeginStartMaps ==
  ASSUME TypeOK, Counted, Paying, Resting, NEW b \in Broker, BeginStart(b)
  PROVE  Policy!Try(b)
<1>1. /\ at[b] \in {"spawned", "fired"} /\ at' = [at EXCEPT ![b] = "dialing"]
      /\ attempt' = [attempt EXCEPT ![b] = attempt[b] + 1]
      /\ UNCHANGED <<readied, done>>
  BY DEF BeginStart, Go, liveVars
<1>2. /\ at'[b] = "dialing" /\ attempt'[b] = attempt[b] + 1 /\ readied'[b] = readied[b]
      /\ \A c \in Broker : c # b => at'[c] = at[c] /\ attempt'[c] = attempt[c]
  BY <1>1 DEF TypeOK
<1>3. attempt[b] \in Int /\ readied[b] \in Int /\ readied[b] <= attempt[b]
  BY DEF TypeOK, Counted
<1>4. PhaseAt("dialing", readied'[b] = attempt'[b]) = "trying"
  <2>1. ~(readied'[b] = attempt'[b])
    BY <1>2, <1>3
  <2>2. QED
    BY <2>1 DEF PhaseAt
<1>5. Phase' = [Phase EXCEPT ![b] = "trying"]
  <2>1. ASSUME NEW c \in Broker
        PROVE  Phase'[c] = [Phase EXCEPT ![b] = "trying"][c]
    <3>1. CASE c = b
      BY <1>2, <1>4, <3>1 DEF Phase
    <3>2. CASE c # b
      BY <1>1, <1>2, <3>2 DEF Phase
    <3>3. QED
      BY <3>1, <3>2
  <2>2. QED
    BY <2>1 DEF Phase
<1>6. Tries' = [Tries EXCEPT ![b] = Tries[b] + 1]
  <2>1. ASSUME NEW c \in Broker
        PROVE  Tries'[c] = [Tries EXCEPT ![b] = Tries[b] + 1][c]
    <3>1. CASE c = b
      BY <1>2, <1>3, <3>1 DEF Tries
    <3>2. CASE c # b
      BY <1>1, <1>2, <3>2 DEF Tries
    <3>3. QED
      BY <3>1, <3>2
  <2>2. QED
    BY <2>1 DEF Tries
<1>7. Phase[b] \in {"idle", "down"}
  BY <1>1 DEF Phase, PhaseAt
<1>8. ~done[b]
  BY <1>1 DEF Resting
<1>9. Tries[b] < Budget
  <2>1. Ahead(b) /\ at[b] \notin Ended
    BY <1>1 DEF Ahead, Ended
  <2>2. attempt[b] - readied[b] <= Paid(b) + 0
    BY <2>1 DEF Paying, Ended
  <2>3. Paid(b) + 1 <= Budget /\ Paid(b) \in Nat /\ Budget \in Nat
    BY <2>1, PaidBound
  <2>4. QED
    BY <1>3, <2>2, <2>3 DEF Tries
<1>10. QED
  BY <1>1, <1>5, <1>6, <1>7, <1>8, <1>9 DEF Policy!Try, Policy!Move

\* The "_.ready" handler is a ComeUp (broker.go:175-182).
LEMMA HandleReadyMaps ==
  ASSUME TypeOK, Counted, NEW b \in Broker, HandleReady(b)
  PROVE  Policy!ComeUp(b)
<1>1. /\ at[b] = "gotReady" /\ at' = [at EXCEPT ![b] = "connecting"]
      /\ readied' = [readied EXCEPT ![b] = attempt[b]]
      /\ UNCHANGED <<attempt, done>>
  BY DEF HandleReady, Go, ctxVars
<1>2. /\ at'[b] = "connecting" /\ readied'[b] = attempt[b] /\ attempt'[b] = attempt[b]
      /\ \A c \in Broker : c # b => at'[c] = at[c] /\ readied'[c] = readied[c]
  BY <1>1 DEF TypeOK
<1>3. attempt[b] \in Int /\ ~(readied[b] = attempt[b])
  BY <1>1 DEF TypeOK, Counted
<1>4. Phase' = [Phase EXCEPT ![b] = "up"]
  <2>1. PhaseAt("connecting", readied'[b] = attempt'[b]) = "up"
    BY <1>2 DEF PhaseAt
  <2>2. ASSUME NEW c \in Broker
        PROVE  Phase'[c] = [Phase EXCEPT ![b] = "up"][c]
    <3>1. CASE c = b
      BY <1>2, <2>1, <3>1 DEF Phase
    <3>2. CASE c # b
      BY <1>1, <1>2, <3>2 DEF Phase
    <3>3. QED
      BY <3>1, <3>2
  <2>3. QED
    BY <2>2 DEF Phase
<1>5. Tries' = [Tries EXCEPT ![b] = 0]
  <2>1. ASSUME NEW c \in Broker
        PROVE  Tries'[c] = [Tries EXCEPT ![b] = 0][c]
    <3>1. CASE c = b
      BY <1>2, <1>3, <3>1 DEF Tries
    <3>2. CASE c # b
      BY <1>1, <1>2, <3>2 DEF Tries
    <3>3. QED
      BY <3>1, <3>2
  <2>2. QED
    BY <2>1 DEF Tries
<1>6. Phase[b] = "trying"
  BY <1>1, <1>3 DEF Phase, PhaseAt
<1>7. QED
  BY <1>1, <1>4, <1>5, <1>6 DEF Policy!ComeUp, Policy!Move

\* The arrival of "_.reset" is a Retire (broker.go:231-234).
LEMMA RecvResetMaps ==
  ASSUME TypeOK, NEW b \in Broker, RecvReset(b)
  PROVE  Policy!Retire(b)
<1>1. /\ at[b] = "reading" /\ at' = [at EXCEPT ![b] = "acking"]
      /\ readied[b] = attempt[b]
      /\ done' = [done EXCEPT ![b] = TRUE]
      /\ UNCHANGED <<attempt, readied>>
  BY DEF RecvReset, Go, ctxVars, liveVars
<1>2. /\ PhaseAt(at[b], readied[b] = attempt[b]) = "up"
      /\ PhaseAt("acking", readied[b] = attempt[b]) = "up"
  BY <1>1 DEF PhaseAt
<1>3. Phase[b] = "up"
  BY <1>2 DEF Phase
<1>4. Phase' = [Phase EXCEPT ![b] = "up"] /\ UNCHANGED Tries
  <2>1. "acking" \in Points
    BY DEF Points
  <2>2. QED
    BY <1>1, <1>2, <2>1, PhaseMoves
<1>5. UNCHANGED Phase
  BY <1>3, <1>4 DEF Phase
<1>6. QED
  BY <1>1, <1>3, <1>4, <1>5 DEF Policy!Retire

------------------------------------------------------------------------------
(* Every step                                                                *)

PolicyStep == [Policy!PolicyNext]_(Policy!policyVars)

\* Each step of the code is a step of the policy or invisible to it.
LEMMA RefinementStep ==
  ASSUME TypeOK, Counted, Paying, Resting, [Next]_vars
  PROVE  PolicyStep
<1>1. ASSUME NEW b \in Broker, Spawn(b)
      PROVE  PolicyStep
  <2>1. at[b] = "absent" /\ at' = [at EXCEPT ![b] = "spawned"]
        /\ UNCHANGED <<attempt, readied, done>>
    BY <1>1 DEF Spawn, Go, ctxVars, liveVars
  <2>2. PhaseAt("spawned", readied[b] = attempt[b]) = PhaseAt(at[b], readied[b] = attempt[b])
    BY <2>1 DEF PhaseAt
  <2>3. "spawned" \in Points
    BY DEF Points
  <2>4. QED
    BY <2>1, <2>2, <2>3, MoveWithin DEF PolicyStep
<1>2. ASSUME NEW b \in Broker, BeginStart(b)
      PROVE  PolicyStep
  <2>1. Policy!Try(b)
    BY <1>2, BeginStartMaps
  <2>2. QED
    BY <2>1 DEF PolicyStep, Policy!PolicyNext
<1>3. ASSUME NEW b \in Broker, DialFails(b)
      PROVE  PolicyStep
  <2>1. at[b] = "dialing" /\ at' = [at EXCEPT ![b] = "stopped"]
        /\ UNCHANGED <<attempt, readied, done>>
    BY <1>3 DEF DialFails, Go, ctxVars, liveVars
  <2>2. Policy!GiveUp(b)
    BY <2>1, MoveToEnd DEF Ended
  <2>3. QED
    BY <2>2 DEF PolicyStep, Policy!PolicyNext
<1>4. ASSUME NEW b \in Broker, ChannelFails(b)
      PROVE  PolicyStep
  <2>1. at[b] = "dialing" /\ at' = [at EXCEPT ![b] = "failed"]
        /\ UNCHANGED <<attempt, readied, done>>
    BY <1>4 DEF ChannelFails, Go, ctxVars, liveVars
  <2>2. Policy!Lose(b)
    BY <2>1, MoveToFailed
  <2>3. QED
    BY <2>2 DEF PolicyStep, Policy!PolicyNext
<1>5. ASSUME NEW b \in Broker, ChannelOpens(b)
      PROVE  PolicyStep
  <2>1. at[b] = "dialing" /\ at' = [at EXCEPT ![b] = "reading"]
        /\ UNCHANGED <<attempt, readied, done>>
    BY <1>5 DEF ChannelOpens, Go, ctxVars, liveVars
  <2>2. PhaseAt("reading", readied[b] = attempt[b]) = PhaseAt(at[b], readied[b] = attempt[b])
    BY <2>1 DEF PhaseAt
  <2>3. "reading" \in Points
    BY DEF Points
  <2>4. QED
    BY <2>1, <2>2, <2>3, MoveWithin DEF PolicyStep
<1>6. ASSUME NEW b \in Broker, NEW n \in Attempts, Cleanup(b, n)
      PROVE  PolicyStep
  <2>1. UNCHANGED <<at, attempt, readied, done>>
    BY <1>6 DEF Cleanup, ctxVars, liveVars
  <2>2. QED
    BY <2>1 DEF PolicyStep, Policy!policyVars, Phase, Tries
<1>7. ASSUME NEW b \in Broker, NEW n \in Attempts, DisconnectReturns(b, n)
      PROVE  PolicyStep
  <2>1. UNCHANGED <<at, attempt, readied, done>>
    BY <1>7 DEF DisconnectReturns, ctxVars, liveVars
  <2>2. QED
    BY <2>1 DEF PolicyStep, Policy!policyVars, Phase, Tries
<1>8. ASSUME NEW b \in Broker, Done(b)
      PROVE  PolicyStep
  <2>1. UNCHANGED <<at, attempt, readied, done>>
    BY <1>8 DEF Done, ctxVars, liveVars
  <2>2. QED
    BY <2>1 DEF PolicyStep, Policy!policyVars, Phase, Tries
<1>9. ASSUME NEW b \in Broker, RecvReady(b)
      PROVE  PolicyStep
  <2>1. at[b] = "reading" /\ at' = [at EXCEPT ![b] = "gotReady"]
        /\ UNCHANGED <<attempt, readied, done>>
    BY <1>9 DEF RecvReady, Go, ctxVars, liveVars
  <2>2. PhaseAt("gotReady", readied[b] = attempt[b]) = PhaseAt(at[b], readied[b] = attempt[b])
    BY <2>1 DEF PhaseAt
  <2>3. "gotReady" \in Points
    BY DEF Points
  <2>4. QED
    BY <2>1, <2>2, <2>3, MoveWithin DEF PolicyStep
<1>10. ASSUME NEW b \in Broker, HandleReady(b)
      PROVE  PolicyStep
  <2>1. Policy!ComeUp(b)
    BY <1>10, HandleReadyMaps
  <2>2. QED
    BY <2>1 DEF PolicyStep, Policy!PolicyNext
<1>11. ASSUME NEW b \in Broker, ConnectReturns(b)
      PROVE  PolicyStep
  <2>1. at[b] = "connecting" /\ at' = [at EXCEPT ![b] = "reading"]
        /\ UNCHANGED <<attempt, readied, done>>
    BY <1>11 DEF ConnectReturns, Go, ctxVars, liveVars
  <2>2. PhaseAt("reading", readied[b] = attempt[b]) = PhaseAt(at[b], readied[b] = attempt[b])
    BY <2>1 DEF PhaseAt
  <2>3. "reading" \in Points
    BY DEF Points
  <2>4. QED
    BY <2>1, <2>2, <2>3, MoveWithin DEF PolicyStep
<1>12. ASSUME NEW b \in Broker, RecvReset(b)
      PROVE  PolicyStep
  <2>1. Policy!Retire(b)
    BY <1>12, RecvResetMaps
  <2>2. QED
    BY <2>1 DEF PolicyStep, Policy!PolicyNext
<1>13. ASSUME NEW b \in Broker, SendAck(b)
      PROVE  PolicyStep
  <2>1. at[b] = "acking" /\ UNCHANGED <<attempt, readied, done>>
    BY <1>13 DEF SendAck, Go, ctxVars, liveVars
  <2>2. CASE at' = [at EXCEPT ![b] = "panicked"]
    <3>1. Policy!GiveUp(b)
      BY <2>1, <2>2, MoveToEnd DEF Ended
    <3>2. QED
      BY <3>1 DEF PolicyStep, Policy!PolicyNext
  <2>3. CASE at' = [at EXCEPT ![b] = "resetting"]
    <3>1. PhaseAt("resetting", readied[b] = attempt[b]) = PhaseAt(at[b], readied[b] = attempt[b])
      BY <2>1 DEF PhaseAt
    <3>2. "resetting" \in Points
      BY DEF Points
    <3>3. QED
      BY <2>1, <2>3, <3>1, <3>2, MoveWithin DEF PolicyStep
  <2>4. QED
    BY <1>13, <2>2, <2>3 DEF SendAck, Go
<1>14. ASSUME NEW b \in Broker, ResetReturns(b)
      PROVE  PolicyStep
  <2>1. at[b] = "resetting" /\ at' = [at EXCEPT ![b] = "reading"]
        /\ UNCHANGED <<attempt, readied, done>>
    BY <1>14 DEF ResetReturns, Go, ctxVars, liveVars
  <2>2. PhaseAt("reading", readied[b] = attempt[b]) = PhaseAt(at[b], readied[b] = attempt[b])
    BY <2>1 DEF PhaseAt
  <2>3. "reading" \in Points
    BY DEF Points
  <2>4. QED
    BY <2>1, <2>2, <2>3, MoveWithin DEF PolicyStep
<1>15. ASSUME NEW b \in Broker, RecvError(b)
      PROVE  PolicyStep
  <2>1. at[b] = "reading" /\ UNCHANGED <<attempt, readied, done>>
    BY <1>15 DEF RecvError, Go, ctxVars, liveVars
  <2>2. CASE at' = [at EXCEPT ![b] = "ending"]
    <3>1. Policy!GiveUp(b)
      BY <2>1, <2>2, MoveToEnd DEF Ended
    <3>2. QED
      BY <3>1 DEF PolicyStep, Policy!PolicyNext
  <2>3. CASE at' = [at EXCEPT ![b] = "failed"]
    <3>1. Policy!Lose(b)
      BY <2>1, <2>3, MoveToFailed
    <3>2. QED
      BY <3>1 DEF PolicyStep, Policy!PolicyNext
  <2>4. QED
    BY <1>15, <2>2, <2>3 DEF RecvError, Go
<1>16. ASSUME NEW b \in Broker, End(b)
      PROVE  PolicyStep
  <2>1. at[b] = "ending" /\ at' = [at EXCEPT ![b] = "stopped"]
        /\ UNCHANGED <<attempt, readied, done>>
    BY <1>16 DEF End, Go, ctxVars, liveVars
  <2>2. PhaseAt("stopped", readied[b] = attempt[b]) = PhaseAt(at[b], readied[b] = attempt[b])
    BY <2>1 DEF PhaseAt
  <2>3. "stopped" \in Points
    BY DEF Points
  <2>4. QED
    BY <2>1, <2>2, <2>3, MoveWithin DEF PolicyStep
<1>17. ASSUME NEW b \in Broker, RestartBelowMax(b)
      PROVE  PolicyStep
  <2>1. at[b] = "failed" /\ at' = [at EXCEPT ![b] = "checking"]
        /\ UNCHANGED <<attempt, readied, done>>
    BY <1>17 DEF RestartBelowMax, Go, ctxVars, liveVars
  <2>2. PhaseAt("checking", readied[b] = attempt[b]) = PhaseAt(at[b], readied[b] = attempt[b])
    BY <2>1 DEF PhaseAt
  <2>3. "checking" \in Points
    BY DEF Points
  <2>4. QED
    BY <2>1, <2>2, <2>3, MoveWithin DEF PolicyStep
<1>18. ASSUME NEW b \in Broker, RestartAtMax(b)
      PROVE  PolicyStep
  <2>1. at[b] = "failed" /\ UNCHANGED <<attempt, readied, done>>
    BY <1>18 DEF RestartAtMax, Go, ctxVars, liveVars
  <2>2. CASE at' = [at EXCEPT ![b] = "ending"]
    <3>1. Policy!GiveUp(b)
      BY <2>1, <2>2, MoveToEnd DEF Ended
    <3>2. QED
      BY <3>1 DEF PolicyStep, Policy!PolicyNext
  <2>3. CASE at' = [at EXCEPT ![b] = "overstaying"]
    <3>1. PhaseAt("overstaying", readied[b] = attempt[b]) = PhaseAt(at[b], readied[b] = attempt[b])
      BY <2>1 DEF PhaseAt
    <3>2. "overstaying" \in Points
      BY DEF Points
    <3>3. QED
      BY <2>1, <2>3, <3>1, <3>2, MoveWithin DEF PolicyStep
  <2>4. QED
    BY <1>18, <2>2, <2>3 DEF RestartAtMax, Go
<1>19. ASSUME NEW b \in Broker, NEW handled \in BOOLEAN, OverstayReturns(b, handled)
      PROVE  PolicyStep
  <2>1. at[b] = "overstaying" /\ UNCHANGED <<attempt, readied, done>>
    BY <1>19 DEF OverstayReturns, Go, ctxVars, liveVars
  <2>2. CASE at' = [at EXCEPT ![b] = "ending"]
    <3>1. Policy!GiveUp(b)
      BY <2>1, <2>2, MoveToEnd DEF Ended
    <3>2. QED
      BY <3>1 DEF PolicyStep, Policy!PolicyNext
  <2>3. CASE at' = [at EXCEPT ![b] = "checking"]
    <3>1. PhaseAt("checking", readied[b] = attempt[b]) = PhaseAt(at[b], readied[b] = attempt[b])
      BY <2>1 DEF PhaseAt
    <3>2. "checking" \in Points
      BY DEF Points
    <3>3. QED
      BY <2>1, <2>3, <3>1, <3>2, MoveWithin DEF PolicyStep
  <2>4. QED
    BY <1>19, <2>2, <2>3 DEF OverstayReturns, Go
<1>20. ASSUME NEW b \in Broker, CheckContext(b)
      PROVE  PolicyStep
  <2>1. at[b] = "checking" /\ UNCHANGED <<attempt, readied, done>>
    BY <1>20 DEF CheckContext, Go, ctxVars, liveVars
  <2>2. CASE at' = [at EXCEPT ![b] = "ending"]
    <3>1. Policy!GiveUp(b)
      BY <2>1, <2>2, MoveToEnd DEF Ended
    <3>2. QED
      BY <3>1 DEF PolicyStep, Policy!PolicyNext
  <2>3. CASE at' = [at EXCEPT ![b] = "waiting"]
    <3>1. PhaseAt("waiting", readied[b] = attempt[b]) = PhaseAt(at[b], readied[b] = attempt[b])
      BY <2>1 DEF PhaseAt
    <3>2. "waiting" \in Points
      BY DEF Points
    <3>3. QED
      BY <2>1, <2>3, <3>1, <3>2, MoveWithin DEF PolicyStep
  <2>4. QED
    BY <1>20, <2>2, <2>3 DEF CheckContext, Go
<1>21. ASSUME NEW b \in Broker, TimerFires(b)
      PROVE  PolicyStep
  <2>1. at[b] = "waiting" /\ at' = [at EXCEPT ![b] = "fired"]
        /\ UNCHANGED <<attempt, readied, done>>
    BY <1>21 DEF TimerFires, Go, ctxVars, liveVars
  <2>2. PhaseAt("fired", readied[b] = attempt[b]) = PhaseAt(at[b], readied[b] = attempt[b])
    BY <2>1 DEF PhaseAt
  <2>3. "fired" \in Points
    BY DEF Points
  <2>4. QED
    BY <2>1, <2>2, <2>3, MoveWithin DEF PolicyStep
<1>22. ASSUME NEW b \in Broker, WaitCancelled(b)
      PROVE  PolicyStep
  <2>1. at[b] = "waiting" /\ at' = [at EXCEPT ![b] = "ending"]
        /\ UNCHANGED <<attempt, readied, done>>
    BY <1>22 DEF WaitCancelled, Go, ctxVars, liveVars
  <2>2. Policy!GiveUp(b)
    BY <2>1, MoveToEnd DEF Ended
  <2>3. QED
    BY <2>2 DEF PolicyStep, Policy!PolicyNext
<1>23. CASE UNCHANGED vars
  BY <1>23 DEF vars, ctxVars, liveVars, PolicyStep, Policy!policyVars, Phase, Tries
<1>24. QED
  BY <1>1, <1>2, <1>3, <1>4, <1>5, <1>6, <1>7, <1>8, <1>9, <1>10, <1>11,
     <1>12, <1>13, <1>14, <1>15, <1>16, <1>17, <1>18, <1>19, <1>20, <1>21,
     <1>22, <1>23 DEF Next, StartSteps, ReadSteps, RestartSteps, FrameSteps

\* The goroutines of Start, the read loop and restart together implement the
\* reconnect policy, for every backoff (broker.go:135-300).
THEOREM ConnFollowsPolicy == Spec => FollowsPolicy
<1>1. Init => Policy!PolicyInit
  BY DEF Init, Policy!PolicyInit, Phase, Tries, PhaseAt
<1>2. TypeOK /\ Counted /\ Paying /\ Resting /\ [Next]_vars
        => [Policy!PolicyNext]_(Policy!policyVars)
  BY RefinementStep DEF PolicyStep
<1>3. QED
  BY <1>1, <1>2, TypeCorrect, PayingInvariant, RestingInvariant, PTL
     DEF Spec, FollowsPolicy, Policy!PolicySpec

------------------------------------------------------------------------------
(* Links: the place of an object, its contexts, frames and fields            *)

LinkStep == [Link!LinkNext]_(Link!linkVars)

\* A step that moves the driver of b moves at most the place of b.
LEMMA PlaceMoves ==
  ASSUME TypeOK, NEW b \in Broker, NEW to, NEW place,
         at' = [at EXCEPT ![b] = to],
         \A c \in Broker : c # b => attempt'[c] = attempt[c] /\ readied'[c] = readied[c],
         place = PlaceAt(to, readied'[b] = attempt'[b])
  PROVE  Place' = [Place EXCEPT ![b] = place]
<1>1. at'[b] = to /\ \A c \in Broker : c # b => at'[c] = at[c]
  BY DEF TypeOK
<1>2. ASSUME NEW c \in Broker
      PROVE  Place'[c] = [Place EXCEPT ![b] = place][c]
  <2>1. CASE c = b
    BY <1>1, <2>1 DEF Place
  <2>2. CASE c # b
    BY <1>1, <2>2 DEF Place
  <2> QED
    BY <2>1, <2>2
<1> QED
  BY <1>2 DEF Place

\* A move that Links does not tell apart is none of its steps.
LEMMA MoveUnseen ==
  ASSUME TypeOK, NEW b \in Broker, NEW to,
         at' = [at EXCEPT ![b] = to],
         UNCHANGED <<attempt, readied, cancelled, frame, connected, stream>>,
         PlaceAt(to, readied[b] = attempt[b]) = PlaceAt(at[b], readied[b] = attempt[b])
  PROVE  LinkStep
<1>1. ASSUME NEW c \in Broker
      PROVE  PlaceAt(at'[c], readied'[c] = attempt'[c]) = PlaceAt(at[c], readied[c] = attempt[c])
  <2>1. CASE c = b
    BY <2>1 DEF TypeOK
  <2>2. CASE c # b
    BY <2>2 DEF TypeOK
  <2> QED
    BY <2>1, <2>2
<1>2. UNCHANGED Place
  BY <1>1 DEF Place
<1> QED
  BY <1>2 DEF LinkStep, Link!linkVars, Link!numberVars, Link!fieldVars

\* The steps of Start (broker.go:135-217).
LEMMA StartLinks ==
  ASSUME TypeOK, Counted, NEW b \in Broker, Spawn(b) \/ StartSteps(b)
  PROVE  LinkStep
<1> USE DEF Go, ctxVars, liveVars, LinkStep, Link!LinkNext, Link!Shift, Link!numberVars,
            Link!fieldVars, Link!ContextDone, ContextDone
<1>1. CASE Spawn(b)
  <2>1. at[b] = "absent" /\ at' = [at EXCEPT ![b] = "spawned"] /\ UNCHANGED <<ctxVars, liveVars>>
    BY <1>1 DEF Spawn
  <2>2. Place[b] = "absent" /\ Place' = [Place EXCEPT ![b] = "waiting"]
    <3>1. PlaceAt("spawned", readied'[b] = attempt'[b]) = "waiting"
      BY DEF PlaceAt
    <3> QED
      BY <2>1, <3>1, PlaceMoves DEF Place, PlaceAt
  <2> QED
    BY <2>1, <2>2 DEF Link!Launch
<1>2. CASE BeginStart(b)
  <2>1. /\ at[b] \in {"spawned", "fired"} /\ at' = [at EXCEPT ![b] = "dialing"]
        /\ attempt[b] < MaxStarts /\ attempt' = [attempt EXCEPT ![b] = @ + 1]
        /\ cancelled' = [cancelled EXCEPT ![b] =
                           IF attempt[b] = 0 THEN @ ELSE @ \union {attempt[b]}]
        /\ UNCHANGED <<frame, readied, connected, stream>>
    BY <1>2 DEF BeginStart
  <2>2. Place[b] = "waiting" /\ Place' = [Place EXCEPT ![b] = "dialing"]
    <3>1. PlaceAt("dialing", readied'[b] = attempt'[b]) = "dialing"
      BY DEF PlaceAt
    <3>2. \A c \in Broker : c # b => attempt'[c] = attempt[c] /\ readied'[c] = readied[c]
      BY <2>1 DEF TypeOK
    <3>0. at' = [at EXCEPT ![b] = "dialing"]
      BY <2>1
    <3>3. Place' = [Place EXCEPT ![b] = "dialing"]
      BY ONLY TypeOK, <3>0, <3>1, <3>2, PlaceMoves, Zenon
    <3>4. PlaceAt(at[b], readied[b] = attempt[b]) = "waiting"
      BY <2>1 DEF PlaceAt
    <3> QED
      BY <3>3, <3>4 DEF Place
  <2> QED
    BY <2>1, <2>2 DEF Link!Dial
<1>3. CASE DialFails(b)
  <2>1. at[b] = "dialing" /\ at' = [at EXCEPT ![b] = "stopped"] /\ UNCHANGED <<ctxVars, liveVars>>
    BY <1>3 DEF DialFails
  <2>2. Place[b] = "dialing" /\ Place' = [Place EXCEPT ![b] = "over"]
    <3>1. PlaceAt("stopped", readied'[b] = attempt'[b]) = "over"
      BY DEF PlaceAt
    <3> QED
      BY <2>1, <3>1, PlaceMoves DEF Place, PlaceAt
  <2> QED
    BY <2>1, <2>2 DEF Link!DialFails
<1>4. CASE ChannelFails(b)
  <2>1. at[b] = "dialing" /\ at' = [at EXCEPT ![b] = "failed"] /\ UNCHANGED <<ctxVars, liveVars>>
    BY <1>4 DEF ChannelFails
  <2>2. Place[b] = "dialing" /\ Place' = [Place EXCEPT ![b] = "failed"]
    <3>1. PlaceAt("failed", readied'[b] = attempt'[b]) = "failed"
      BY DEF PlaceAt
    <3> QED
      BY <2>1, <3>1, PlaceMoves DEF Place, PlaceAt
  <2> QED
    BY <2>1, <2>2 DEF Link!DialFails
<1>5. CASE ChannelOpens(b)
  <2>1. /\ at[b] = "dialing" /\ at' = [at EXCEPT ![b] = "reading"] /\ ~ContextDone(b)
        /\ frame' = [frame EXCEPT ![b][attempt[b]] = "parked"]
        /\ UNCHANGED <<attempt, cancelled, readied, connected, stream>>
    BY <1>5 DEF ChannelOpens
  <2>2. Place[b] = "dialing" /\ Place' = [Place EXCEPT ![b] = "open"]
    <3>1. readied'[b] # attempt'[b]
      BY <2>1 DEF Counted
    <3>2. PlaceAt("reading", readied'[b] = attempt'[b]) = "open"
      BY <3>1 DEF PlaceAt
    <3>3. Place' = [Place EXCEPT ![b] = "open"]
      BY <2>1, <3>2, PlaceMoves
    <3>4. PlaceAt(at[b], readied[b] = attempt[b]) = "dialing"
      BY <2>1 DEF PlaceAt
    <3> QED
      BY <3>3, <3>4 DEF Place
  <2> QED
    BY <2>1, <2>2 DEF Link!Open
<1> QED
  BY <1>1, <1>2, <1>3, <1>4, <1>5 DEF StartSteps

\* The steps of the read loop (broker.go:160-194, 232-260).
LEMMA ReadLinks ==
  ASSUME TypeOK, Counted, Streamed, NEW b \in Broker, ReadSteps(b)
  PROVE  LinkStep
<1> USE DEF Go, ctxVars, liveVars
<1>1. CASE RecvReady(b)
  <2>1. at[b] = "reading" /\ at' = [at EXCEPT ![b] = "gotReady"] /\ UNCHANGED <<ctxVars, liveVars>>
    BY <1>1 DEF RecvReady
  <2>2. PlaceAt("gotReady", readied[b] = attempt[b]) = PlaceAt(at[b], readied[b] = attempt[b])
    BY <2>1 DEF PlaceAt
  <2> QED
    BY <2>1, <2>2, MoveUnseen
<1>2. CASE HandleReady(b)
  <2>1. /\ at[b] = "gotReady" /\ at' = [at EXCEPT ![b] = "connecting"]
        /\ connected' = [connected EXCEPT ![b] = TRUE]
        /\ stream' = [stream EXCEPT ![b] = attempt[b]]
        /\ readied' = [readied EXCEPT ![b] = attempt[b]]
        /\ UNCHANGED <<attempt, cancelled, frame>>
    BY <1>2 DEF HandleReady
  <2>2. Place[b] = "open" /\ Place' = [Place EXCEPT ![b] = "ready"]
    <3>1. readied[b] # attempt[b]
      BY <2>1 DEF Counted
    <3>2. PlaceAt(at[b], readied[b] = attempt[b]) = "open"
      BY <2>1, <3>1 DEF PlaceAt
    <3>3. PlaceAt("connecting", readied'[b] = attempt'[b]) = "ready"
      BY DEF PlaceAt
    <3>4. \A c \in Broker : c # b => attempt'[c] = attempt[c] /\ readied'[c] = readied[c]
      BY <2>1 DEF TypeOK
    <3> QED
      BY <2>1, <3>2, <3>3, <3>4, PlaceMoves DEF Place
  <2> QED
    BY <2>1, <2>2 DEF LinkStep, Link!LinkNext, Link!Ready, Link!Shift, Link!numberVars
<1>3. CASE ConnectReturns(b)
  <2>1. at[b] = "connecting" /\ at' = [at EXCEPT ![b] = "reading"] /\ UNCHANGED <<ctxVars, liveVars>>
    BY <1>3 DEF ConnectReturns
  <2>2. Place[b] = "ready" /\ Place' = [Place EXCEPT ![b] = "up"]
    <3>1. readied'[b] = attempt'[b]
      BY <2>1 DEF Streamed
    <3>2. PlaceAt("reading", readied'[b] = attempt'[b]) = "up"
      BY <3>1 DEF PlaceAt
    <3>3. Place' = [Place EXCEPT ![b] = "up"]
      BY <2>1, <3>2, PlaceMoves
    <3>4. PlaceAt(at[b], readied[b] = attempt[b]) = "ready"
      BY <2>1 DEF PlaceAt
    <3> QED
      BY <3>3, <3>4 DEF Place
  <2> QED
    BY <2>1, <2>2 DEF LinkStep, Link!LinkNext, Link!ConnectReturns, Link!Shift,
                      Link!numberVars, Link!fieldVars
<1>4. CASE RecvReset(b)
  <2>1. at[b] = "reading" /\ at' = [at EXCEPT ![b] = "acking"] /\ UNCHANGED <<ctxVars, liveVars>>
    BY <1>4 DEF RecvReset
  <2>2. PlaceAt("acking", readied[b] = attempt[b]) = PlaceAt(at[b], readied[b] = attempt[b])
    BY <2>1 DEF PlaceAt
  <2> QED
    BY <2>1, <2>2, MoveUnseen
<1>5. CASE SendAck(b)
  <2>1. PICK to \in {"panicked", "resetting"} :
          at[b] = "acking" /\ at' = [at EXCEPT ![b] = to] /\ UNCHANGED <<ctxVars, liveVars>>
    BY <1>5 DEF SendAck
  <2>2. PlaceAt(to, readied[b] = attempt[b]) = PlaceAt(at[b], readied[b] = attempt[b])
    BY <2>1 DEF PlaceAt
  <2> QED
    BY <2>1, <2>2, MoveUnseen
<1>6. CASE ResetReturns(b)
  <2>1. at[b] = "resetting" /\ at' = [at EXCEPT ![b] = "reading"] /\ UNCHANGED <<ctxVars, liveVars>>
    BY <1>6 DEF ResetReturns
  <2>2. PlaceAt("reading", readied[b] = attempt[b]) = PlaceAt(at[b], readied[b] = attempt[b])
    BY <2>1 DEF PlaceAt
  <2> QED
    BY <2>1, <2>2, MoveUnseen
<1>7. CASE RecvError(b)
  <2>1. PICK to \in {"ending", "failed"} :
          at[b] = "reading" /\ at' = [at EXCEPT ![b] = to] /\ UNCHANGED <<ctxVars, liveVars>>
    BY <1>7 DEF RecvError
  <2>2. Place[b] \in {"open", "up"} /\ Place' = [Place EXCEPT ![b] = to]
    <3>1. PlaceAt(to, readied'[b] = attempt'[b]) = to
      BY <2>1 DEF PlaceAt
    <3>2. PlaceAt(at[b], readied[b] = attempt[b]) \in {"open", "up"}
      BY <2>1 DEF PlaceAt
    <3> QED
      BY <2>1, <3>1, <3>2, PlaceMoves DEF Place
  <2> QED
    BY <2>1, <2>2 DEF LinkStep, Link!LinkNext, Link!Drop, Link!Shift,
                      Link!numberVars, Link!fieldVars
<1>8. CASE End(b)
  <2>1. /\ at[b] = "ending" /\ at' = [at EXCEPT ![b] = "stopped"]
        /\ cancelled' = [cancelled EXCEPT ![b] =
                           IF frame[b][attempt[b]] = "none" THEN @
                           ELSE @ \union {attempt[b]}]
        /\ UNCHANGED <<attempt, frame, liveVars>>
    BY <1>8 DEF End
  <2>2. Place[b] = "ending" /\ Place' = [Place EXCEPT ![b] = "over"]
    <3>1. PlaceAt("stopped", readied'[b] = attempt'[b]) = "over"
      BY DEF PlaceAt
    <3> QED
      BY <2>1, <3>1, PlaceMoves DEF Place, PlaceAt
  <2> QED
    BY <2>1, <2>2 DEF LinkStep, Link!LinkNext, Link!End, Link!Shift, Link!fieldVars
<1> QED
  BY <1>1, <1>2, <1>3, <1>4, <1>5, <1>6, <1>7, <1>8 DEF ReadSteps

\* The steps of restart (broker.go:264-300).
LEMMA RestartLinks ==
  ASSUME TypeOK, NEW b \in Broker, RestartSteps(b)
  PROVE  LinkStep
<1>1. UNCHANGED <<attempt, cancelled, frame, readied, connected, stream>>
  BY DEF RestartSteps, RestartBelowMax, RestartAtMax, OverstayReturns, CheckContext,
         TimerFires, WaitCancelled, ctxVars, liveVars
<1>2. ASSUME NEW from \in {"failed", "overstaying", "checking"}, Go(b, from, "ending")
      PROVE  LinkStep
  <2>1. Place[b] = "failed" /\ Place' = [Place EXCEPT ![b] = "ending"]
    <3>1. PlaceAt("ending", readied'[b] = attempt'[b]) = "ending"
      BY DEF PlaceAt
    <3> QED
      BY <1>1, <1>2, <3>1, PlaceMoves DEF Go, Place, PlaceAt
  <2> QED
    BY <1>1, <2>1 DEF LinkStep, Link!LinkNext, Link!GiveUp, Link!Shift,
                      Link!numberVars, Link!fieldVars
<1>3. ASSUME NEW from \in {"failed", "overstaying"}, NEW to \in {"overstaying", "checking"},
             Go(b, from, to)
      PROVE  LinkStep
  <2>1. PlaceAt(to, readied[b] = attempt[b]) = PlaceAt(at[b], readied[b] = attempt[b])
    BY <1>3 DEF Go, PlaceAt
  <2> QED
    BY <1>1, <1>3, <2>1, MoveUnseen DEF Go
<1>4. CASE RestartBelowMax(b)
  BY <1>3, <1>4 DEF RestartBelowMax
<1>5. CASE RestartAtMax(b)
  BY <1>2, <1>3, <1>5 DEF RestartAtMax
<1>6. ASSUME NEW handled \in BOOLEAN, OverstayReturns(b, handled)
      PROVE  LinkStep
  BY <1>2, <1>3, <1>6 DEF OverstayReturns
<1>7. CASE CheckContext(b)
  <2>1. CASE Go(b, "checking", "ending")
    BY <1>2, <2>1
  <2>2. CASE Go(b, "checking", "waiting") /\ ~ContextDone(b)
    <3>1. Place[b] = "failed" /\ Place' = [Place EXCEPT ![b] = "waiting"]
      <4>1. PlaceAt("waiting", readied'[b] = attempt'[b]) = "waiting"
        BY DEF PlaceAt
      <4> QED
        BY <1>1, <2>2, <4>1, PlaceMoves DEF Go, Place, PlaceAt
    <3> QED
      BY <1>1, <2>2, <3>1 DEF ContextDone, LinkStep, Link!LinkNext, Link!Retry, Link!Shift,
                              Link!ContextDone, Link!numberVars, Link!fieldVars
  <2> QED
    BY <1>7, <2>1, <2>2 DEF CheckContext
<1>8. CASE TimerFires(b)
  <2>1. PlaceAt("fired", readied[b] = attempt[b]) = PlaceAt(at[b], readied[b] = attempt[b])
    BY <1>8 DEF TimerFires, Go, PlaceAt
  <2> QED
    BY <1>1, <1>8, <2>1, MoveUnseen DEF TimerFires, Go
<1>9. CASE WaitCancelled(b)
  <2>1. Place[b] = "waiting" /\ Place' = [Place EXCEPT ![b] = "ending"]
    <3>1. PlaceAt("ending", readied'[b] = attempt'[b]) = "ending"
      BY DEF PlaceAt
    <3> QED
      BY <1>1, <1>9, <3>1, PlaceMoves DEF WaitCancelled, Go, Place, PlaceAt
  <2> QED
    BY <1>1, <1>9, <2>1 DEF WaitCancelled, ContextDone, LinkStep, Link!LinkNext, Link!GiveUp,
                            Link!Shift, Link!ContextDone, Link!numberVars, Link!fieldVars
<1> QED
  BY <1>4, <1>5, <1>6, <1>7, <1>8, <1>9 DEF RestartSteps

\* The steps of the parked frames, and Done (broker.go:111-118, 209-216).
LEMMA FrameLinks ==
  ASSUME TypeOK, NEW b \in Broker, Done(b) \/ FrameSteps(b)
  PROVE  LinkStep
<1>1. UNCHANGED <<at, attempt, readied>> /\ UNCHANGED Place
  BY DEF Done, FrameSteps, Cleanup, DisconnectReturns, liveVars, Place
<1>2. Unlocked(b) => Link!Unlocked(b)
  BY DEF Unlocked, Link!Unlocked, Place, PlaceAt
<1>3. CASE Done(b)
  BY <1>1, <1>2, <1>3 DEF Done, liveVars, LinkStep, Link!LinkNext, Link!Cancel, Link!fieldVars
<1>4. ASSUME NEW n \in Attempts, Cleanup(b, n)
      PROVE  LinkStep
  BY <1>1, <1>2, <1>4 DEF Cleanup, LinkStep, Link!LinkNext, Link!Cleanup, Link!numberVars,
                          Link!Attempts, Attempts
<1>5. ASSUME NEW n \in Attempts, DisconnectReturns(b, n)
      PROVE  LinkStep
  BY <1>1, <1>5 DEF DisconnectReturns, liveVars, LinkStep, Link!LinkNext,
                    Link!DisconnectReturns, Link!numberVars, Link!fieldVars,
                    Link!Attempts, Attempts
<1> QED
  BY <1>3, <1>4, <1>5 DEF FrameSteps

\* Whatever the delays, the resets and the overstay attempts are, what Send and
\* the online list see of an object goes by Links (broker.go:111-300).
THEOREM ConnBehavesAsLink == Spec => BehavesAsLink
<1>1. Init => Link!LinkInit
  BY DEF Init, Link!LinkInit, Link!Attempts, Attempts, Place, PlaceAt
<1>2. TypeOK /\ Counted /\ Streamed /\ [Next]_vars => [Link!LinkNext]_(Link!linkVars)
  <2> SUFFICES ASSUME TypeOK, Counted, Streamed, [Next]_vars
               PROVE  LinkStep
    BY DEF LinkStep
  <2>1. CASE UNCHANGED vars
    BY <2>1 DEF vars, ctxVars, liveVars, LinkStep, Link!linkVars, Link!numberVars,
                Link!fieldVars, Place
  <2> QED
    BY <2>1, StartLinks, ReadLinks, RestartLinks, FrameLinks DEF Next
<1> QED
  BY <1>1, <1>2, TypeCorrect, StreamedInvariant, PTL
     DEF Spec, BehavesAsLink, Link!LinkSpec
==============================================================================
