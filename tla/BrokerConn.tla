----------------------------- MODULE BrokerConn -----------------------------
(***************************************************************************)
(* The life of Broker objects (broker/broker.go): the goroutines that      *)
(* Start, the read loop and restart run for one object, and what they do   *)
(* to the fields that b.rw guards.                                         *)
(*                                                                         *)
(* One object has one "driver", the goroutine that runs the latest call of *)
(* Start up to the stream, then that stream's read loop, then restart and  *)
(* the nested Start; `at' is where it stands.  Every call of Start whose   *)
(* stream opened also leaves behind its own frame, parked on <-ctx.Done()  *)
(* (line 209); `frame' follows those.  The n-th call of Start, its context *)
(* and its stream share the number n.                                      *)
(*                                                                         *)
(* The client's callbacks (ConnectFunc, ResetFunc, OwerstayingFunc and     *)
(* DisconnectFunc) are calls that return at some later step; the server is *)
(* free, except that on a stream "_.ready" comes once and before any       *)
(* "_.reset".                                                              *)
(***************************************************************************)
EXTENDS Backoff, FiniteSets

CONSTANTS
  Broker,           \* Broker objects (heap objects, not broker IDs)
  overstayAttempts, \* broker.go:57, 2 in the source
  MaxStarts         \* bound on the calls of Start for one object

ASSUME ConnAssumption ==
  /\ overstayAttempts \in Nat
  /\ MaxStarts \in Nat

VARIABLES
  at,            \* where the driver of each object stands
  attempt,       \* number of calls of Start; the current context is its last
  cancelled,     \* numbers of the cancelled contexts
  frame,         \* frame[b][n]: the frame of the n-th Start of b
  readied,       \* number of the last stream whose "_.ready" was handled, or 0
  connected,     \* Broker.connected
  stream,        \* Broker.stream: number of the stream it points to, 0 for nil
  done,          \* Broker.done
  duration,      \* Broker.duration, in seconds
  overstayCount  \* Broker.overstayCount

ctxVars == <<attempt, cancelled, frame>>
liveVars == <<readied, connected, stream>>
backoffVars == <<duration, overstayCount>>
vars == <<at, ctxVars, liveVars, done, backoffVars>>

Points == {"absent", "spawned", "dialing", "reading", "gotReady", "connecting",
           "acking", "resetting", "failed", "overstaying", "checking",
           "waiting", "fired", "ending", "stopped", "panicked"}
Frames == {"none", "parked", "leaving", "gone"}
Attempts == 1 .. MaxStarts

TypeOK ==
  /\ at \in [Broker -> Points]
  /\ attempt \in [Broker -> 0 .. MaxStarts]
  /\ cancelled \in [Broker -> SUBSET Attempts]
  /\ frame \in [Broker -> [Attempts -> Frames]]
  /\ readied \in [Broker -> 0 .. MaxStarts]
  /\ connected \in [Broker -> BOOLEAN]
  /\ stream \in [Broker -> 0 .. MaxStarts]
  /\ done \in [Broker -> BOOLEAN]
  /\ duration \in [Broker -> 0 .. durationMax]
  /\ overstayCount \in [Broker -> 0 .. overstayAttempts + 1]

Init ==
  /\ at = [b \in Broker |-> "absent"]
  /\ attempt = [b \in Broker |-> 0]
  /\ cancelled = [b \in Broker |-> {}]
  /\ frame = [b \in Broker |-> [n \in Attempts |-> "none"]]
  /\ readied = [b \in Broker |-> 0]
  /\ connected = [b \in Broker |-> FALSE]
  /\ stream = [b \in Broker |-> 0]
  /\ done = [b \in Broker |-> FALSE]
  /\ duration = [b \in Broker |-> 0]
  /\ overstayCount = [b \in Broker |-> 0]

\* A panic in one goroutine ends the process: nothing runs after it.
Crashed == \E b \in Broker : at[b] = "panicked"

\* The driver of b moves from one program point to another.
Go(b, from, to) == ~Crashed /\ at[b] = from /\ at' = [at EXCEPT ![b] = to]

\* b.rw is write-locked across a callback only by the "_.ready" handler; every
\* other critical section on it is one action.
Unlocked(b) == at[b] # "connecting"

\* The context of the latest Start of b has been cancelled.
ContextDone(b) == attempt[b] \in cancelled[b]

------------------------------------------------------------------------------
(* Start                                                                     *)

\* go bk.Start(): the client has created the object and scheduled its Start.
Spawn(b) ==
  /\ Go(b, "absent", "spawned")
  /\ UNCHANGED <<ctxVars, liveVars, done, backoffVars>>

\* A faulty variant: Start forgets to cancel the context it replaces.
BeginStart_KeepsOldContext(b) ==
  /\ \E from \in {"spawned", "fired"} : Go(b, from, "dialing")
  /\ attempt[b] < MaxStarts
  /\ attempt' = [attempt EXCEPT ![b] = @ + 1]
  /\ UNCHANGED <<cancelled, frame, liveVars, done, backoffVars>>

\* The first critical section of Start: cancel the previous context, if there
\* is one, and install a new one.  It looks at neither the old context's state
\* nor done.
BeginStart(b) ==
  /\ \E from \in {"spawned", "fired"} : Go(b, from, "dialing")
  /\ attempt[b] < MaxStarts
  /\ attempt' = [attempt EXCEPT ![b] = @ + 1]
  /\ cancelled' = [cancelled EXCEPT ![b] =
                     IF attempt[b] = 0 THEN @ ELSE @ \union {attempt[b]}]
  /\ UNCHANGED <<frame, liveVars, done, backoffVars>>

\* b.client() fails (certificate, address): Start returns and nobody retries.
DialFails(b) ==
  /\ Go(b, "dialing", "stopped")
  /\ UNCHANGED <<ctxVars, liveVars, done, backoffVars>>

\* cli.Channel(ctx) fails: Start calls restart itself.
ChannelFails(b) ==
  /\ Go(b, "dialing", "failed")
  /\ UNCHANGED <<ctxVars, liveVars, done, backoffVars>>

\* The stream opens: the read loop takes over as driver, Start parks.
ChannelOpens(b) ==
  /\ Go(b, "dialing", "reading")
  /\ ~ContextDone(b)
  /\ frame' = [frame EXCEPT ![b][attempt[b]] = "parked"]
  /\ UNCHANGED <<attempt, cancelled, liveVars, done, backoffVars>>

\* A faulty variant: Start clears the stream and leaves connected set.
Cleanup_StaysConnected(b, n) ==
  /\ ~Crashed
  /\ frame[b][n] = "parked"
  /\ n \in cancelled[b]
  /\ Unlocked(b)
  /\ frame' = [frame EXCEPT ![b][n] = "leaving"]
  /\ stream' = [stream EXCEPT ![b] = 0]
  /\ UNCHANGED <<at, attempt, cancelled, readied, connected, done, backoffVars>>

\* Lines 209-214: the n-th context is done and its Start clears the fields of
\* the object, whichever stream they describe by now.
Cleanup(b, n) ==
  /\ ~Crashed
  /\ frame[b][n] = "parked"
  /\ n \in cancelled[b]
  /\ Unlocked(b)
  /\ frame' = [frame EXCEPT ![b][n] = "leaving"]
  /\ connected' = [connected EXCEPT ![b] = FALSE]
  /\ stream' = [stream EXCEPT ![b] = 0]
  /\ UNCHANGED <<at, attempt, cancelled, readied, done, backoffVars>>

\* DisconnectFunc returns to the n-th Start.
DisconnectReturns(b, n) ==
  /\ ~Crashed
  /\ frame[b][n] = "leaving"
  /\ frame' = [frame EXCEPT ![b][n] = "gone"]
  /\ UNCHANGED <<at, attempt, cancelled, liveVars, done, backoffVars>>

\* Broker.Done, called by anyone: cancels the current context, if there is one.
Done(b) ==
  /\ ~Crashed
  /\ Unlocked(b)
  /\ cancelled' = [cancelled EXCEPT ![b] =
                     IF attempt[b] = 0 THEN @ ELSE @ \union {attempt[b]}]
  /\ UNCHANGED <<at, attempt, frame, liveVars, done, backoffVars>>

------------------------------------------------------------------------------
(* The read loop                                                             *)

\* stream.Recv returns "_.ready"; b.rw is not taken yet.  What has arrived is
\* delivered even when the context is cancelled meanwhile: gRPC reports the
\* cancellation only after the messages it holds.
RecvReady(b) ==
  /\ Go(b, "reading", "gotReady")
  /\ readied[b] # attempt[b]
  /\ UNCHANGED <<ctxVars, liveVars, done, backoffVars>>

\* A faulty variant: the handler publishes its stream only when there is none.
HandleReady_KeepsStream(b) ==
  /\ Go(b, "gotReady", "connecting")
  /\ duration' = [duration EXCEPT ![b] = 0]
  /\ overstayCount' = [overstayCount EXCEPT ![b] = 0]
  /\ connected' = [connected EXCEPT ![b] = TRUE]
  /\ stream' = [stream EXCEPT ![b] = IF @ = 0 THEN attempt[b] ELSE @]
  /\ readied' = [readied EXCEPT ![b] = attempt[b]]
  /\ UNCHANGED <<ctxVars, done>>

\* The "_.ready" handler takes b.rw, resets the backoff, publishes its stream
\* and calls ConnectFunc with b.rw held.
HandleReady(b) ==
  /\ Go(b, "gotReady", "connecting")
  /\ duration' = [duration EXCEPT ![b] = 0]
  /\ overstayCount' = [overstayCount EXCEPT ![b] = 0]
  /\ connected' = [connected EXCEPT ![b] = TRUE]
  /\ stream' = [stream EXCEPT ![b] = attempt[b]]
  /\ readied' = [readied EXCEPT ![b] = attempt[b]]
  /\ UNCHANGED <<ctxVars, done>>

\* ConnectFunc returns and b.rw is released.
ConnectReturns(b) ==
  /\ Go(b, "connecting", "reading")
  /\ UNCHANGED <<ctxVars, liveVars, done, backoffVars>>

\* "_.reset" arrives: done is set under b.rw.
RecvReset(b) ==
  /\ Go(b, "reading", "acking")
  /\ readied[b] = attempt[b]
  /\ done' = [done EXCEPT ![b] = TRUE]
  /\ UNCHANGED <<ctxVars, liveVars, backoffVars>>

\* b.stream.Send of "_.reset.success", without b.rw; a nil stream panics.
SendAck(b) ==
  /\ Go(b, "acking", IF stream[b] = 0 THEN "panicked" ELSE "resetting")
  /\ UNCHANGED <<ctxVars, liveVars, done, backoffVars>>

\* ResetFunc returns.
ResetReturns(b) ==
  /\ Go(b, "resetting", "reading")
  /\ UNCHANGED <<ctxVars, liveVars, done, backoffVars>>

\* stream.Recv fails.  On InvalidArgument and Unauthenticated handleError only
\* logs; on any other code, a cancelled context's included, it calls restart.
RecvError(b) ==
  /\ \E to \in {"ending", "failed"} : Go(b, "reading", to)
  /\ UNCHANGED <<ctxVars, liveVars, done, backoffVars>>

\* The driver has nothing left to do: a read loop cancels its own context on
\* the way out, a Start that never had a stream does not.
End(b) ==
  /\ Go(b, "ending", "stopped")
  /\ cancelled' = [cancelled EXCEPT ![b] =
                     IF frame[b][attempt[b]] = "none" THEN @
                     ELSE @ \union {attempt[b]}]
  /\ UNCHANGED <<attempt, frame, liveVars, done, backoffVars>>

------------------------------------------------------------------------------
(* restart                                                                   *)

\* Below the longest delay restart goes on to look at the context.
RestartBelowMax(b) ==
  /\ Go(b, "failed", "checking")
  /\ duration[b] # durationMax
  /\ UNCHANGED <<ctxVars, liveVars, done, backoffVars>>

\* A faulty variant: the limit is compared before the count goes up.
RestartAtMax_CountsLate(b) ==
  /\ duration[b] = durationMax
  /\ overstayCount' = [overstayCount EXCEPT ![b] = @ + 1]
  /\ Go(b, "failed", IF overstayCount[b] > overstayAttempts
                       THEN "ending" ELSE "overstaying")
  /\ UNCHANGED <<ctxVars, liveVars, done, duration>>

\* At the longest delay it counts, and either gives up or asks the client.
RestartAtMax(b) ==
  /\ duration[b] = durationMax
  /\ overstayCount' = [overstayCount EXCEPT ![b] = @ + 1]
  /\ Go(b, "failed", IF overstayCount[b] + 1 > overstayAttempts
                       THEN "ending" ELSE "overstaying")
  /\ UNCHANGED <<ctxVars, liveVars, done, duration>>

\* OwerstayingFunc returns; when it answers TRUE the client has taken over.
OverstayReturns(b, handled) ==
  /\ Go(b, "overstaying", IF handled THEN "ending" ELSE "checking")
  /\ UNCHANGED <<ctxVars, liveVars, done, backoffVars>>

\* A faulty variant: restart looks at the context and forgets done.
CheckContext_IgnoresDone(b) ==
  LET skip == ContextDone(b) IN
  /\ Go(b, "checking", IF skip THEN "ending" ELSE "waiting")
  /\ duration' = IF skip THEN duration
                 ELSE [duration EXCEPT ![b] = fibo(duration[b])]
  /\ UNCHANGED <<ctxVars, liveVars, done, overstayCount>>

\* A faulty variant: the delay is computed for the timer and not kept.
CheckContext_KeepsDelay(b) ==
  LET skip == ContextDone(b) \/ done[b] IN
  /\ Go(b, "checking", IF skip THEN "ending" ELSE "waiting")
  /\ UNCHANGED <<ctxVars, liveVars, done, backoffVars>>

\* Lines 277-290: no reconnect on a dead context or a broker that is done;
\* otherwise the next delay and its timer.
CheckContext(b) ==
  LET skip == ContextDone(b) \/ done[b] IN
  /\ Go(b, "checking", IF skip THEN "ending" ELSE "waiting")
  /\ duration' = IF skip THEN duration
                 ELSE [duration EXCEPT ![b] = fibo(duration[b])]
  /\ UNCHANGED <<ctxVars, liveVars, done, overstayCount>>

\* The timer's case of the select; Go takes either case when both are ready.
TimerFires(b) ==
  /\ Go(b, "waiting", "fired")
  /\ UNCHANGED <<ctxVars, liveVars, done, backoffVars>>

\* The context's case of the select.
WaitCancelled(b) ==
  /\ Go(b, "waiting", "ending")
  /\ ContextDone(b)
  /\ UNCHANGED <<ctxVars, liveVars, done, backoffVars>>

------------------------------------------------------------------------------
StartSteps(b) ==
  \/ BeginStart(b) \/ DialFails(b) \/ ChannelFails(b) \/ ChannelOpens(b)

ReadSteps(b) ==
  \/ RecvReady(b) \/ HandleReady(b) \/ ConnectReturns(b)
  \/ RecvReset(b) \/ SendAck(b) \/ ResetReturns(b)
  \/ RecvError(b) \/ End(b)

RestartSteps(b) ==
  \/ RestartBelowMax(b) \/ RestartAtMax(b)
  \/ \E handled \in BOOLEAN : OverstayReturns(b, handled)
  \/ CheckContext(b) \/ TimerFires(b) \/ WaitCancelled(b)

FrameSteps(b) ==
  \E n \in Attempts : Cleanup(b, n) \/ DisconnectReturns(b, n)

Next ==
  \E b \in Broker :
    \/ Spawn(b) \/ Done(b)
    \/ StartSteps(b) \/ ReadSteps(b) \/ RestartSteps(b) \/ FrameSteps(b)

Spec == Init /\ [][Next]_vars

\* Every goroutine of an object keeps running, and a cancelled stream makes Recv
\* fail once the messages it holds are delivered, hence SF.  The server owes
\* nothing, and no callback has to return: those of the client wait for locks
\* and channels that may never be free (Client).
Fairness ==
  \A b \in Broker :
    /\ WF_vars(BeginStart(b))
    /\ WF_vars(ChannelFails(b) \/ ChannelOpens(b) \/ DialFails(b))
    /\ WF_vars(HandleReady(b))
    /\ WF_vars(SendAck(b))
    /\ SF_vars(ContextDone(b) /\ RecvError(b))
    /\ WF_vars(End(b))
    /\ WF_vars(RestartBelowMax(b) \/ RestartAtMax(b))
    /\ WF_vars(CheckContext(b))
    /\ WF_vars(TimerFires(b) \/ WaitCancelled(b))
    /\ \A n \in Attempts : WF_vars(Cleanup(b, n))

FairSpec == Spec /\ Fairness

------------------------------------------------------------------------------
(* Properties                                                                *)

\* Only the context of the latest Start can be live: no earlier connection of
\* the object survives a reconnect (broker.go:139-142).
OneLiveContext ==
  \A b \in Broker : \A n \in Attempts : n < attempt[b] => n \in cancelled[b]

\* Send uses b.stream whenever connected is set (broker.go:125-132): it is never
\* nil then and, unless its context is already cancelled, the Start that will
\* clear it is still parked.
StreamIsOwned ==
  \A b \in Broker :
    connected[b] => /\ stream[b] \in Attempts
                    /\ \/ stream[b] \in cancelled[b]
                       \/ frame[b][stream[b]] = "parked"

\* However an outage interleaves with cancellations and resets, an object calls
\* Start at most once per delay, once more for each overstay attempt and once
\* for the first connection, before a broker is ready again (broker.go:264-300).
Budget == Cardinality(Delays) + overstayAttempts + 1
RetryBudget == \A b \in Broker : attempt[b] - readied[b] <= Budget

\* The acknowledgement of a reset never goes out on the stream of an earlier
\* connection, although it reads b.stream without the lock (broker.go:238).
AckOnOwnStream ==
  \A b \in Broker : at[b] = "acking" => stream[b] \in {0, attempt[b]}

\* Once a broker has asked for a reset its object never connects again
\* (broker.go:234, 280).
NoStartAfterReset ==
  [][\A b \in Broker : done[b] => attempt'[b] = attempt[b]]_vars

\* A connection that a later Start has replaced is torn down: its Start clears up
\* and calls DisconnectFunc, unless a ConnectFunc keeps b.rw for ever
\* (broker.go:177-183, 209-216).
SupersededIsLeft ==
  \A b \in Broker : \A n \in Attempts :
    (frame[b][n] = "parked" /\ n < attempt[b])
      ~> (frame[b][n] # "parked" \/ Crashed \/ [](at[b] = "connecting"))

\* After a reset has been seen and the context is cancelled, every goroutine of
\* the object ends, unless a callback of the client never returns to one of them
\* (broker.go:111-118, 209-217, 277-283).
Quiet(b) ==
  /\ at[b] = "stopped"
  /\ \A n \in Attempts : frame[b][n] \in {"none", "gone"}
InCallback(b) ==
  \/ at[b] \in {"connecting", "resetting", "overstaying"}
  \/ \E n \in Attempts : frame[b][n] = "leaving"
ShutdownCompletes ==
  \A b \in Broker : (done[b] /\ ContextDone(b)) ~> (Quiet(b) \/ Crashed \/ []InCallback(b))

------------------------------------------------------------------------------
(* The inductive invariant behind the safety properties                      *)

\* The driver's place against the numbers: a Start has run once it has left the
\* first two points, and restart goes on only within the overstay limit.
Counted ==
  \A b \in Broker :
    /\ at[b] \in {"absent", "spawned"} <=> attempt[b] = 0
    /\ readied[b] <= attempt[b]
    /\ at[b] \in {"dialing", "gotReady"} => readied[b] # attempt[b]
    /\ at[b] \notin {"ending", "stopped", "panicked"} =>
         overstayCount[b] <= overstayAttempts

\* A read loop runs on a stream whose Start has a frame, a frame leaves only
\* when its context is cancelled, and while no newer Start has begun, the
\* stream published last is the current one or has been cleared.
Streamed ==
  \A b \in Broker :
    /\ at[b] \in {"reading", "gotReady", "connecting", "acking", "resetting"} =>
         frame[b][attempt[b]] # "none"
    /\ \A n \in Attempts : frame[b][n] \in {"leaving", "gone"} => n \in cancelled[b]
    /\ at[b] \in {"connecting", "acking", "resetting"} => readied[b] = attempt[b]
    /\ readied[b] = attempt[b] => stream[b] \in {0, attempt[b]}

\* A broker that has asked for a reset is not on its way to another Start.
Resting ==
  \A b \in Broker :
    done[b] => at[b] \notin {"absent", "spawned", "dialing", "waiting", "fired"}

\* Each Start since the last "_.ready" has been paid for by a longer delay or a
\* count at the longest one; one more is paid for when the driver is on its way
\* to the next Start.
Rank(d) == Cardinality({x \in Delays : x <= d})
Paid(b) == Rank(duration[b]) + overstayCount[b]
Ahead(b) ==
  \/ at[b] \in {"absent", "spawned", "waiting", "fired"}
  \/ at[b] \in {"overstaying", "checking"} /\ duration[b] = durationMax
Paying ==
  \A b \in Broker :
    IF at[b] \in {"ending", "stopped", "panicked"}
    THEN attempt[b] - readied[b] <= Budget
    ELSE attempt[b] - readied[b] <= Paid(b) + (IF Ahead(b) THEN 0 ELSE 1)

\* Everything restart, Start and the read loop keep between their steps.
ConnInv ==
  /\ TypeOK /\ Counted
  /\ OneLiveContext /\ StreamIsOwned /\ Streamed
  /\ Resting
  /\ Paying

------------------------------------------------------------------------------
(* The abstract specification                                                *)

PhaseAt(point, isReady) ==
  CASE point \in {"absent", "spawned"} -> "idle"
    [] point \in {"failed", "overstaying", "checking", "waiting", "fired"} -> "down"
    [] point \in {"ending", "stopped", "panicked"} -> "over"
    [] OTHER -> IF isReady THEN "up" ELSE "trying"

Phase == [b \in Broker |-> PhaseAt(at[b], readied[b] = attempt[b])]
Tries == [b \in Broker |-> attempt[b] - readied[b]]

Policy == INSTANCE ReconnectPolicy WITH
  phase <- Phase, tries <- Tries, retired <- done

\* The goroutines of Start, the read loop and restart together implement the
\* reconnect policy (broker.go:135-300).
FollowsPolicy == Policy!PolicySpec

\* What is left of an object's place for those who only see Links.
PlaceAt(point, isReady) ==
  CASE point = "absent" -> "absent"
    [] point \in {"spawned", "waiting", "fired"} -> "waiting"
    [] point = "dialing" -> "dialing"
    [] point = "connecting" -> "ready"
    [] point \in {"failed", "overstaying", "checking"} -> "failed"
    [] point = "ending" -> "ending"
    [] point = "stopped" -> "over"
    [] OTHER -> IF isReady THEN "up" ELSE "open"

Place == [b \in Broker |-> PlaceAt(at[b], readied[b] = attempt[b])]

Link == INSTANCE Links WITH link <- Place

\* The part of an object that Send and the online list depend on goes by Links,
\* whatever the delays, the resets and the overstay attempts are
\* (broker.go:111-300).
BehavesAsLink == Link!LinkSpec
==============================================================================
