-------------------------------- MODULE Links --------------------------------
(***************************************************************************)
(* What the rest of the client sees of Broker objects (broker/broker.go):  *)
(* the fields that Send reads, when ConnectFunc and DisconnectFunc are     *)
(* called, and which contexts are cancelled.  Delays, counts and resets    *)
(* are left out: an object may try again or give up whenever its context   *)
(* lets it.  BrokerConn implements this module; Dispatch is built on it.   *)
(***************************************************************************)
EXTENDS Integers

CONSTANTS
  Broker,     \* Broker objects
  MaxStarts   \* bound on the calls of Start for one object

VARIABLES
  link,       \* how far each object is with its latest connection
  attempt,    \* number of calls of Start
  cancelled,  \* numbers of the cancelled contexts
  frame,      \* frame[b][n]: the n-th Start of b, parked on its context
  connected,  \* Broker.connected
  stream      \* Broker.stream: the number of its Start, 0 for nil

numberVars == <<attempt, cancelled>>
fieldVars == <<connected, stream>>
linkVars == <<link, numberVars, frame, fieldVars>>

\* "ready": the "_.ready" handler holds b.rw and has called ConnectFunc.
\* "failed": the connection is lost; "waiting": the next Start is due.
Places == {"absent", "waiting", "dialing", "open", "ready", "up", "failed",
           "ending", "over"}
Frames == {"none", "parked", "leaving", "gone"}
Attempts == 1 .. MaxStarts

LinkTypes ==
  /\ link \in [Broker -> Places]
  /\ attempt \in [Broker -> 0 .. MaxStarts]
  /\ cancelled \in [Broker -> SUBSET Attempts]
  /\ frame \in [Broker -> [Attempts -> Frames]]
  /\ connected \in [Broker -> BOOLEAN]
  /\ stream \in [Broker -> 0 .. MaxStarts]

LinkInit ==
  /\ link = [b \in Broker |-> "absent"]
  /\ attempt = [b \in Broker |-> 0]
  /\ cancelled = [b \in Broker |-> {}]
  /\ frame = [b \in Broker |-> [n \in Attempts |-> "none"]]
  /\ connected = [b \in Broker |-> FALSE]
  /\ stream = [b \in Broker |-> 0]

Shift(b, from, to) == link[b] = from /\ link' = [link EXCEPT ![b] = to]
Unlocked(b) == link[b] # "ready"
ContextDone(b) == attempt[b] \in cancelled[b]

Launch(b) == Shift(b, "absent", "waiting") /\ UNCHANGED <<numberVars, frame, fieldVars>>

\* Start cancels the context it replaces, whatever became of that one.
Dial(b) ==
  /\ Shift(b, "waiting", "dialing")
  /\ attempt[b] < MaxStarts
  /\ attempt' = [attempt EXCEPT ![b] = @ + 1]
  /\ cancelled' = [cancelled EXCEPT ![b] =
                     IF attempt[b] = 0 THEN @ ELSE @ \union {attempt[b]}]
  /\ UNCHANGED <<frame, fieldVars>>

DialFails(b) ==
  /\ \E to \in {"failed", "over"} : Shift(b, "dialing", to)
  /\ UNCHANGED <<numberVars, frame, fieldVars>>

Open(b) ==
  /\ Shift(b, "dialing", "open")
  /\ ~ContextDone(b)
  /\ frame' = [frame EXCEPT ![b][attempt[b]] = "parked"]
  /\ UNCHANGED <<numberVars, fieldVars>>

\* "_.ready" is handled, even if the context is cancelled and its Start has left.
Ready(b) ==
  /\ Shift(b, "open", "ready")
  /\ connected' = [connected EXCEPT ![b] = TRUE]
  /\ stream' = [stream EXCEPT ![b] = attempt[b]]
  /\ UNCHANGED <<numberVars, frame>>

ConnectReturns(b) == Shift(b, "ready", "up") /\ UNCHANGED <<numberVars, frame, fieldVars>>

\* Recv fails; the fields still describe the stream.
Drop(b) ==
  /\ \E from \in {"open", "up"}, to \in {"failed", "ending"} : Shift(b, from, to)
  /\ UNCHANGED <<numberVars, frame, fieldVars>>

Retry(b) ==
  /\ Shift(b, "failed", "waiting")
  /\ ~ContextDone(b)
  /\ UNCHANGED <<numberVars, frame, fieldVars>>

GiveUp(b) ==
  /\ Shift(b, "failed", "ending") \/ (ContextDone(b) /\ Shift(b, "waiting", "ending"))
  /\ UNCHANGED <<numberVars, frame, fieldVars>>

\* A read loop cancels its own context on the way out.
End(b) ==
  /\ Shift(b, "ending", "over")
  /\ cancelled' = [cancelled EXCEPT ![b] =
                     IF frame[b][attempt[b]] = "none" THEN @ ELSE @ \union {attempt[b]}]
  /\ UNCHANGED <<attempt, frame, fieldVars>>

\* Broker.Done, called by anyone.
Cancel(b) ==
  /\ Unlocked(b)
  /\ cancelled' = [cancelled EXCEPT ![b] =
                     IF attempt[b] = 0 THEN @ ELSE @ \union {attempt[b]}]
  /\ UNCHANGED <<link, attempt, frame, fieldVars>>

\* The n-th Start clears the fields, whichever stream they describe by then, and
\* calls DisconnectFunc.
Cleanup(b, n) ==
  /\ frame[b][n] = "parked" /\ n \in cancelled[b] /\ Unlocked(b)
  /\ frame' = [frame EXCEPT ![b][n] = "leaving"]
  /\ connected' = [connected EXCEPT ![b] = FALSE]
  /\ stream' = [stream EXCEPT ![b] = 0]
  /\ UNCHANGED <<link, numberVars>>

DisconnectReturns(b, n) ==
  /\ frame[b][n] = "leaving"
  /\ frame' = [frame EXCEPT ![b][n] = "gone"]
  /\ UNCHANGED <<link, numberVars, fieldVars>>

LinkNext ==
  \E b \in Broker :
    \/ Launch(b) \/ Dial(b) \/ DialFails(b) \/ Open(b)
    \/ Ready(b) \/ ConnectReturns(b)
    \/ Drop(b) \/ Retry(b) \/ GiveUp(b) \/ End(b) \/ Cancel(b)
    \/ \E n \in Attempts : Cleanup(b, n) \/ DisconnectReturns(b, n)

LinkSpec == LinkInit /\ [][LinkNext]_linkVars
==============================================================================
