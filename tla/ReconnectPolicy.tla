--------------------------- MODULE ReconnectPolicy ---------------------------
(***************************************************************************)
(* What the reconnect logic of broker/broker.go promises of one Broker     *)
(* object, with no goroutines, contexts, timers or counters of the code:   *)
(* how often it may try before it is up again, that a broker which asked   *)
(* for a reset is never tried again, and that giving up is final.          *)
(***************************************************************************)
EXTENDS Integers

CONSTANTS
  Broker,  \* Broker objects
  Budget   \* tries allowed without being up in between

VARIABLES
  phase,   \* what each connection is doing
  tries,   \* tries since it was last up
  retired  \* the broker has asked for a reset

policyVars == <<phase, tries, retired>>

Phases == {"idle", "trying", "up", "down", "over"}

PolicyInit ==
  /\ phase = [b \in Broker |-> "idle"]
  /\ tries = [b \in Broker |-> 0]
  /\ retired = [b \in Broker |-> FALSE]

Move(b, from, to) == phase[b] \in from /\ phase' = [phase EXCEPT ![b] = to]

Try(b) ==
  /\ Move(b, {"idle", "down"}, "trying")
  /\ ~retired[b]
  /\ tries[b] < Budget
  /\ tries' = [tries EXCEPT ![b] = @ + 1]
  /\ UNCHANGED retired

ComeUp(b) ==
  /\ Move(b, {"trying"}, "up")
  /\ tries' = [tries EXCEPT ![b] = 0]
  /\ UNCHANGED retired

Retire(b) ==
  /\ phase[b] = "up"
  /\ retired' = [retired EXCEPT ![b] = TRUE]
  /\ UNCHANGED <<phase, tries>>

Lose(b) ==
  /\ Move(b, {"trying", "up"}, "down")
  /\ UNCHANGED <<tries, retired>>

GiveUp(b) ==
  /\ Move(b, {"trying", "up", "down"}, "over")
  /\ UNCHANGED <<tries, retired>>

PolicyNext ==
  \E b \in Broker : Try(b) \/ ComeUp(b) \/ Retire(b) \/ Lose(b) \/ GiveUp(b)

PolicySpec == PolicyInit /\ [][PolicyNext]_policyVars
==============================================================================
