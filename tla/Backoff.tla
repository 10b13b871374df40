------------------------------- MODULE Backoff -------------------------------
(***************************************************************************)
(* The reconnect delay of a broker connection, broker/utils.go: the walk   *)
(* over the Fibonacci numbers that Loops describes, from attempt up;       *)
(* durationMax caps what it returns.                                       *)
(***************************************************************************)
EXTENDS Loops

CONSTANT durationMax  \* broker.go:54, 24 in the source

ASSUME DurationMaxAssumption == durationMax \in Nat \ {0}

fibo(attempt) ==
  LET b == FibonacciAbove(IF attempt < 0 THEN 0 ELSE attempt)
  IN  IF b > durationMax THEN durationMax ELSE b

\* The delays, in seconds, that a connection can ever wait for.
Delays == {fibo(d) : d \in 0 .. durationMax}
==============================================================================
