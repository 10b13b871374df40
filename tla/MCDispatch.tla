----------------------------- MODULE MCDispatch -----------------------------
(***************************************************************************)
(* Small clients for TLC.                                                  *)
(***************************************************************************)
EXTENDS Dispatch

\* The first answer of the server has every broker, a later one has one ID.
Answers ==
  {<<i, 1>> : i \in Id} \union
  {<<i, n>> : i \in {CHOOSE j \in Id : TRUE}, n \in 2 .. MaxRounds}
==============================================================================
