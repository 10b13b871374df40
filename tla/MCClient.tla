------------------------------ MODULE MCClient ------------------------------
(***************************************************************************)
(* Small clients for TLC.                                                  *)
(***************************************************************************)
EXTENDS Client, TLC

\* Resetters are interchangeable, and so are broker IDs.
Interchangeable == Permutations(Resetter) \union Permutations(Id)

\* The objects of the second Start connect once: what is left of the first
\* Start's objects is what they are checked against.
RebuiltStartOnce == \A b \in Object : b[2] > 1 => attempt[b] <= 1
==============================================================================
