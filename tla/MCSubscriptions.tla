--------------------------- MODULE MCSubscriptions ---------------------------
(***************************************************************************)
(* A small subscription store for TLC.                                     *)
(***************************************************************************)
EXTENDS Subscriptions, TLC

\* Everything but None is interchangeable.
Interchangeable ==
  Permutations(Handler) \union Permutations(Event) \union Permutations(Reader)
==============================================================================
