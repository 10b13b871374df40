-------------------------------- MODULE Loops --------------------------------
(***************************************************************************)
(* The two loops of the code that build a result turn by turn: the         *)
(* Fibonacci walk behind every delay (broker/utils.go, httpclient/utils.go)*)
(* and the rebuilding of the online list (client/client.go).  Each is a    *)
(* function from the state of the loop, not a RECURSIVE operator, so that  *)
(* LoopsProofs can say what it computes for every input.                   *)
(***************************************************************************)
EXTENDS Integers, Sequences

\* The pairs <<a, b>> that the walk visits: a never passes b, and no turn takes b
\* past twice the number it is compared with.
Turns(floor) == {p \in (1 .. floor + 1) \X (1 .. 2 * floor + 1) : p[1] <= p[2]}

\* for b <= floor { a, b = b, a+b }: what b is at the end, from a, b = 1, 1.
FibonacciAbove(floor) ==
  LET loop[p \in Turns(floor)] ==
        IF p[2] <= floor THEN loop[<<p[2], p[1] + p[2]>>] ELSE p[2]
  IN  loop[<<1, 1>>]

\* The list without the entries in gone, in the same order; kept[i] is the new
\* list after i turns.
Others(list, gone) ==
  LET kept[i \in 0 .. Len(list)] ==
        IF i = 0 THEN <<>>
        ELSE IF list[i] \in gone THEN kept[i - 1] ELSE Append(kept[i - 1], list[i])
  IN  kept[Len(list)]
==============================================================================
