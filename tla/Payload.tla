------------------------------- MODULE Payload -------------------------------
(***************************************************************************)
(* What is signed: the bytes that buildPayload (authhmac/authhmac.go)      *)
(* makes of data, timestamp and nonce.  Generate signs them and Validate   *)
(* rebuilds them from what has arrived.                                    *)
(***************************************************************************)
EXTENDS Integers, Sequences, Functions

CONSTANTS
  Base,                                \* values of a byte
  dataWidth, stampWidth, nonceWidth    \* bytes of the three numbers: 4, 8, 2

\* The number shifted right, byte by byte.
Shifted(n, width) ==
  LET left[k \in 0 .. width] == IF k = 0 THEN n ELSE left[k - 1] \div Base
  IN  left

\* binary.BigEndian.PutUint*: each byte is the low one of what is shifted down to
\* it; a number that is too long loses its high bytes.
PutUint(n, width) == [i \in 1 .. width |-> Shifted(n, width)[width - i] % Base]
Fits(n, width) == Shifted(n, width)[width] = 0

buildPayload(data, ts, nonce) ==
  PutUint(Len(data), dataWidth) \o (data \o (PutUint(ts, stampWidth)
    \o (PutUint(Len(nonce), nonceWidth) \o nonce)))

\* A signature stands for one message: two of them whose data fit their length
\* never make the same bytes, whatever is in them and however long the nonce is
\* (authhmac.go:191-215).
Unambiguous(Data, Stamps, Nonces) ==
  IsInjective([x \in Data \X Stamps \X Nonces |-> buildPayload(x[1], x[2], x[3])])
==============================================================================
