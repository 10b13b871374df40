---------------------------- MODULE MCListRequest ----------------------------
(***************************************************************************)
(* A few calls for TLC, and the time checks at every distance around and   *)
(* beyond the range of a Duration.                                         *)
(***************************************************************************)
EXTENDS ListRequest, TLC, SequencesExt

Interchangeable == Permutations(Caller)

\* A server's clock that is ahead, right or behind.
SomeDrifts == {-3, 0, 3}

\* Up to the range of a Duration, Validate accepts a timestamp if and only if
\* its time is in the window.
ASSUME
  \A at \in 0 .. 3 * MaxDuration, ts \in 0 .. (3 * MaxDuration) \div Second :
    Measurable(at, ts * Second) =>
      (Timely(at, ts) <=> ts > 0 /\ ts * Second \in Window(at))

Small == INSTANCE Payload
  WITH Base <- 2, dataWidth <- 2, stampWidth <- 2, nonceWidth <- 1

\* The model lets a garbled answer fail and an intact one pass, which takes that
\* what is signed can be read in one way only.  The nonce may be longer here than
\* its length has room for.
ASSUME
  LET Bytes == BoundedSeq({0, 1}, 3)
  IN  Small!Unambiguous(Bytes, 0 .. 3, Bytes)

\* The numbers of two such bytes are those below 4.
ASSUME \A n \in 0 .. 20 : Small!Fits(n, 2) <=> n < 4
==============================================================================
