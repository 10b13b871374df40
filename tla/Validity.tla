------------------------------- MODULE Validity -------------------------------
(***************************************************************************)
(* When a signed message is of the right age: the timestamp that           *)
(* Authhmac.Generate writes and the time checks of Authhmac.Validate       *)
(* (authhmac/authhmac.go).  Times and Durations are counted in ticks, a    *)
(* timestamp is in whole seconds.                                          *)
(***************************************************************************)
EXTENDS Integers

CONSTANTS
  Second,       \* ticks in a second
  MaxDuration,  \* the longest Duration; the shortest is one tick longer
  skew, ttl     \* the fields of Authhmac; the check is off unless positive

ASSUME ValidityAssumption ==
  /\ Second \in Nat \ {0} /\ MaxDuration \in Nat \ {0}
  /\ skew \in Int /\ skew <= MaxDuration
  /\ ttl \in Int /\ ttl <= MaxDuration

MinDuration == -MaxDuration - 1

\* Time.Sub saturates.
Since(now, createdAt) ==
  LET d == now - createdAt
  IN  IF d > MaxDuration THEN MaxDuration ELSE IF d < MinDuration THEN MinDuration ELSE d

\* -d in two's complement: the shortest Duration has no opposite.
Opposite(d) == IF d = MinDuration THEN d ELSE -d

Drift(d) == IF d < 0 THEN Opposite(d) ELSE d

Age(d) == IF d < 0 THEN 0 ELSE d

\* A faulty variant: the timestamp is rounded up.
Stamp_Up(now) == now \div Second + 1

\* time.Now().Unix() of a clock that shows now.
Stamp(now) == now \div Second

\* Validate, up to the signature.
Timely(now, ts) ==
  LET createdAt == ts * Second
      d == Since(now, createdAt)
  IN  /\ ts > 0
      /\ IF skew > 0 THEN Drift(d) <= skew ELSE createdAt <= now
      /\ ttl > 0 => Age(d) <= ttl

------------------------------------------------------------------------------
(* What it should be                                                         *)

\* The window in which a message created at that time is good, without
\* regard to the width of a Duration.
Window(now) ==
  {t \in Int : /\ skew > 0 => now - skew <= t /\ t <= now + skew
               /\ skew <= 0 => t <= now
               /\ ttl > 0 => now - ttl <= t}

\* The time is close enough for its distance to be a Duration with an opposite.
Measurable(now, createdAt) == now - createdAt \in -MaxDuration .. MaxDuration
==============================================================================
