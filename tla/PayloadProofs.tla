---------------------------- MODULE PayloadProofs ----------------------------
(***************************************************************************)
(* What is signed can be read in one way only, for bytes of any size and   *)
(* length fields of any width.                                             *)
(***************************************************************************)
EXTENDS Payload, LoopsProofs, SequenceTheorems

\* Division by the size of a byte loses only the low byte.
LEMMA LowByte ==
  ASSUME NEW b \in Nat \ {0}, NEW n \in Nat
  PROVE  n \div b \in Nat /\ n % b \in Nat /\ n = b * (n \div b) + (n % b)
  OBVIOUS

\* Shifting goes on to the last byte (authhmac.go:198-211).
LEMMA ShiftedSteps ==
  ASSUME Base \in Nat \ {0}, NEW width \in Nat, NEW n \in Nat
  PROVE  /\ Shifted(n, width) \in [0 .. width -> Nat]
         /\ Shifted(n, width)[0] = n
         /\ \A k \in 1 .. width :
              Shifted(n, width)[k] = Shifted(n, width)[k - 1] \div Base
<1> DEFINE Good(f) == f = [k \in 0 .. width |-> IF k = 0 THEN n ELSE f[k - 1] \div Base]
           step == [p \in (1 .. width) \X Nat |-> p[2] \div Base]
<1>1. \A s \in Nat : s \div Base \in Nat
  BY LowByte
<1>2. step \in Steps(Nat, width)
  BY <1>1 DEF Steps
<1>3. ASSUME NEW k \in 1 .. width, NEW s \in Nat PROVE step[<<k, s>>] = s \div Base
  OBVIOUS
<1> HIDE DEF step
<1>4. PICK f : States(f, Nat, width, n, step)
  BY <1>2, StatesExist
<1>5. f \in [0 .. width -> Nat] /\ f[0] = n
  BY <1>4 DEF States
<1>6. ASSUME NEW k \in 1 .. width PROVE f[k] = f[k - 1] \div Base
  <2>1. f[k - 1] \in Nat /\ f[k] = step[<<k, f[k - 1]>>]
    BY <1>4, <1>5 DEF States
  <2> QED
    BY <1>3, <2>1
<1>7. Good(f)
  <2>1. ASSUME NEW k \in 0 .. width PROVE f[k] = IF k = 0 THEN n ELSE f[k - 1] \div Base
    BY <1>5, <1>6
  <2> QED
    BY <1>5, <2>1
<1>8. Good(Shifted(n, width))
  <2>1. Shifted(n, width) = CHOOSE g : Good(g)
    BY DEF Shifted
  <2> HIDE DEF Good
  <2> QED
    BY <1>7, <2>1
<1> DEFINE left == Shifted(n, width)
<1> HIDE DEF left
<1>9. ASSUME NEW k \in 0 .. width PROVE left[k] = f[k]
  <2> DEFINE T == {j \in 0 .. width : left[j] = f[j]}
  <2>1. 0 \in T
    BY <1>5, <1>8 DEF left
  <2>2. ASSUME NEW j \in 0 .. width - 1, j \in T PROVE j + 1 \in T
    <3>1. j + 1 \in 1 .. width /\ j + 1 \in 0 .. width /\ (j + 1) - 1 = j /\ j + 1 # 0
      OBVIOUS
    <3>2. left[j + 1] = left[j] \div Base
      BY <1>8, <3>1 DEF left
    <3>3. f[j + 1] = f[j] \div Base
      BY <1>6, <3>1
    <3> QED
      BY <2>2, <3>1, <3>2, <3>3
  <2>3. k \in T
    <3> HIDE DEF T
    <3> QED
      BY <2>1, <2>2, TurnsReachAll
  <2> QED
    BY <2>3
<1>10. left = f
  <2>1. left = [k \in 0 .. width |-> left[k]]
    BY <1>8 DEF left
  <2>2. f = [k \in 0 .. width |-> f[k]]
    BY <1>5
  <2> QED
    BY <1>9, <2>1, <2>2
<1> QED
  BY <1>5, <1>6, <1>10 DEF left

\* The bytes of a number that fits give it back (authhmac.go:198-211).
LEMMA PutUintInjective ==
  ASSUME Base \in Nat \ {0}, NEW width \in Nat, NEW n \in Nat, NEW m \in Nat,
         Fits(n, width), Fits(m, width), PutUint(n, width) = PutUint(m, width)
  PROVE  n = m
<1> DEFINE sn == Shifted(n, width)
           sm == Shifted(m, width)
           T == {j \in 0 .. width : sn[width - j] = sm[width - j]}
<1>1. /\ sn \in [0 .. width -> Nat] /\ sn[0] = n
      /\ sm \in [0 .. width -> Nat] /\ sm[0] = m
      /\ \A k \in 1 .. width : sn[k] = sn[k - 1] \div Base /\ sm[k] = sm[k - 1] \div Base
  BY ShiftedSteps
<1>2. \A i \in 1 .. width : sn[width - i] % Base = sm[width - i] % Base
  <2>1. ASSUME NEW i \in 1 .. width PROVE sn[width - i] % Base = sm[width - i] % Base
    <3>1. PutUint(n, width)[i] = sn[width - i] % Base
      BY DEF PutUint
    <3>2. PutUint(m, width)[i] = sm[width - i] % Base
      BY DEF PutUint
    <3> QED
      BY <3>1, <3>2
  <2> QED
    BY <2>1
<1>3. sn[width] = 0 /\ sm[width] = 0
  BY DEF Fits
<1> HIDE DEF sn, sm
<1>4. 0 \in T
  <2>1. width - 0 = width
    OBVIOUS
  <2> QED
    BY <1>3, <2>1
<1>5. ASSUME NEW j \in 0 .. width - 1, j \in T PROVE j + 1 \in T
  <2> DEFINE k == width - (j + 1)
  <2>1. /\ k \in 0 .. width /\ k + 1 \in 1 .. width /\ (k + 1) - 1 = k
        /\ width - j = k + 1 /\ j + 1 \in 1 .. width /\ j + 1 \in 0 .. width
    OBVIOUS
  <2>2. sn[k] % Base = sm[k] % Base
    BY <1>2, <2>1
  <2>3. sn[k + 1] = sm[k + 1]
    BY <1>5, <2>1
  <2>4. sn[k] \div Base = sm[k] \div Base
    <3>1. sn[k + 1] = sn[k] \div Base /\ sm[k + 1] = sm[k] \div Base
      BY <1>1, <2>1
    <3> QED
      BY <2>3, <3>1
  <2>5. sn[k] \in Nat /\ sm[k] \in Nat
    BY <1>1, <2>1
  <2>6. sn[k] = Base * (sn[k] \div Base) + (sn[k] % Base)
    BY <2>5, LowByte
  <2>7. sm[k] = Base * (sm[k] \div Base) + (sm[k] % Base)
    BY <2>5, LowByte
  <2>8. sn[k] = sm[k]
    BY <2>2, <2>4, <2>6, <2>7
  <2> QED
    BY <2>1, <2>8
<1>6. width \in T
  <2> HIDE DEF T
  <2>1. width \in 0 .. width
    OBVIOUS
  <2> QED
    BY <1>4, <1>5, <2>1, TurnsReachAll
<1>7. width - width = 0
  OBVIOUS
<1> QED
  BY <1>1, <1>6, <1>7

\* The bytes of a number are a sequence as long as its field.
LEMMA PutUintType ==
  ASSUME Base \in Nat \ {0}, NEW width \in Nat, NEW n \in Nat
  PROVE  PutUint(n, width) \in Seq(Nat) /\ Len(PutUint(n, width)) = width
<1>1. ASSUME NEW i \in 1 .. width PROVE Shifted(n, width)[width - i] % Base \in Nat
  <2>1. width - i \in 0 .. width
    OBVIOUS
  <2>2. Shifted(n, width)[width - i] \in Nat
    BY <2>1, ShiftedSteps
  <2> QED
    BY <2>2, LowByte
<1> QED
  BY <1>1 DEF PutUint

\* What begins with parts of the same length has the same parts.
LEMMA SameParts ==
  ASSUME NEW S, NEW s \in Seq(S), NEW t \in Seq(S), NEW u \in Seq(S), NEW v \in Seq(S),
         Len(s) = Len(u), s \o t = u \o v
  PROVE  s = u /\ t = v
<1>1. /\ Len(s \o t) = Len(s) + Len(t)
      /\ \A i \in 1 .. Len(s) + Len(t) :
           (s \o t)[i] = IF i <= Len(s) THEN s[i] ELSE t[i - Len(s)]
  BY ConcatProperties
<1>2. /\ Len(u \o v) = Len(u) + Len(v)
      /\ \A i \in 1 .. Len(u) + Len(v) :
           (u \o v)[i] = IF i <= Len(u) THEN u[i] ELSE v[i - Len(u)]
  BY ConcatProperties
<1> DEFINE w == s \o t
<1>3. w = u \o v
  OBVIOUS
<1> HIDE DEF w
<1>4. Len(s) \in Nat /\ Len(t) \in Nat /\ Len(v) \in Nat /\ Len(t) = Len(v)
  BY <1>1, <1>2, <1>3 DEF w
<1>5. ASSUME NEW i \in 1 .. Len(s) PROVE s[i] = u[i]
  <2>1. w[i] = s[i]
    BY <1>1, <1>4 DEF w
  <2>2. w[i] = u[i]
    BY <1>2, <1>3, <1>4
  <2> QED
    BY <2>1, <2>2
<1>6. ASSUME NEW i \in 1 .. Len(t) PROVE t[i] = v[i]
  <2> DEFINE k == Len(s) + i
  <2>1. k \in 1 .. Len(s) + Len(t) /\ ~(k <= Len(s)) /\ k - Len(s) = i
    BY <1>4
  <2> HIDE DEF k
  <2>2. w[k] = t[i]
    BY <1>1, <2>1 DEF w
  <2>3. w[k] = v[i]
    BY <1>2, <1>3, <1>4, <2>1
  <2> QED
    BY <2>2, <2>3
<1>7. s = u
  BY <1>5, SeqEqual
<1>8. t = v
  BY <1>4, <1>6, SeqEqual
<1> QED
  BY <1>7, <1>8

\* Two messages whose data fit the length field never make the same bytes: what
\* an intact signature is good for (authhmac.go:191-215).
THEOREM PayloadsAreUnambiguous ==
  ASSUME Base \in Nat \ {0},
         dataWidth \in Nat, stampWidth \in Nat, nonceWidth \in Nat,
         NEW Data \in SUBSET Seq(Nat), \A d \in Data : Fits(Len(d), dataWidth),
         NEW Stamps \in SUBSET Nat, \A t \in Stamps : Fits(t, stampWidth),
         NEW Nonces \in SUBSET Seq(Nat)
  PROVE  Unambiguous(Data, Stamps, Nonces)
<1>1. ASSUME NEW d \in Data, NEW t \in Stamps, NEW o \in Nonces,
             NEW e \in Data, NEW u \in Stamps, NEW p \in Nonces,
             buildPayload(d, t, o) = buildPayload(e, u, p)
      PROVE  d = e /\ t = u /\ o = p
  <2> DEFINE A(x) == PutUint(Len(x), dataWidth)
             B(x) == PutUint(x, stampWidth)
             C(x) == PutUint(Len(x), nonceWidth)
             AfterStamp(y) == C(y) \o y
             AfterData(x, y) == B(x) \o AfterStamp(y)
             AfterLength(x, y, z) == x \o AfterData(y, z)
  <2>1. /\ d \in Seq(Nat) /\ e \in Seq(Nat) /\ o \in Seq(Nat) /\ p \in Seq(Nat)
        /\ Len(d) \in Nat /\ Len(e) \in Nat /\ Len(o) \in Nat /\ Len(p) \in Nat
        /\ t \in Nat /\ u \in Nat
    OBVIOUS
  <2>2. /\ A(d) \in Seq(Nat) /\ A(e) \in Seq(Nat) /\ Len(A(d)) = Len(A(e))
        /\ B(t) \in Seq(Nat) /\ B(u) \in Seq(Nat) /\ Len(B(t)) = Len(B(u))
        /\ C(o) \in Seq(Nat) /\ C(p) \in Seq(Nat) /\ Len(C(o)) = Len(C(p))
    BY <2>1, PutUintType
  <2>3. A(d) \o AfterLength(d, t, o) = A(e) \o AfterLength(e, u, p)
    BY <1>1 DEF buildPayload
  <2> HIDE DEF A, B, C
  <2>4. AfterStamp(o) \in Seq(Nat) /\ AfterStamp(p) \in Seq(Nat)
    BY <2>1, <2>2, ConcatProperties
  <2>5. AfterData(t, o) \in Seq(Nat) /\ AfterData(u, p) \in Seq(Nat)
    <3> HIDE DEF AfterStamp
    <3> QED
      BY <2>2, <2>4, ConcatProperties
  <2>6. AfterLength(d, t, o) \in Seq(Nat) /\ AfterLength(e, u, p) \in Seq(Nat)
    <3> HIDE DEF AfterData
    <3> QED
      BY <2>1, <2>5, ConcatProperties
  <2>7. A(d) = A(e) /\ AfterLength(d, t, o) = AfterLength(e, u, p)
    <3> HIDE DEF AfterLength
    <3> QED
      BY <2>2, <2>3, <2>6, SameParts
  <2>8. Len(d) = Len(e)
    BY <2>1, <2>7, PutUintInjective DEF A
  <2>9. d = e /\ AfterData(t, o) = AfterData(u, p)
    <3> HIDE DEF AfterData
    <3> QED
      BY <2>1, <2>5, <2>7, <2>8, SameParts
  <2>10. B(t) = B(u) /\ AfterStamp(o) = AfterStamp(p)
    <3> HIDE DEF AfterStamp
    <3> QED
      BY <2>2, <2>4, <2>9, SameParts
  <2>11. t = u
    BY <2>1, <2>10, PutUintInjective DEF B
  <2>12. o = p
    BY <2>1, <2>2, <2>10, SameParts
  <2> QED
    BY <2>9, <2>11, <2>12
<1> DEFINE Messages == Data \X Stamps \X Nonces
           make == [x \in Messages |-> buildPayload(x[1], x[2], x[3])]
<1>2. ASSUME NEW x \in DOMAIN make, NEW y \in DOMAIN make, make[x] = make[y]
      PROVE  x = y
  <2>1. PICK d \in Data, t \in Stamps, o \in Nonces : x = <<d, t, o>>
    <3>1. /\ x = <<x[1], x[2], x[3]>>
          /\ x[1] \in Data /\ x[2] \in Stamps /\ x[3] \in Nonces
      OBVIOUS
    <3> WITNESS x[1] \in Data, x[2] \in Stamps, x[3] \in Nonces
    <3> QED
      BY <3>1
  <2>2. PICK e \in Data, u \in Stamps, p \in Nonces : y = <<e, u, p>>
    <3>1. /\ y = <<y[1], y[2], y[3]>>
          /\ y[1] \in Data /\ y[2] \in Stamps /\ y[3] \in Nonces
      OBVIOUS
    <3> WITNESS y[1] \in Data, y[2] \in Stamps, y[3] \in Nonces
    <3> QED
      BY <3>1
  <2>3. make[x] = buildPayload(d, t, o) /\ make[y] = buildPayload(e, u, p)
    BY <2>1, <2>2
  <2>4. buildPayload(d, t, o) = buildPayload(e, u, p)
    BY <1>2, <2>3
  <2>5. d = e /\ t = u /\ o = p
    BY <1>1, <2>4
  <2> QED
    BY <2>1, <2>2, <2>5
<1>3. IsInjective(make)
  <2> HIDE DEF make
  <2> QED
    BY <1>2 DEF IsInjective
<1> QED
  BY <1>3 DEF Unambiguous
=============================================================================
