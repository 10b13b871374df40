----------------------------- MODULE LoopsProofs -----------------------------
(***************************************************************************)
(* What the loops of Loops compute, for every input.  Induction is over    *)
(* sets of numbers: the theorems of the library that induct over a         *)
(* predicate take it as an operator, which no prover here instantiates,    *)
(* but a set of numbers that has no gap is an ordinary bound variable.     *)
(***************************************************************************)
EXTENDS Loops, WellFoundedInduction, TLAPS

------------------------------------------------------------------------------
(* Induction                                                                 *)

\* A set of numbers has a least one.
LEMMA LeastNumber ==
  ASSUME NEW T \in SUBSET Nat, T # {}
  PROVE \E x \in T : \A y \in T : x <= y
<1> DEFINE R == OpToRel(<, Nat)
<1>1. IsWellFoundedOn(R, Nat)
  BY NatLessThanWellFounded
<1>2. \A x, y \in Nat : <<y, x>> \in R <=> y < x
  BY DEF OpToRel
<1> HIDE DEF R
<1>3. \E x \in T : \A y \in T : ~ (<<y, x>> \in R)
  BY <1>1, WFMin
<1>4. PICK x \in T : \A y \in T : ~ (<<y, x>> \in R)
  BY <1>3
<1>5. x \in Nat /\ \A y \in T : y \in Nat
  OBVIOUS
<1>6. ASSUME NEW y \in T PROVE x <= y
  <2>1. ~ (y < x)
    BY <1>2, <1>4, <1>5
  <2> QED
    BY <2>1, <1>5
<1> QED
  BY <1>6

\* A set that holds 0 and the successors of its numbers holds every number.
LEMMA SuccessorsReachAll ==
  ASSUME NEW T \in SUBSET Nat, 0 \in T, \A n \in T : n + 1 \in T
  PROVE T = Nat
<1> SUFFICES ASSUME Nat \ T # {} PROVE FALSE
  OBVIOUS
<1>1. PICK x \in Nat \ T : \A y \in Nat \ T : x <= y
  BY LeastNumber
<1>2. x # 0
  OBVIOUS
<1>3. x - 1 \in Nat
  BY <1>2
<1>4. x - 1 \in T
  BY <1>1, <1>3
<1> QED
  BY <1>1, <1>4

\* A set that holds 0 and, up to N, each successor, holds every number up to N.
LEMMA TurnsReachAll ==
  ASSUME NEW N \in Nat, NEW T, 0 \in T, \A n \in 0 .. N - 1 : n \in T => n + 1 \in T
  PROVE  \A n \in 0 .. N : n \in T
<1> DEFINE U == {n \in Nat : n <= N => n \in T}
<1>1. 0 \in U
  OBVIOUS
<1>2. ASSUME NEW n \in U PROVE n + 1 \in U
  <2>1. n + 1 <= N => n \in 0 .. N - 1 /\ n \in T
    OBVIOUS
  <2> QED
    BY <2>1
<1>3. U = Nat
  <2> HIDE DEF U
  <2> QED
    BY <1>1, <1>2, SuccessorsReachAll DEF U
<1> QED
  BY <1>3

\* The states of a loop of N turns that makes each from the one before it.
Steps(S, N) == [(1 .. N) \X S -> S]
States(f, S, N, first, step) ==
  /\ f \in [0 .. N -> S]
  /\ f[0] = first
  /\ \A i \in 1 .. N : f[i] = step[<<i, f[i - 1]>>]

\* Such a loop has a state after every turn.
LEMMA StatesExist ==
  ASSUME NEW S, NEW N \in Nat, NEW first \in S, NEW step \in Steps(S, N)
  PROVE  \E f : States(f, S, N, first, step)
<1> USE DEF Steps
<1> DEFINE Good(f, n) == \A i \in 0 .. n :
                           f[i] = IF i = 0 THEN first ELSE step[<<i, f[i - 1]>>]
           T == {n \in 0 .. N : \E f \in [0 .. N -> S] : Good(f, n)}
<1>1. 0 \in T
  <2>1. Good([i \in 0 .. N |-> first], 0)
    OBVIOUS
  <2>2. [i \in 0 .. N |-> first] \in [0 .. N -> S]
    OBVIOUS
  <2> HIDE DEF Good
  <2> QED
    BY <2>1, <2>2
<1>2. ASSUME NEW n \in 0 .. N - 1, n \in T PROVE n + 1 \in T
  <2>1. PICK f \in [0 .. N -> S] : Good(f, n)
    BY <1>2
  <2> DEFINE g == [f EXCEPT ![n + 1] = step[<<n + 1, f[n]>>]]
  <2>2. n \in 0 .. N /\ n + 1 \in 1 .. N /\ n + 1 \in 0 .. N
    OBVIOUS
  <2>3. step[<<n + 1, f[n]>>] \in S
    BY <2>2
  <2>4. g \in [0 .. N -> S]
    BY <2>3
  <2>5. g[n + 1] = step[<<n + 1, f[n]>>] /\ \A i \in 0 .. n : g[i] = f[i]
    BY <2>2
  <2> HIDE DEF g
  <2>6. ASSUME NEW i \in 0 .. n + 1
        PROVE  g[i] = IF i = 0 THEN first ELSE step[<<i, g[i - 1]>>]
    <3>1. CASE i = n + 1
      <4>1. i # 0 /\ i - 1 = n /\ n \in 0 .. n
        BY <3>1
      <4> QED
        BY <2>5, <3>1, <4>1
    <3>2. CASE i # n + 1
      <4>1. i \in 0 .. n /\ (i # 0 => i - 1 \in 0 .. n)
        BY <3>2
      <4>2. g[i] = f[i] /\ (i # 0 => g[i - 1] = f[i - 1])
        BY <2>5, <4>1
      <4> QED
        BY <2>1, <4>1, <4>2
    <3> QED
      BY <3>1, <3>2
  <2>7. Good(g, n + 1)
    BY <2>6
  <2> HIDE DEF Good
  <2> QED
    BY <2>2, <2>4, <2>7
<1>3. N \in T
  <2>1. N \in 0 .. N
    OBVIOUS
  <2> HIDE DEF T
  <2> QED
    BY <1>1, <1>2, <2>1, TurnsReachAll
<1>4. PICK f \in [0 .. N -> S] : Good(f, N)
  BY <1>3
<1>5. f[0] = first
  <2>1. 0 \in 0 .. N
    OBVIOUS
  <2> QED
    BY <1>4, <2>1
<1>6. ASSUME NEW i \in 1 .. N PROVE f[i] = step[<<i, f[i - 1]>>]
  <2>1. i \in 0 .. N /\ i # 0
    OBVIOUS
  <2> QED
    BY <1>4, <2>1
<1> QED
  BY <1>5, <1>6 DEF States

------------------------------------------------------------------------------
(* The Fibonacci walk                                                        *)

\* One turn, with f for what the turns after it compute.
Turn(f, floor, p) == IF p[2] <= floor THEN f[<<p[2], p[1] + p[2]>>] ELSE p[2]

\* A turn that is not the last stays among the pairs, and b grows
\* (utils.go:26-28).
LEMMA NextTurn ==
  ASSUME NEW floor \in Nat, NEW p \in Turns(floor), p[2] <= floor
  PROVE  <<p[2], p[1] + p[2]>> \in Turns(floor) /\ p[1] + p[2] > p[2]
  BY DEF Turns

\* The walk is well defined: a function that n turns determine exists for every
\* n, and 2 * floor + 1 of them are all there are (utils.go:26-28).
LEMMA LoopExists ==
  ASSUME NEW floor \in Nat
  PROVE  \E f : f = [p \in Turns(floor) |-> Turn(f, floor, p)]
<1> DEFINE D == Turns(floor)
           N == 2 * floor + 1
           T == {n \in Nat : \E f \in [D -> Int] :
                   \A p \in D : p[2] + n > N => f[p] = Turn(f, floor, p)}
<1>1. \A p \in D : p[1] \in Nat /\ p[2] \in 1 .. N
  BY DEF Turns
<1>2. 0 \in T
  <2> DEFINE g == [p \in D |-> 0]
  <2>1. g \in [D -> Int]
    OBVIOUS
  <2>2. ASSUME NEW p \in D, p[2] + 0 > N
        PROVE  g[p] = Turn(g, floor, p)
    BY <1>1, <2>2
  <2> HIDE DEF D, N, g
  <2> QED
    BY <2>1, <2>2
<1>3. ASSUME NEW n \in T PROVE n + 1 \in T
  <2>1. n \in Nat
    OBVIOUS
  <2>2. PICK f \in [D -> Int] :
          \A p \in D : p[2] + n > N => f[p] = Turn(f, floor, p)
    BY <1>3
  <2> DEFINE g == [p \in D |-> Turn(f, floor, p)]
  <2>3. g \in [D -> Int]
    <3>1. ASSUME NEW p \in D PROVE Turn(f, floor, p) \in Int
      BY <1>1, NextTurn DEF Turn
    <3> QED
      BY <3>1
  <2>4. ASSUME NEW p \in D, p[2] + (n + 1) > N
        PROVE  g[p] = Turn(g, floor, p)
    <3>1. CASE p[2] <= floor
      <4> DEFINE q == <<p[2], p[1] + p[2]>>
      <4>1. q \in D /\ q[2] + n > N
        BY <1>1, <2>1, <2>4, <3>1, NextTurn
      <4>2. g[q] = f[q]
        BY <2>2, <4>1
      <4> QED
        BY <3>1, <4>2 DEF Turn
    <3>2. CASE ~(p[2] <= floor)
      BY <3>2 DEF Turn
    <3> QED
      BY <3>1, <3>2
  <2>5. n + 1 \in Nat
    BY <2>1
  <2> HIDE DEF D, N, g
  <2> QED
    BY <2>3, <2>4, <2>5
<1>4. N \in T
  <2>1. T \in SUBSET Nat /\ N \in Nat
    OBVIOUS
  <2> HIDE DEF T, N
  <2> QED
    BY <1>2, <1>3, <2>1, SuccessorsReachAll
<1>5. PICK f \in [D -> Int] : \A p \in D : p[2] + N > N => f[p] = Turn(f, floor, p)
  BY <1>4
<1>6. \A p \in D : f[p] = Turn(f, floor, p)
  <2> HIDE DEF D
  <2>1. ASSUME NEW p \in D PROVE p[2] + N > N
    <3>1. p[2] \in 1 .. N
      BY <1>1
    <3> QED
      BY <3>1
  <2> HIDE DEF N
  <2> QED
    BY <1>5, <2>1
<1>7. f = [p \in D |-> Turn(f, floor, p)]
  <2> HIDE DEF D
  <2> QED
    BY <1>5, <1>6
<1> QED
  BY <1>7

\* From wherever it stands the walk ends above floor, and at most at twice as
\* much and one (utils.go:26-28).
LEMMA LoopValue ==
  ASSUME NEW floor \in Nat, NEW f, f = [p \in Turns(floor) |-> Turn(f, floor, p)]
  PROVE  \A p \in Turns(floor) : f[p] \in floor + 1 .. 2 * floor + 1
<1> DEFINE D == Turns(floor)
           N == 2 * floor + 1
           T == {n \in Nat : \A p \in D : p[2] + n > N => f[p] \in floor + 1 .. N}
<1>1. \A p \in D : p[1] \in Nat /\ p[2] \in 1 .. N
  BY DEF Turns
<1>2. 0 \in T
  <2>1. ASSUME NEW p \in D PROVE ~(p[2] + 0 > N)
    BY <1>1
  <2> HIDE DEF D, N
  <2> QED
    BY <2>1
<1>3. ASSUME NEW n \in T PROVE n + 1 \in T
  <2>1. n \in Nat
    OBVIOUS
  <2>2. ASSUME NEW p \in D, p[2] + (n + 1) > N
        PROVE  f[p] \in floor + 1 .. N
    <3>1. f[p] = Turn(f, floor, p)
      OBVIOUS
    <3>2. CASE p[2] <= floor
      <4> DEFINE q == <<p[2], p[1] + p[2]>>
      <4>1. q \in D /\ q[2] + n > N
        BY <1>1, <2>1, <2>2, <3>2, NextTurn
      <4>2. f[q] \in floor + 1 .. N
        BY <4>1
      <4> QED
        BY <3>1, <3>2, <4>2 DEF Turn
    <3>3. CASE ~(p[2] <= floor)
      BY <1>1, <3>1, <3>3 DEF Turn
    <3> QED
      BY <3>2, <3>3
  <2>3. n + 1 \in Nat
    BY <2>1
  <2> HIDE DEF D, N
  <2> QED
    BY <2>2, <2>3
<1>4. N \in T
  <2>1. T \in SUBSET Nat /\ N \in Nat
    OBVIOUS
  <2> HIDE DEF T, N
  <2> QED
    BY <1>2, <1>3, <2>1, SuccessorsReachAll
<1>5. ASSUME NEW p \in D PROVE f[p] \in floor + 1 .. N
  <2>1. p[2] + N > N
    BY <1>1
  <2> HIDE DEF D
  <2> QED
    BY <1>4, <2>1
<1> QED
  BY <1>5

\* The walk returns a number above the one it is compared with, at whatever
\* number that is, and does not run past twice as much (utils.go:26-28).
THEOREM FibonacciIsAbove ==
  ASSUME NEW floor \in Nat
  PROVE  FibonacciAbove(floor) \in floor + 1 .. 2 * floor + 1
<1> DEFINE loop == CHOOSE g : g = [p \in Turns(floor) |-> Turn(g, floor, p)]
<1>1. FibonacciAbove(floor) = loop[<<1, 1>>]
  BY DEF FibonacciAbove, Turn
<1>2. loop = [p \in Turns(floor) |-> Turn(loop, floor, p)]
  BY LoopExists
<1>3. <<1, 1>> \in Turns(floor)
  BY DEF Turns
<1> HIDE DEF loop
<1> QED
  BY <1>1, <1>2, <1>3, LoopValue

------------------------------------------------------------------------------
(* The Fibonacci numbers                                                     *)

\* The Fibonacci numbers as they are usually given.
Fibonaccis(fib) ==
  /\ fib \in [Nat -> Nat]
  /\ fib[0] = 1 /\ fib[1] = 1
  /\ \A n \in Nat : fib[n + 2] = fib[n] + fib[n + 1]

\* There are such numbers, so that what is said of them is said of something.
LEMMA FibonaccisExist == \E fib : Fibonaccis(fib)
<1> DEFINE First(n, s) ==
             /\ s \in [0 .. n + 1 -> Nat] /\ s[0] = 1 /\ s[1] = 1
             /\ \A i \in 0 .. n - 1 : s[i + 2] = s[i] + s[i + 1]
           T == {n \in Nat : \E s : First(n, s)}
<1>1. 0 \in T
  <2>1. First(0, [i \in 0 .. 1 |-> 1])
    OBVIOUS
  <2> QED
    BY <2>1
<1>2. ASSUME NEW n \in T PROVE n + 1 \in T
  <2>1. PICK s : First(n, s)
    OBVIOUS
  <2> DEFINE t == [i \in 0 .. n + 2 |-> IF i = n + 2 THEN s[n] + s[n + 1] ELSE s[i]]
  <2>2. n \in Nat /\ \A i \in 0 .. n + 1 : s[i] \in Nat
    BY <2>1
  <2>3. t \in [0 .. n + 2 -> Nat] /\ t[0] = 1 /\ t[1] = 1
    BY <2>1, <2>2
  <2>4. ASSUME NEW i \in 0 .. n PROVE t[i + 2] = t[i] + t[i + 1]
    <3>1. i \in 0 .. n + 2 /\ i + 1 \in 0 .. n + 2 /\ i + 2 \in 0 .. n + 2
          /\ i # n + 2 /\ i + 1 # n + 2
      BY <2>2
    <3>2. t[i] = s[i] /\ t[i + 1] = s[i + 1]
      BY <3>1
    <3>3. CASE i = n
      BY <3>1, <3>2, <3>3
    <3>4. CASE i # n
      <4>1. i \in 0 .. n - 1 /\ i + 2 # n + 2
        BY <2>2, <3>4
      <4>2. t[i + 2] = s[i + 2] /\ s[i + 2] = s[i] + s[i + 1]
        BY <2>1, <3>1, <4>1
      <4> QED
        BY <3>2, <4>2
    <3> QED
      BY <3>3, <3>4
  <2>5. First(n + 1, t)
    <3>1. (n + 1) + 1 = n + 2 /\ (n + 1) - 1 = n
      BY <2>2
    <3> HIDE DEF t
    <3> QED
      BY <2>3, <2>4, <3>1
  <2>6. \E u : First(n + 1, u)
    <3> HIDE DEF t, First
    <3> QED
      BY <2>5
  <2> HIDE DEF First
  <2> QED
    BY <2>2, <2>6
<1>3. T = Nat
  <2> HIDE DEF T
  <2> QED
    BY <1>1, <1>2, SuccessorsReachAll DEF T
<1> DEFINE first(n) == CHOOSE s : First(n, s)
           fib == [n \in Nat |-> first(n)[n]]
<1>4. ASSUME NEW n \in Nat PROVE First(n, first(n))
  <2> HIDE DEF First
  <2> QED
    BY <1>3
<1> HIDE DEF first
<1>5. ASSUME NEW m \in Nat, NEW n \in Nat, m <= n
      PROVE  first(m)[m] = first(n)[m] /\ first(m)[m + 1] = first(n)[m + 1]
  <2> DEFINE U == {i \in Nat : i <= m => /\ first(m)[i] = first(n)[i]
                                         /\ first(m)[i + 1] = first(n)[i + 1]}
  <2>1. First(m, first(m)) /\ First(n, first(n))
    BY <1>4
  <2>2. 0 \in U
    <3>1. 0 + 1 = 1
      OBVIOUS
    <3> QED
      BY <2>1, <3>1
  <2>3. ASSUME NEW i \in U PROVE i + 1 \in U
    <3>1. SUFFICES ASSUME i + 1 <= m
          PROVE  /\ first(m)[i + 1] = first(n)[i + 1]
                 /\ first(m)[(i + 1) + 1] = first(n)[(i + 1) + 1]
      OBVIOUS
    <3>2. i \in 0 .. m - 1 /\ i \in 0 .. n - 1 /\ (i + 1) + 1 = i + 2 /\ i <= m
      BY <1>5, <3>1
    <3>3. first(m)[i + 2] = first(m)[i] + first(m)[i + 1]
          /\ first(n)[i + 2] = first(n)[i] + first(n)[i + 1]
      BY <2>1, <3>2
    <3>4. first(m)[i] = first(n)[i] /\ first(m)[i + 1] = first(n)[i + 1]
      BY <3>2
    <3> QED
      BY <3>2, <3>3, <3>4
  <2>4. U = Nat
    <3> HIDE DEF U
    <3> QED
      BY <2>2, <2>3, SuccessorsReachAll DEF U
  <2> QED
    BY <2>4
<1>6. fib \in [Nat -> Nat] /\ fib[0] = 1 /\ fib[1] = 1
  <2>1. ASSUME NEW n \in Nat PROVE first(n)[n] \in Nat
    <3>1. n \in 0 .. n + 1 /\ first(n) \in [0 .. n + 1 -> Nat]
      BY <1>4
    <3> QED
      BY <3>1
  <2>2. first(0)[0] = 1 /\ first(1)[1] = 1
    BY <1>4
  <2> QED
    BY <2>1, <2>2
<1>7. ASSUME NEW n \in Nat PROVE fib[n + 2] = fib[n] + fib[n + 1]
  <2>1. n + 1 \in Nat /\ n + 2 \in Nat /\ n <= n + 2 /\ n + 1 <= n + 2
        /\ n \in 0 .. (n + 2) - 1
    OBVIOUS
  <2>2. first(n + 2)[n + 2] = first(n + 2)[n] + first(n + 2)[n + 1]
    BY <1>4, <2>1
  <2>3. first(n)[n] = first(n + 2)[n] /\ first(n + 1)[n + 1] = first(n + 2)[n + 1]
    BY <1>5, <2>1
  <2> QED
    BY <2>1, <2>2, <2>3
<1>8. Fibonaccis(fib)
  <2> HIDE DEF fib
  <2> QED
    BY <1>6, <1>7 DEF Fibonaccis
<1> QED
  BY <1>8

\* They are at least 1 and at least their number, and never fall.
LEMMA FibonaccisRise ==
  ASSUME NEW fib, Fibonaccis(fib), NEW n \in Nat
  PROVE  fib[n] \in Nat \ {0} /\ fib[n + 1] \in Nat /\ fib[n] <= fib[n + 1] /\ n <= fib[n]
<1> DEFINE T == {k \in Nat : /\ fib[k] \in Nat \ {0} /\ fib[k + 1] \in Nat
                             /\ fib[k] <= fib[k + 1]
                             /\ k <= fib[k] /\ k + 1 <= fib[k + 1]}
<1>1. 0 \in T
  <2>1. 0 + 1 = 1
    OBVIOUS
  <2>2. fib[0] = 1 /\ fib[0 + 1] = 1
    BY <2>1 DEF Fibonaccis
  <2> QED
    BY <2>2
<1>2. ASSUME NEW k \in T PROVE k + 1 \in T
  <2>1. (k + 1) + 1 = k + 2 /\ k + 1 \in Nat /\ k + 2 \in Nat
    OBVIOUS
  <2>2. fib[k + 2] = fib[k] + fib[k + 1] /\ fib[k + 2] \in Nat
    BY <2>1 DEF Fibonaccis
  <2> QED
    BY <2>1, <2>2
<1>3. T = Nat
  <2> HIDE DEF T
  <2> QED
    BY <1>1, <1>2, SuccessorsReachAll DEF T
<1> QED
  BY <1>3

\* So each is below or equal to the later ones.
LEMMA FibonaccisMonotone ==
  ASSUME NEW fib, Fibonaccis(fib), NEW m \in Nat, NEW n \in Nat, m <= n
  PROVE  fib[m] <= fib[n]
<1> DEFINE T == {k \in Nat : fib[m] <= fib[m + k]}
<1>1. 0 \in T
  BY FibonaccisRise
<1>2. ASSUME NEW k \in T PROVE k + 1 \in T
  <2>1. m + k \in Nat /\ (m + k) + 1 = m + (k + 1)
    OBVIOUS
  <2>2. fib[m] \in Nat /\ fib[m + k] \in Nat /\ fib[m + (k + 1)] \in Nat
        /\ fib[m + k] <= fib[m + (k + 1)]
    BY <2>1, FibonaccisRise
  <2> QED
    BY <2>1, <2>2
<1>3. T = Nat
  <2> HIDE DEF T
  <2> QED
    BY <1>1, <1>2, SuccessorsReachAll DEF T
<1>4. n - m \in T /\ m + (n - m) = n
  <2> HIDE DEF T
  <2> QED
    BY <1>3
<1> QED
  BY <1>4

\* As long as the walk has not passed the number it is compared with, its n-th
\* turn is at the n-th pair of neighbours (utils.go:25-28).
LEMMA WalkVisits ==
  ASSUME NEW floor \in Nat, NEW loop, loop = [p \in Turns(floor) |-> Turn(loop, floor, p)],
         NEW fib, Fibonaccis(fib), NEW n \in Nat, n = 0 \/ fib[n] <= floor
  PROVE  /\ <<fib[n], fib[n + 1]>> \in Turns(floor)
         /\ loop[<<1, 1>>] = loop[<<fib[n], fib[n + 1]>>]
<1> DEFINE At(k) == <<fib[k], fib[k + 1]>>
           T == {k \in Nat : k = 0 \/ fib[k] <= floor =>
                   At(k) \in Turns(floor) /\ loop[<<1, 1>>] = loop[At(k)]}
<1>1. 0 \in T
  <2>1. At(0) = <<1, 1>>
    BY DEF Fibonaccis
  <2>2. <<1, 1>> \in Turns(floor)
    BY DEF Turns
  <2> QED
    BY <2>1, <2>2
<1>2. ASSUME NEW k \in T PROVE k + 1 \in T
  <2>1. SUFFICES ASSUME fib[k + 1] <= floor
        PROVE  At(k + 1) \in Turns(floor) /\ loop[<<1, 1>>] = loop[At(k + 1)]
    OBVIOUS
  <2>2. fib[k] \in Nat \ {0} /\ fib[k + 1] \in Nat /\ fib[k] <= fib[k + 1]
    BY FibonaccisRise
  <2>3. At(k) \in Turns(floor) /\ loop[<<1, 1>>] = loop[At(k)]
    BY <2>1, <2>2
  <2>4. fib[(k + 1) + 1] = fib[k] + fib[k + 1]
    <3>1. (k + 1) + 1 = k + 2
      OBVIOUS
    <3> QED
      BY <3>1 DEF Fibonaccis
  <2>5. At(k + 1) = <<fib[k + 1], fib[k] + fib[k + 1]>>
    BY <2>4
  <2>6. At(k + 1) \in Turns(floor)
    BY <2>1, <2>3, <2>5, NextTurn
  <2>7. loop[At(k)] = Turn(loop, floor, At(k))
    BY <2>3
  <2>8. loop[At(k)] = loop[At(k + 1)]
    BY <2>1, <2>5, <2>7 DEF Turn
  <2> QED
    BY <2>3, <2>6, <2>8
<1>3. T = Nat
  <2> HIDE DEF T
  <2> QED
    BY <1>1, <1>2, SuccessorsReachAll DEF T
<1> QED
  BY <1>3

\* What the comment of fibo promises: the smallest Fibonacci number greater
\* than the number it is given (utils.go:20-28).
THEOREM FibonacciIsSmallest ==
  ASSUME NEW floor \in Nat, NEW fib, Fibonaccis(fib)
  PROVE  /\ \E n \in Nat : FibonacciAbove(floor) = fib[n]
         /\ FibonacciAbove(floor) > floor
         /\ \A n \in Nat : fib[n] > floor => FibonacciAbove(floor) <= fib[n]
<1> DEFINE loop == CHOOSE g : g = [p \in Turns(floor) |-> Turn(g, floor, p)]
           Past == {k \in Nat : fib[k + 1] > floor}
<1>1. FibonacciAbove(floor) = loop[<<1, 1>>]
  BY DEF FibonacciAbove, Turn
<1>2. loop = [p \in Turns(floor) |-> Turn(loop, floor, p)]
  BY LoopExists
<1> HIDE DEF loop
<1>3. floor \in Past
  <2>1. floor + 1 \in Nat
    OBVIOUS
  <2>2. floor + 1 <= fib[floor + 1] /\ fib[floor + 1] \in Nat
    BY <2>1, FibonaccisRise
  <2> QED
    BY <2>2
<1>4. PICK n \in Past : \A k \in Past : n <= k
  <2>1. Past \in SUBSET Nat /\ Past # {}
    BY <1>3
  <2> HIDE DEF Past
  <2> QED
    BY <2>1, LeastNumber
<1>5. n \in Nat /\ fib[n + 1] > floor /\ fib[n] \in Nat /\ fib[n + 1] \in Nat
  BY <1>4, FibonaccisRise
<1>6. n = 0 \/ fib[n] <= floor
  <2>1. CASE n # 0
    <3>1. n - 1 \in Nat /\ (n - 1) + 1 = n
      BY <1>5, <2>1
    <3>2. n - 1 \notin Past
      BY <1>4, <1>5, <3>1
    <3> QED
      BY <1>5, <3>1, <3>2
  <2> QED
    BY <2>1
<1>7. <<fib[n], fib[n + 1]>> \in Turns(floor)
      /\ loop[<<1, 1>>] = loop[<<fib[n], fib[n + 1]>>]
  BY <1>2, <1>5, <1>6, WalkVisits
<1>8. FibonacciAbove(floor) = fib[n + 1]
  <2>1. loop[<<fib[n], fib[n + 1]>>] = Turn(loop, floor, <<fib[n], fib[n + 1]>>)
    BY <1>2, <1>7
  <2> QED
    BY <1>1, <1>5, <1>7, <2>1 DEF Turn
<1>9. ASSUME NEW m \in Nat, fib[m] > floor PROVE fib[n + 1] <= fib[m]
  <2>1. CASE m = 0
    <3>1. fib[0] = 1 /\ fib[0 + 1] = 1
      BY DEF Fibonaccis
    <3>2. 0 \in Past
      BY <1>9, <2>1, <3>1
    <3>3. n = 0
      BY <1>4, <1>5, <3>2
    <3> QED
      BY <2>1, <3>1, <3>3
  <2>2. CASE m # 0
    <3>1. m - 1 \in Nat /\ (m - 1) + 1 = m
      BY <2>2
    <3>2. m - 1 \in Past
      BY <1>9, <3>1
    <3>3. n + 1 <= m
      BY <1>4, <1>5, <3>1, <3>2
    <3> QED
      BY <1>5, <3>3, FibonaccisMonotone
  <2> QED
    BY <2>1, <2>2
<1> QED
  BY <1>5, <1>8, <1>9

------------------------------------------------------------------------------
(* The rebuilding of a list                                                  *)

\* One turn, with kept for the turns before it.
Keep(kept, list, gone, i) ==
  IF i = 0 THEN <<>>
  ELSE IF list[i] \in gone THEN kept[i - 1] ELSE Append(kept[i - 1], list[i])

\* The loop is well defined (client.go:261-266, 279-284).
LEMMA KeptExists ==
  ASSUME NEW S, NEW list \in Seq(S), NEW gone
  PROVE  \E f \in [0 .. Len(list) -> Seq(S)] :
           f = [i \in 0 .. Len(list) |-> Keep(f, list, gone, i)]
<1> DEFINE N == Len(list)
           step == [p \in (1 .. N) \X Seq(S) |->
                      IF list[p[1]] \in gone THEN p[2] ELSE Append(p[2], list[p[1]])]
<1>1. N \in Nat /\ <<>> \in Seq(S)
  OBVIOUS
<1>2. step \in Steps(Seq(S), N)
  BY DEF Steps
<1>3. ASSUME NEW i \in 1 .. N, NEW s \in Seq(S)
      PROVE  step[<<i, s>>] = IF list[i] \in gone THEN s ELSE Append(s, list[i])
  OBVIOUS
<1> HIDE DEF N, step
<1>4. PICK f : States(f, Seq(S), N, <<>>, step)
  BY <1>1, <1>2, StatesExist
<1>5. ASSUME NEW i \in 0 .. N PROVE f[i] = Keep(f, list, gone, i)
  <2>1. CASE i = 0
    BY <1>4, <2>1 DEF Keep, States
  <2>2. CASE i # 0
    <3>1. i \in 1 .. N /\ f[i - 1] \in Seq(S)
      BY <1>1, <1>4, <2>2 DEF States
    <3> QED
      BY <1>3, <1>4, <2>2, <3>1 DEF Keep, States
  <2> QED
    BY <2>1, <2>2
<1>6. f = [i \in 0 .. N |-> Keep(f, list, gone, i)]
  BY <1>4, <1>5 DEF States
<1> QED
  BY <1>4, <1>6 DEF N, States

\* The entries of the list that are to stay.
Staying(S, list, gone) ==
  {x \in S : x \notin gone /\ \E k \in DOMAIN list : list[k] = x}

\* After every turn the new list has entries of the old one and none that is to
\* go (client.go:261-266, 279-284).
LEMMA KeptEntries ==
  ASSUME NEW S, NEW list \in Seq(S), NEW gone, NEW f,
         f = [i \in 0 .. Len(list) |-> Keep(f, list, gone, i)]
  PROVE  \A i \in 0 .. Len(list) : f[i] \in Seq(Staying(S, list, gone))
<1> DEFINE N == Len(list)
           L == Staying(S, list, gone)
           T == {i \in 0 .. N : f[i] \in Seq(L)}
<1>1. N \in Nat
  OBVIOUS
<1>2. 0 \in T
  <2>1. f[0] = <<>>
    BY <1>1 DEF Keep
  <2> QED
    BY <1>1, <2>1
<1>3. ASSUME NEW n \in 0 .. N - 1, n \in T PROVE n + 1 \in T
  <2>1. n + 1 \in 0 .. N /\ n + 1 \in 1 .. Len(list) /\ (n + 1) - 1 = n /\ n + 1 # 0
    BY <1>1
  <2>2. list[n + 1] \in S /\ (list[n + 1] \notin gone => list[n + 1] \in L)
    BY <2>1 DEF Staying
  <2>3. f[n + 1] = IF list[n + 1] \in gone THEN f[n] ELSE Append(f[n], list[n + 1])
    BY <2>1 DEF Keep
  <2>4. f[n] \in Seq(L)
    BY <1>3
  <2> HIDE DEF L, N
  <2>5. f[n + 1] \in Seq(L)
    <3>1. CASE list[n + 1] \in gone
      BY <2>3, <2>4, <3>1
    <3>2. CASE list[n + 1] \notin gone
      <4>1. \A s \in Seq(L), x \in L : Append(s, x) \in Seq(L)
        OBVIOUS
      <4> HIDE DEF T
      <4> QED
        BY <2>2, <2>3, <2>4, <3>2, <4>1
    <3> QED
      BY <3>1, <3>2
  <2> QED
    BY <2>1, <2>5
<1>4. \A i \in 0 .. N : i \in T
  <2> HIDE DEF T, N
  <2> QED
    BY <1>1, <1>2, <1>3, TurnsReachAll
<1> QED
  BY <1>4

\* The rebuilt list has only entries of the old one, and none that was to go,
\* however often it stood there (client.go:261-266, 279-284).
THEOREM OthersEntries ==
  ASSUME NEW S, NEW list \in Seq(S), NEW gone
  PROVE  Others(list, gone) \in Seq(Staying(S, list, gone))
<1> DEFINE kept == CHOOSE f : f = [i \in 0 .. Len(list) |-> Keep(f, list, gone, i)]
<1>1. Others(list, gone) = kept[Len(list)]
  BY DEF Others, Keep
<1>2. kept = [i \in 0 .. Len(list) |-> Keep(kept, list, gone, i)]
  BY KeptExists
<1> HIDE DEF kept
<1>3. Len(list) \in 0 .. Len(list)
  OBVIOUS
<1> QED
  BY <1>1, <1>2, <1>3, KeptEntries

\* And it keeps every entry that was to stay, at some place (client.go:261-266,
\* 279-284).
THEOREM OthersStay ==
  ASSUME NEW S, NEW list \in Seq(S), NEW gone, NEW k \in 1 .. Len(list), list[k] \notin gone
  PROVE  \E j \in 1 .. Len(Others(list, gone)) : Others(list, gone)[j] = list[k]
<1> DEFINE kept == CHOOSE f : f = [i \in 0 .. Len(list) |-> Keep(f, list, gone, i)]
           N == Len(list)
           L == Staying(S, list, gone)
           T == {i \in 0 .. N : k <= i => \E j \in 1 .. Len(kept[i]) : kept[i][j] = list[k]}
<1>1. Others(list, gone) = kept[N]
  BY DEF Others, Keep
<1>2. kept = [i \in 0 .. N |-> Keep(kept, list, gone, i)]
  BY KeptExists
<1> HIDE DEF kept
<1>3. \A i \in 0 .. N : kept[i] \in Seq(L)
  BY <1>2, KeptEntries
<1>4. 0 \in T
  OBVIOUS
<1>5. ASSUME NEW n \in 0 .. N - 1, n \in T PROVE n + 1 \in T
  <2>1. n \in 0 .. N /\ n + 1 \in 0 .. N /\ n + 1 \in 1 .. N /\ (n + 1) - 1 = n /\ n + 1 # 0
    OBVIOUS
  <2>2. kept[n + 1] = IF list[n + 1] \in gone THEN kept[n] ELSE Append(kept[n], list[n + 1])
    BY <1>2, <2>1 DEF Keep
  <2>3. kept[n] \in Seq(L) /\ Len(kept[n]) \in Nat
    BY <1>3, <2>1
  <2>4. SUFFICES ASSUME k <= n + 1
        PROVE  \E j \in 1 .. Len(kept[n + 1]) : kept[n + 1][j] = list[k]
    BY <2>1
  <2>5. list[n + 1] \notin gone => list[n + 1] \in L
    BY <2>1 DEF Staying
  <2> HIDE DEF L, N
  <2>6. CASE k = n + 1
    <3>1. kept[n + 1] = Append(kept[n], list[k]) /\ list[k] \in L
      BY <2>2, <2>5, <2>6
    <3>2. Len(kept[n]) + 1 \in 1 .. Len(kept[n + 1])
          /\ kept[n + 1][Len(kept[n]) + 1] = list[k]
      BY <2>3, <3>1
    <3> QED
      BY <3>2
  <2>7. CASE k # n + 1
    <3>1. k <= n
      BY <2>1, <2>4, <2>7
    <3>2. PICK j \in 1 .. Len(kept[n]) : kept[n][j] = list[k]
      BY <1>5, <3>1
    <3>3. CASE list[n + 1] \in gone
      BY <2>2, <3>2, <3>3
    <3>4. CASE list[n + 1] \notin gone
      <4>1. kept[n + 1] = Append(kept[n], list[n + 1]) /\ list[n + 1] \in L
        BY <2>2, <2>5, <3>4
      <4>2. j \in 1 .. Len(kept[n + 1]) /\ kept[n + 1][j] = list[k]
        BY <2>3, <3>2, <4>1
      <4> QED
        BY <4>2
    <3> QED
      BY <3>3, <3>4
  <2> QED
    BY <2>6, <2>7
<1>6. N \in T
  <2> HIDE DEF T
  <2>1. N \in 0 .. N /\ N \in Nat
    OBVIOUS
  <2> QED
    BY <1>4, <1>5, <2>1, TurnsReachAll
<1>7. k <= N
  OBVIOUS
<1> QED
  BY <1>1, <1>6, <1>7
==============================================================================
