-------------------------- MODULE ListRequestProofs --------------------------
(***************************************************************************)
(* Theorems about Validity and ListRequest, for any margins, clocks, caps  *)
(* and numbers of callers.                                                 *)
(***************************************************************************)
EXTENDS ListRequest, LoopsProofs

------------------------------------------------------------------------------
(* The time checks                                                           *)

\* A timestamp loses less than a second (authhmac.go:149).
LEMMA StampFloor ==
  ASSUME NEW t \in Int
  PROVE  Stamp(t) \in Int /\ Stamp(t) * Second <= t /\ t <= Stamp(t) * Second + (Second - 1)
  BY ValidityAssumption DEF Stamp

\* At any distance that a Duration can hold with its opposite, Validate
\* accepts the timestamps in the window and no others (authhmac.go:82-121).
THEOREM WindowIsExact ==
  ASSUME NEW at \in Int, NEW ts \in Int, Measurable(at, ts * Second)
  PROVE  Timely(at, ts) <=> ts > 0 /\ ts * Second \in Window(at)
<1> DEFINE createdAt == ts * Second
<1>1. createdAt \in Int
  BY ValidityAssumption
<1>2. Timely(at, ts) <=>
        /\ ts > 0
        /\ IF skew > 0 THEN Drift(Since(at, createdAt)) <= skew ELSE createdAt <= at
        /\ ttl > 0 => Age(Since(at, createdAt)) <= ttl
  BY DEF Timely
<1> HIDE DEF createdAt
<1> QED
  BY <1>1, <1>2, ValidityAssumption
     DEF Window, Measurable, Since, Drift, Opposite, Age, MinDuration, createdAt

\* A message whose age, with what the clocks differ by and the timestamp
\* loses, stays within the margins is accepted (authhmac.go:82-121, 149).
THEOREM PromptIsTimely ==
  ASSUME NEW at \in Int, NEW sentAt \in Int, NEW ahead \in Int,
         sentAt <= at, sentAt + ahead >= Second,
         LET off == IF ahead < 0 THEN -ahead ELSE ahead
             error == (at - sentAt) + off + (Second - 1)
         IN  /\ IF skew > 0 THEN error <= skew ELSE ahead <= 0
             /\ ttl > 0 => error <= ttl
  PROVE  Timely(at, Stamp(sentAt + ahead))
<1> DEFINE ts == Stamp(sentAt + ahead)
           createdAt == ts * Second
<1>1. ts \in Int /\ createdAt <= sentAt + ahead /\ sentAt + ahead <= createdAt + (Second - 1)
  BY StampFloor
<1>2. createdAt \in Int
  BY <1>1, ValidityAssumption
<1>3. ts > 0
  <2>1. createdAt > 0
    BY <1>1, <1>2, ValidityAssumption
  <2> QED
    BY <1>1, <2>1, ValidityAssumption
<1>4. Timely(at, ts) <=>
        /\ ts > 0
        /\ IF skew > 0 THEN Drift(Since(at, createdAt)) <= skew ELSE createdAt <= at
        /\ ttl > 0 => Age(Since(at, createdAt)) <= ttl
  BY DEF Timely
<1> HIDE DEF ts, createdAt
<1>5. skew > 0 => Drift(Since(at, createdAt)) <= skew
  BY <1>1, <1>2, ValidityAssumption DEF Since, Drift, Opposite, MinDuration
<1>6. ~(skew > 0) => createdAt <= at
  BY <1>1, <1>2, ValidityAssumption
<1>7. ttl > 0 => Age(Since(at, createdAt)) <= ttl
  BY <1>1, <1>2, ValidityAssumption DEF Since, Age, MinDuration
<1> QED
  BY <1>3, <1>4, <1>5, <1>6, <1>7 DEF ts

------------------------------------------------------------------------------
(* The delays                                                                *)

\* A delay of Request is longer than the turns that have failed, up to the cap,
\* where the delays stay (httpclient/utils.go:22-35).
THEOREM FiboGrows ==
  ASSUME NEW k \in Nat
  PROVE  /\ k < fiboMax => Fibo(k) \in k + 1 .. fiboMax
         /\ k >= fiboMax => Fibo(k) = fiboMax
<1>1. Backoff!FibonacciAbove(k) = FibonacciAbove(k)
  BY DEF Backoff!FibonacciAbove, FibonacciAbove, Backoff!Turns, Turns
<1>2. FibonacciAbove(k) \in k + 1 .. 2 * k + 1
  BY FibonacciIsAbove
<1>3. Fibo(k) = IF FibonacciAbove(k) > fiboMax THEN fiboMax ELSE FibonacciAbove(k)
  <2>1. ~(k < 0)
    OBVIOUS
  <2> QED
    BY <1>1, <2>1 DEF Fibo, Backoff!fibo
<1> QED
  BY <1>2, <1>3, ListAssumption

\* The k-th delay is within the cap, and above k below it.
LEMMA FiboBounds ==
  ASSUME NEW k \in 1 .. MaxRequests
  PROVE  /\ Fibo(k) \in 1 .. fiboMax
         /\ k < fiboMax => k + 1 <= Fibo(k)
         /\ k >= fiboMax => Fibo(k) = fiboMax
<1>1. CASE k < fiboMax
  BY <1>1, FiboGrows, ListAssumption
<1>2. CASE k >= fiboMax
  BY <1>2, FiboGrows, ListAssumption
<1> QED
  BY <1>1, <1>2, ListAssumption

\* What the least amounts to, up to the cap and beyond it.
LEMMA LeastDelaysValue ==
  ASSUME NEW k \in Nat
  PROVE  /\ k < fiboMax => LeastDelays(k) = k * (k + 3)
         /\ k >= fiboMax => LeastDelays(k) =
              (fiboMax - 1) * (fiboMax + 2) + 2 * (k - (fiboMax - 1)) * fiboMax
         /\ LeastDelays(k) \in Int
<1>1. fiboMax \in Int
  BY ListAssumption
<1>2. k * (k + 3) \in Int
  OBVIOUS
<1>3. (fiboMax - 1) * (fiboMax + 2) + 2 * (k - (fiboMax - 1)) * fiboMax \in Int
  BY <1>1
<1> QED
  BY <1>1, <1>2, <1>3 DEF LeastDelays

\* One more failure adds no more to the least than the delay it costs.
LEMMA LeastDelaysAdd ==
  ASSUME NEW k \in 0 .. MaxRequests - 1
  PROVE  LeastDelays(k + 1) <= LeastDelays(k) + 2 * Fibo(k + 1)
<1> DEFINE F == Fibo(k + 1)
           n == fiboMax
<1>1. /\ F \in 1 .. n
      /\ k + 1 < n => k + 2 <= F
      /\ k + 1 >= n => F = n
  BY FiboBounds, ListAssumption
<1>2. n \in Nat \ {0} /\ k \in Nat /\ k + 1 \in Nat /\ F \in Int
  BY <1>1, ListAssumption
<1>3. CASE k + 1 < n
  <2>1. LeastDelays(k) = k * (k + 3) /\ LeastDelays(k + 1) = (k + 1) * ((k + 1) + 3)
    BY <1>2, <1>3, LeastDelaysValue
  <2>2. (k + 1) * ((k + 1) + 3) = k * (k + 3) + 2 * (k + 2)
    BY <1>2
  <2> HIDE DEF F, n
  <2> QED
    BY <1>1, <1>2, <1>3, <2>1, <2>2 DEF F
<1>4. CASE k + 1 = n
  <2>1. LeastDelays(k) = k * (k + 3)
    BY <1>2, <1>4, LeastDelaysValue
  <2>2. LeastDelays(k + 1) = (n - 1) * (n + 2) + 2 * ((k + 1) - (n - 1)) * n
    BY <1>2, <1>4, LeastDelaysValue
  <2>3. n - 1 = k /\ n + 2 = k + 3 /\ (k + 1) - (n - 1) = 1
    BY <1>2, <1>4
  <2>4. LeastDelays(k + 1) = k * (k + 3) + 2 * n
    BY <1>2, <2>2, <2>3
  <2> QED
    BY <1>1, <1>2, <1>4, <2>1, <2>4
<1>5. CASE k + 1 > n
  <2>1. LeastDelays(k) = (n - 1) * (n + 2) + 2 * (k - (n - 1)) * n
    BY <1>2, <1>5, LeastDelaysValue
  <2>2. LeastDelays(k + 1) = (n - 1) * (n + 2) + 2 * ((k + 1) - (n - 1)) * n
    BY <1>2, <1>5, LeastDelaysValue
  <2>3. 2 * ((k + 1) - (n - 1)) * n = 2 * (k - (n - 1)) * n + 2 * n
    BY <1>2
  <2>4. (n - 1) * (n + 2) \in Int /\ 2 * (k - (n - 1)) * n \in Int
    BY <1>2
  <2> QED
    BY <1>1, <1>2, <1>5, <2>1, <2>2, <2>3, <2>4
<1> QED
  BY <1>2, <1>3, <1>4, <1>5

------------------------------------------------------------------------------
(* The steps                                                                 *)

\* A call begins (request.go:62-63).
LEMMA BeginKeeps ==
  ASSUME ListInv, NEW c \in Caller, Begin(c)
  PROVE  ListInv'
<1> USE DEF ListInv, Begin, Move, worldVars
<1>1. TypeOK'
  BY ListAssumption DEF TypeOK, Points
<1>2. Made' /\ Tested'
  BY DEF TypeOK, Made, Tested
<1>3. Owned' /\ AcceptedIsCurrent'
  BY ListAssumption DEF Times, TypeOK, Owned, AcceptedIsCurrent
<1>4. now \in Int /\ now - now = 0 /\ LeastDelays(0) = 0
  BY ListAssumption DEF TypeOK, Times, LeastDelays
<1>5. Spaced'
  BY DEF TypeOK, Spaced
<1>6. FailuresAreSpaced'
  BY <1>4, ValidityAssumption DEF TypeOK, FailuresAreSpaced
<1> QED
  BY <1>1, <1>2, <1>3, <1>5, <1>6

\* A request is made, with a nonce that nobody has answered
\* (httpclient/client.go:89-115).
LEMMA CreateKeeps ==
  ASSUME ListInv, NEW c \in Caller, Create(c)
  PROVE  ListInv'
<1> USE DEF ListInv, Create, Move
<1>1. nonces \in Nat /\ nonces + 1 \in 1 .. MaxRequests /\ nonces' = nonces + 1
  BY ListAssumption DEF TypeOK
<1>2. TypeOK'
  BY <1>1 DEF TypeOK, Points
<1>3. Made' /\ Tested'
  BY <1>1 DEF TypeOK, Made, Tested, Answers, Nonces
<1>4. \A answer \in made : answer.to # nonces'
  BY <1>1 DEF TypeOK, Made, Answers, Nonces
<1>5. now \in Int
  BY ListAssumption DEF TypeOK, Times
<1>6. Owned'
  <2> SUFFICES ASSUME NEW d \in Caller PROVE
        /\ begun'[d] <= now' /\ asked'[d] <= now' /\ nonce'[d] <= nonces'
        /\ pc'[d] = "sent" =>
             /\ begun'[d] <= asked'[d] /\ nonce'[d] # 0
             /\ \A answer \in made' : answer.to = nonce'[d] => asked'[d] <= answer.at
    BY DEF Owned
  <2>1. CASE d = c
    BY <1>1, <1>4, <1>5, <2>1 DEF TypeOK, Owned
  <2>2. CASE d # c
    BY <1>1, <2>2 DEF TypeOK, Owned
  <2> QED
    BY <2>1, <2>2
<1>7. AcceptedIsCurrent'
  BY DEF TypeOK, AcceptedIsCurrent
<1>8. Spaced' /\ FailuresAreSpaced'
  BY DEF TypeOK, Spaced, FailuresAreSpaced
<1> QED
  BY <1>2, <1>3, <1>6, <1>7, <1>8

\* A turn of the loop fails, and the next one is a delay away
\* (request.go:67-81).
LEMMA SleepKeeps ==
  ASSUME ListInv, NEW c \in Caller, NEW from \in {"creating", "sent"}, Sleep(c, from)
  PROVE  ListInv'
<1> USE DEF ListInv, Sleep, Move, worldVars
<1>1. attemptSeconds[c] = failures[c] /\ failures[c] \in 0 .. MaxRequests - 1
  BY ListAssumption DEF TypeOK, Spaced
<1> DEFINE k == failures[c]
           F == Fibo(k + 1)
<1>2. attemptSeconds'[c] = k + 1 /\ failures'[c] = k + 1 /\ k + 1 \in 1 .. MaxRequests
  BY <1>1, ListAssumption DEF TypeOK
<1>3. wake'[c] = now + F * Second
  BY <1>2 DEF TypeOK
<1>4. F \in Nat /\ now \in Nat /\ begun[c] \in Nat /\ Second \in Nat /\ F * Second \in Nat
  BY <1>2, FiboBounds, ListAssumption, ValidityAssumption DEF TypeOK, Times
<1>5. TypeOK'
  <2>1. attemptSeconds' \in [Caller -> 0 .. MaxRequests]
    BY <1>1, <1>2, ListAssumption DEF TypeOK
  <2>2. failures' \in [Caller -> 0 .. MaxRequests]
    BY <1>1, <1>2, ListAssumption DEF TypeOK
  <2>3. wake' \in [Caller -> Nat]
    BY <1>3, <1>4 DEF TypeOK
  <2>4. pc' \in [Caller -> Points]
    BY DEF TypeOK, Points
  <2> QED
    BY <2>1, <2>2, <2>3, <2>4 DEF TypeOK
<1>6. Made' /\ Tested'
  BY DEF TypeOK, Made, Tested
<1>7. Owned' /\ AcceptedIsCurrent'
  BY DEF TypeOK, Owned, AcceptedIsCurrent
<1>8. 2 * (wake'[c] - begun'[c]) >= LeastDelays(k + 1) * Second
  <2> DEFINE L == LeastDelays(k)
             M == LeastDelays(k + 1)
  <2>1. L \in Int /\ M \in Int
    BY <1>1, <1>2, LeastDelaysValue, ListAssumption
  <2>2. M <= L + 2 * F
    BY <1>1, LeastDelaysAdd
  <2>3. 2 * (now - begun[c]) >= L * Second
    BY DEF FailuresAreSpaced
  <2> HIDE DEF F, L, M, k
  <2>4. M * Second <= (L + 2 * F) * Second
    BY <1>4, <2>1, <2>2
  <2>5. (L + 2 * F) * Second = L * Second + 2 * (F * Second)
    BY <1>4, <2>1
  <2>6. L * Second \in Int /\ M * Second \in Int
    BY <1>4, <2>1
  <2>7. 2 * ((now + F * Second) - begun[c]) >= M * Second
    BY <1>4, <2>3, <2>4, <2>5, <2>6
  <2> QED
    BY <1>3, <2>7 DEF F, M, k
<1>9. Spaced'
  BY <1>2, <1>8 DEF TypeOK, Spaced
<1>10. FailuresAreSpaced'
  BY DEF TypeOK, FailuresAreSpaced
<1> QED
  BY <1>5, <1>6, <1>7, <1>9, <1>10

\* The delay is over.
LEMMA WakeKeeps ==
  ASSUME ListInv, NEW c \in Caller, Wake(c)
  PROVE  ListInv'
<1> USE DEF ListInv, Wake, Move, worldVars
<1>1. TypeOK'
  BY DEF TypeOK, Points
<1>2. Made' /\ Tested' /\ Owned' /\ AcceptedIsCurrent'
  BY DEF TypeOK, Made, Tested, Owned, AcceptedIsCurrent
<1>3. Spaced'
  BY DEF TypeOK, Spaced
<1>4. 2 * (now - begun[c]) >= LeastDelays(failures[c]) * Second
  <2>1. LeastDelays(failures[c]) * Second \in Int
    BY LeastDelaysValue, ValidityAssumption DEF TypeOK
  <2> QED
    BY <2>1, ListAssumption DEF TypeOK, Times, Spaced
<1>5. FailuresAreSpaced'
  BY <1>4 DEF TypeOK, FailuresAreSpaced
<1> QED
  BY <1>1, <1>2, <1>3, <1>5

\* An answer arrives and is tested (request.go:85-119).
LEMMA ReceiveKeeps ==
  ASSUME ListInv, NEW c \in Caller, Receive(c)
  PROVE  ListInv'
<1> USE DEF ListInv, worldVars
<1>1. PICK answer \in made, intact \in BOOLEAN :
        /\ Move(c, "sent", IF Good(c, answer, intact) THEN "accepted" ELSE "failed")
        /\ taken' = [taken EXCEPT ![c] = [answer |-> answer, intact |-> intact, at |-> now]]
        /\ attemptSeconds' = [attemptSeconds EXCEPT ![c] = 0]
        /\ UNCHANGED <<worldVars, nonce, wake, begun, asked, failures>>
  BY DEF Receive
<1> DEFINE ending == [answer |-> answer, intact |-> intact, at |-> now]
<1>2. answer \in Answers /\ ending \in Endings /\ taken'[c] = ending
  BY <1>1 DEF TypeOK, Endings
<1>3. /\ pc[c] = "sent"
      /\ pc'[c] = IF Good(c, answer, intact) THEN "accepted" ELSE "failed"
      /\ \A d \in Caller \ {c} : pc'[d] = pc[d] /\ taken'[d] = taken[d]
  BY <1>1 DEF Move, TypeOK
<1>4. TypeOK'
  <2>1. pc' \in [Caller -> Points]
    BY <1>1 DEF Move, TypeOK, Points
  <2>2. taken' \in [Caller -> Endings \union {NoEnding}]
    BY <1>1, <1>2 DEF TypeOK
  <2>3. attemptSeconds' \in [Caller -> 0 .. MaxRequests]
    BY <1>1, ListAssumption DEF TypeOK
  <2> QED
    BY <1>1, <2>1, <2>2, <2>3 DEF TypeOK
<1>5. Made'
  BY <1>1 DEF Made
<1>6. Owned'
  BY <1>1, <1>3 DEF Owned
<1>7. answer.at <= now /\ answer.ts = Stamp(answer.at + drift)
  BY DEF Made
<1>8. Tested'
  <2> SUFFICES ASSUME NEW d \in Caller, pc'[d] \in {"accepted", "failed"} PROVE
        /\ taken'[d] \in Endings
        /\ taken'[d].answer.at <= taken'[d].at
        /\ taken'[d].answer.ts = Stamp(taken'[d].answer.at + drift)
        /\ pc'[d] = "failed" =>
             ~( /\ taken'[d].intact /\ ~taken'[d].answer.error
                /\ taken'[d].answer.to = nonce[d]
                /\ Timely(taken'[d].at, taken'[d].answer.ts) )
    BY <1>1 DEF Tested
  <2>1. CASE d = c
    BY <1>2, <1>3, <1>7, <2>1 DEF Good
  <2>2. CASE d # c
    BY <1>3, <2>2 DEF Tested
  <2> QED
    BY <2>1, <2>2
<1>9. AcceptedIsCurrent'
  <2> SUFFICES ASSUME NEW d \in Caller, pc'[d] = "accepted" PROVE
        /\ taken'[d].answer.to = nonce[d]
        /\ begun[d] <= asked[d] /\ asked[d] <= taken'[d].answer.at
        /\ taken'[d].answer.at <= taken'[d].at
        /\ Measurable(taken'[d].at, taken'[d].answer.ts * Second)
             => taken'[d].answer.ts * Second \in Window(taken'[d].at)
    BY <1>1 DEF AcceptedIsCurrent
  <2>1. CASE d = c
    <3>1. Good(c, answer, intact)
      BY <1>3, <2>1
    <3>2. answer.to = nonce[c] /\ Timely(now, answer.ts)
      BY <3>1 DEF Good
    <3>3. begun[c] <= asked[c] /\ asked[c] <= answer.at
      BY <1>3, <3>2 DEF Owned
    <3>4. now \in Int /\ answer.ts \in Int
      BY <1>2, ListAssumption DEF TypeOK, Times, Answers
    <3>5. Measurable(now, answer.ts * Second) => answer.ts * Second \in Window(now)
      BY <3>2, <3>4, WindowIsExact
    <3> QED
      BY <1>2, <1>7, <2>1, <3>2, <3>3, <3>5
  <2>2. CASE d # c
    BY <1>3, <2>2 DEF AcceptedIsCurrent
  <2> QED
    BY <2>1, <2>2
<1>10. Spaced' /\ FailuresAreSpaced'
  <2>1. \A d \in Caller \ {c} : attemptSeconds'[d] = attemptSeconds[d]
    BY <1>1 DEF TypeOK
  <2> QED
    BY <1>1, <1>3, <2>1 DEF Spaced, FailuresAreSpaced
<1> QED
  BY <1>4, <1>5, <1>6, <1>8, <1>9, <1>10

\* The server answers a request, at a time that nobody has waited for yet.
LEMMA ServeKeeps ==
  ASSUME ListInv, NEW n \in Nonces, Serve(n)
  PROVE  ListInv'
<1> USE DEF ListInv, callVars
<1>1. PICK error \in BOOLEAN :
        made' = made \union {[to |-> n, at |-> now, ts |-> Stamp(now + drift), error |-> error]}
  BY DEF Serve
<1> DEFINE new == [to |-> n, at |-> now, ts |-> Stamp(now + drift), error |-> error]
<1>2. now \in Int /\ drift \in Int /\ now + drift \in Int
  BY ListAssumption DEF TypeOK, Times
<1>3. Stamp(now + drift) \in Int
  BY <1>2, StampFloor
<1>4. new \in Answers
  BY <1>3 DEF Answers, TypeOK
<1>5. TypeOK'
  BY <1>1, <1>4 DEF Serve, TypeOK
<1>6. Made'
  BY <1>1, <1>2 DEF Serve, Made
<1>7. Owned'
  BY <1>1, <1>2 DEF Serve, Owned
<1>8. Tested' /\ AcceptedIsCurrent' /\ Spaced' /\ FailuresAreSpaced'
  BY DEF Serve, Tested, AcceptedIsCurrent, Spaced, FailuresAreSpaced
<1> QED
  BY <1>5, <1>6, <1>7, <1>8

\* Time passes.
LEMMA TickKeeps ==
  ASSUME ListInv, Tick
  PROVE  ListInv'
<1> USE DEF ListInv, Tick, callVars
<1>1. now \in Int /\ now' = now + 1 /\ now' \in Times
  BY ListAssumption DEF TypeOK, Times
<1>2. TypeOK'
  BY <1>1 DEF TypeOK
<1>3. Made'
  BY <1>1, ListAssumption DEF TypeOK, Answers, Times, Made
<1>4. Owned'
  BY <1>1, ListAssumption DEF TypeOK, Times, Owned
<1>5. Tested' /\ AcceptedIsCurrent' /\ Spaced'
  BY DEF Tested, AcceptedIsCurrent, Spaced
<1>6. FailuresAreSpaced'
  <2> SUFFICES ASSUME NEW c \in Caller, pc[c] \in {"creating", "sent"}
               PROVE  2 * (now' - begun[c]) >= LeastDelays(failures[c]) * Second
    BY DEF FailuresAreSpaced
  <2>1. LeastDelays(failures[c]) * Second \in Int
    BY LeastDelaysValue, ValidityAssumption DEF TypeOK
  <2>2. 2 * (now - begun[c]) >= LeastDelays(failures[c]) * Second
    BY DEF FailuresAreSpaced
  <2>3. begun[c] \in Int
    BY ListAssumption DEF TypeOK, Times
  <2> QED
    BY <1>1, <2>1, <2>2, <2>3
<1> QED
  BY <1>2, <1>3, <1>4, <1>5, <1>6

LEMMA ListStep == ListInv /\ [Next]_vars => ListInv'
<1> SUFFICES ASSUME ListInv, [Next]_vars PROVE ListInv'
  OBVIOUS
<1>1. CASE \E c \in Caller : Request(c)
  BY <1>1, BeginKeeps, CreateKeeps, SleepKeeps, WakeKeeps, ReceiveKeeps
     DEF Request, CreateFails, DoFails
<1>2. CASE \E n \in Nonces : Serve(n)
  BY <1>2, ServeKeeps
<1>3. CASE Tick
  BY <1>3, TickKeeps
<1>4. CASE UNCHANGED vars
  BY <1>4 DEF vars, worldVars, callVars, ListInv, TypeOK, Made, Owned, Tested, Spaced,
     AcceptedIsCurrent, FailuresAreSpaced
<1> QED
  BY <1>1, <1>2, <1>3, <1>4 DEF Next

------------------------------------------------------------------------------
(* The theorems                                                              *)

\* The inductive invariant of the request for the broker list, for any number
\* of callers, margins, clocks and caps (request.go:61-121).
THEOREM ListCorrect == Spec => []ListInv
<1>1. Init => ListInv
  <2> SUFFICES ASSUME Init PROVE ListInv
    OBVIOUS
  <2>1. TypeOK
    BY ListAssumption DEF Init, TypeOK, Points, Times
  <2>2. Made /\ Tested /\ AcceptedIsCurrent /\ Spaced /\ FailuresAreSpaced
    BY DEF Init, Made, Tested, AcceptedIsCurrent, Spaced, FailuresAreSpaced
  <2>3. Owned
    BY ListAssumption DEF Init, Owned
  <2> QED
    BY <2>1, <2>2, <2>3 DEF ListInv
<1> QED
  BY <1>1, ListStep, PTL DEF Spec

\* A list that Start goes on with answers the latest request of its own call
\* and was checked within its window (request.go:100-119).
THEOREM ListsAreCurrent == Spec => []AcceptedIsCurrent
<1>1. ListInv => AcceptedIsCurrent
  BY DEF ListInv
<1> QED
  BY <1>1, ListCorrect, PTL

\* However often the server fails, the requests of a call are at least the
\* delays of its failures apart from its beginning (request.go:67-81).
THEOREM FailuresSpaceRequests == Spec => []FailuresAreSpaced
<1>1. ListInv => FailuresAreSpaced
  BY DEF ListInv
<1> QED
  BY <1>1, ListCorrect, PTL

\* Answers within the margins are never turned away (authhmac.go:82-121,
\* request.go:85-117).
THEOREM PromptAnswersAccepted == Spec => []PromptAnswersAreGood
<1>1. ListInv => PromptAnswersAreGood
  <2> SUFFICES ASSUME ListInv, NEW c \in Caller, pc[c] = "failed",
                      taken[c].intact, ~taken[c].answer.error,
                      taken[c].answer.to = nonce[c],
                      ~(skew > 0 /\ Error(c) > skew),
                      ~(skew <= 0 /\ drift > 0),
                      ~(ttl > 0 /\ Error(c) > ttl)
               PROVE  FALSE
    BY DEF PromptAnswersAreGood
  <2> DEFINE at == taken[c].at
             sentAt == taken[c].answer.at
  <2>1. taken[c] \in Endings /\ sentAt <= at
        /\ taken[c].answer.ts = Stamp(sentAt + drift)
        /\ ~Timely(at, taken[c].answer.ts)
    BY DEF ListInv, Tested
  <2>2. at \in Int /\ sentAt \in Int /\ sentAt >= Epoch
    BY <2>1, ListAssumption DEF Endings, Answers, Times
  <2>3. drift \in Int /\ Epoch + drift >= Second
    BY ListAssumption DEF ListInv, TypeOK
  <2>4. sentAt + drift >= Second
    BY <2>2, <2>3, ListAssumption, ValidityAssumption
  <2>5. Error(c) = (at - sentAt) + (IF drift < 0 THEN -drift ELSE drift) + (Second - 1)
    BY DEF Error
  <2>6. Error(c) \in Int
    BY <2>2, <2>3, <2>5, ValidityAssumption
  <2>7. /\ IF skew > 0 THEN Error(c) <= skew ELSE drift <= 0
        /\ ttl > 0 => Error(c) <= ttl
    BY <2>3, <2>6, ValidityAssumption
  <2> HIDE DEF at, sentAt
  <2>8. Timely(at, Stamp(sentAt + drift))
    BY <2>1, <2>2, <2>3, <2>4, <2>5, <2>7, PromptIsTimely
  <2> QED
    BY <2>1, <2>8 DEF sentAt
<1> QED
  BY <1>1, ListCorrect, PTL
==============================================================================
