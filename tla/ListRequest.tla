----------------------------- MODULE ListRequest -----------------------------
(***************************************************************************)
(* The request for the broker list: the loop of Request                    *)
(* (broker/request.go) with Create, Do and the checks of the answer        *)
(* (httpclient/, authhmac/).                                               *)
(*                                                                         *)
(* A caller is a goroutine that runs Client.Start; several may run at      *)
(* once, with nothing in common but the clock.  The server has a clock of  *)
(* its own and answers a request at any time, or never.  What carries the  *)
(* answers may lose or garble one, or bring one that was made for another  *)
(* request.                                                                *)
(***************************************************************************)
EXTENDS Validity

CONSTANTS
  Caller,
  fiboMax,      \* httpclient/utils.go:31, 16 in the source
  Drifts,       \* by how much the server's clock may be ahead of ours
  Epoch,        \* the time at which the program starts
  MaxRequests,  \* bound on the requests of all calls
  MaxNow        \* bound on the time

Backoff == INSTANCE Backoff WITH durationMax <- fiboMax

\* httpclient/utils.go has the loop of the broker's fibo, with its own cap.
Fibo(attempt) == Backoff!fibo(attempt)

ASSUME ListAssumption ==
  /\ fiboMax \in Nat \ {0}
  /\ Drifts \subseteq Int
  /\ \A d \in Drifts : Epoch + d >= Second  \* no clock shows 1970
  /\ Epoch \in Nat /\ MaxNow \in Nat /\ Epoch <= MaxNow
  /\ MaxRequests \in Nat

VARIABLES
  now,             \* our clock
  drift,           \* the server's clock shows now + drift
  nonces,          \* how many nonces have been drawn
  made,            \* the answers of the server
  pc,              \* where each caller stands
  attemptSeconds,  \* the counter of Request's loop
  nonce,           \* request.hmac.Nonce of the latest request
  wake,            \* when time.Sleep may return, 0 for a caller that is not in it
  begun, asked,    \* history: when the call and its latest request began
  failures,        \* history: how many turns of the call's loop have failed
  taken            \* history: the answer a call ended with, and when

worldVars == <<now, drift, nonces, made>>
callVars == <<attemptSeconds, nonce, wake, begun, asked, failures>>
vars == <<worldVars, pc, callVars, taken>>

Times == Epoch .. MaxNow
Nonces == 1 .. MaxRequests
Points == {"idle", "creating", "sent", "sleeping", "accepted", "failed"}

\* An answer: the request_nonce it echoes, when it was made and its
\* X-Timestamp, and whether it reports an error.
Answers == [to : Nonces, at : Times, ts : Int, error : BOOLEAN]

\* How a call ends: the answer, whether its body and its headers arrived as
\* they were sent, and when.
Endings == [answer : Answers, intact : BOOLEAN, at : Times]
NoEnding == [answer |-> "none"]

TypeOK ==
  /\ now \in Times /\ drift \in Drifts
  /\ nonces \in 0 .. MaxRequests
  /\ made \subseteq Answers
  /\ pc \in [Caller -> Points]
  /\ attemptSeconds \in [Caller -> 0 .. MaxRequests]
  /\ nonce \in [Caller -> 0 .. MaxRequests]
  /\ wake \in [Caller -> Nat]
  /\ begun \in [Caller -> Times] /\ asked \in [Caller -> Times]
  /\ failures \in [Caller -> 0 .. MaxRequests]
  /\ taken \in [Caller -> Endings \union {NoEnding}]

Init ==
  /\ now = Epoch /\ drift \in Drifts
  /\ nonces = 0 /\ made = {}
  /\ pc = [c \in Caller |-> "idle"]
  /\ attemptSeconds = [c \in Caller |-> 0]
  /\ nonce = [c \in Caller |-> 0]
  /\ wake = [c \in Caller |-> 0]
  /\ begun = [c \in Caller |-> Epoch] /\ asked = [c \in Caller |-> Epoch]
  /\ failures = [c \in Caller |-> 0]
  /\ taken = [c \in Caller |-> NoEnding]

\* Start panics on an error of Request, and the process ends.
Alive == \A c \in Caller : pc[c] # "failed"

Move(c, from, to) == Alive /\ pc[c] = from /\ pc' = [pc EXCEPT ![c] = to]

------------------------------------------------------------------------------
(* Request                                                                   *)

\* Client.Start calls it, for the first time or again.
Begin(c) ==
  /\ Move(c, "idle", "creating") \/ Move(c, "accepted", "creating")
  /\ attemptSeconds' = [attemptSeconds EXCEPT ![c] = 0]
  /\ begun' = [begun EXCEPT ![c] = now]
  /\ failures' = [failures EXCEPT ![c] = 0]
  /\ taken' = [taken EXCEPT ![c] = NoEnding]
  /\ UNCHANGED <<worldVars, nonce, wake, asked>>

\* A faulty variant: the counter is made anew for each turn of the loop.
Create_Forgets(c) ==
  /\ Move(c, "creating", "sent")
  /\ nonces < MaxRequests
  /\ nonces' = nonces + 1
  /\ nonce' = [nonce EXCEPT ![c] = nonces']
  /\ asked' = [asked EXCEPT ![c] = now]
  /\ attemptSeconds' = [attemptSeconds EXCEPT ![c] = 0]
  /\ UNCHANGED <<now, drift, made, wake, begun, failures, taken>>

\* Create and Generate sign the request with a nonce that is new.
Create(c) ==
  /\ Move(c, "creating", "sent")
  /\ nonces < MaxRequests
  /\ nonces' = nonces + 1
  /\ nonce' = [nonce EXCEPT ![c] = nonces']
  /\ asked' = [asked EXCEPT ![c] = now]
  /\ UNCHANGED <<now, drift, made, attemptSeconds, wake, begun, failures, taken>>

\* A faulty variant: the delay is computed before the counter goes up.
Sleep_DelayBefore(c, from) ==
  /\ Move(c, from, "sleeping")
  /\ failures[c] < MaxRequests
  /\ attemptSeconds' = [attemptSeconds EXCEPT ![c] = @ + 1]
  /\ wake' = [wake EXCEPT ![c] = now + Fibo(attemptSeconds[c]) * Second]
  /\ failures' = [failures EXCEPT ![c] = @ + 1]
  /\ UNCHANGED <<worldVars, nonce, begun, asked, taken>>

\* Another turn of the loop, after a delay.
Sleep(c, from) ==
  /\ Move(c, from, "sleeping")
  /\ failures[c] < MaxRequests
  /\ attemptSeconds' = [attemptSeconds EXCEPT ![c] = @ + 1]
  /\ wake' = [wake EXCEPT ![c] = now + Fibo(attemptSeconds'[c]) * Second]
  /\ failures' = [failures EXCEPT ![c] = @ + 1]
  /\ UNCHANGED <<worldVars, nonce, begun, asked, taken>>

\* The address cannot be parsed, the options cannot be encoded or there is no
\* nonce.
CreateFails(c) == Sleep(c, "creating")

\* No response, or one whose status is not 200.
DoFails(c) == Sleep(c, "sent")

Wake(c) ==
  /\ Move(c, "sleeping", "creating")
  /\ now >= wake[c]
  /\ wake' = [wake EXCEPT ![c] = 0]
  /\ UNCHANGED <<worldVars, attemptSeconds, nonce, begun, asked, failures, taken>>

\* A faulty variant: any answer that is signed and of the right age will do.
Good_AnyRequest(c, answer, intact) ==
  intact /\ ~answer.error /\ Timely(now, answer.ts)

\* The body can be read and decoded and reports no error, the signature and
\* its time are good, and the answer echoes the nonce of the request.
Good(c, answer, intact) ==
  intact /\ ~answer.error /\ Timely(now, answer.ts) /\ answer.to = nonce[c]

\* A response with status 200: Request returns.
Receive(c) ==
  \E answer \in made, intact \in BOOLEAN :
    /\ Move(c, "sent", IF Good(c, answer, intact) THEN "accepted" ELSE "failed")
    /\ taken' = [taken EXCEPT ![c] = [answer |-> answer, intact |-> intact, at |-> now]]
    /\ attemptSeconds' = [attemptSeconds EXCEPT ![c] = 0]
    /\ UNCHANGED <<worldVars, nonce, wake, begun, asked, failures>>

------------------------------------------------------------------------------
(* The server and the time                                                   *)

\* The server answers the n-th request, which may have been given up by then.
Serve(n) ==
  /\ Alive
  /\ n <= nonces
  /\ \A answer \in made : answer.to # n
  /\ \E error \in BOOLEAN :
       made' = made \union
         {[to |-> n, at |-> now, ts |-> Stamp(now + drift), error |-> error]}
  /\ UNCHANGED <<now, drift, nonces, pc, callVars, taken>>

Tick ==
  /\ Alive
  /\ now < MaxNow
  /\ now' = now + 1
  /\ UNCHANGED <<drift, nonces, made, pc, callVars, taken>>

------------------------------------------------------------------------------
Request(c) ==
  Begin(c) \/ Create(c) \/ CreateFails(c) \/ DoFails(c) \/ Wake(c) \/ Receive(c)

Next ==
  \/ \E c \in Caller : Request(c)
  \/ \E n \in Nonces : Serve(n)
  \/ Tick

Spec == Init /\ [][Next]_vars

------------------------------------------------------------------------------
(* Properties                                                                *)

\* A list that Start goes on with answers the latest request of its own call,
\* so that it was made after that request began, and its timestamp was in the
\* window when it was checked: an answer to an attempt that was given up, to
\* another caller or to an earlier call never passes (request.go:100-119).
AcceptedIsCurrent ==
  \A c \in Caller : pc[c] = "accepted" =>
    LET answer == taken[c].answer
    IN  /\ answer.to = nonce[c]
        /\ begun[c] <= asked[c] /\ asked[c] <= answer.at /\ answer.at <= taken[c].at
        /\ Measurable(taken[c].at, answer.ts * Second)
             => answer.ts * Second \in Window(taken[c].at)

\* How far the answer's time may seem from ours: its age, what the server's
\* clock is off and what the timestamp loses.
Error(c) ==
  (taken[c].at - taken[c].answer.at) + (IF drift < 0 THEN -drift ELSE drift) + (Second - 1)

\* The checks do not turn away what they are for: an answer to the latest
\* request that arrives whole and reports no error ends the process only if
\* its age and the server's clock use up one of the margins, however the
\* timestamp was rounded (authhmac.go:82-121, request.go:85-117).
PromptAnswersAreGood ==
  \A c \in Caller :
    /\ pc[c] = "failed"
    /\ taken[c].intact /\ ~taken[c].answer.error /\ taken[c].answer.to = nonce[c]
    => \/ skew > 0 /\ Error(c) > skew
       \/ skew <= 0 /\ drift > 0
       \/ ttl > 0 /\ Error(c) > ttl

\* The least time that k delays take, in half seconds: the k-th is longer
\* than k seconds up to the cap.
LeastDelays(k) ==
  IF k < fiboMax THEN k * (k + 3)
  ELSE (fiboMax - 1) * (fiboMax + 2) + 2 * (k - (fiboMax - 1)) * fiboMax

\* A server that fails is asked less and less often: when a call makes a
\* request again, at least the delays of all its failures have passed
\* (request.go:67-81).
FailuresAreSpaced ==
  \A c \in Caller : pc[c] \in {"creating", "sent"} =>
    2 * (now - begun[c]) >= LeastDelays(failures[c]) * Second

------------------------------------------------------------------------------
(* Why the properties hold                                                   *)

\* Every answer was made for a request that exists, with the server's time.
Made ==
  \A answer \in made :
    /\ answer.to <= nonces /\ answer.at <= now
    /\ answer.ts = Stamp(answer.at + drift)

\* A nonce belongs to one call, which began it before anybody could answer it.
Owned ==
  \A c \in Caller :
    /\ begun[c] <= now /\ asked[c] <= now /\ nonce[c] <= nonces
    /\ pc[c] = "sent" =>
         /\ begun[c] <= asked[c] /\ nonce[c] # 0
         /\ \A answer \in made : answer.to = nonce[c] => asked[c] <= answer.at

\* What an ended call took was one of the answers, and it was tested.
Tested ==
  \A c \in Caller : pc[c] \in {"accepted", "failed"} =>
    /\ taken[c] \in Endings
    /\ taken[c].answer.at <= taken[c].at
    /\ taken[c].answer.ts = Stamp(taken[c].answer.at + drift)
    /\ pc[c] = "failed" =>
         ~( /\ taken[c].intact /\ ~taken[c].answer.error
            /\ taken[c].answer.to = nonce[c]
            /\ Timely(taken[c].at, taken[c].answer.ts) )

\* The counter counts the call's failures, and a sleeper has its delay ahead of it.
Spaced ==
  \A c \in Caller :
    /\ pc[c] \in {"creating", "sent", "sleeping"} => attemptSeconds[c] = failures[c]
    /\ pc[c] = "sleeping" =>
         2 * (wake[c] - begun[c]) >= LeastDelays(failures[c]) * Second

ListInv ==
  TypeOK /\ Made /\ Owned /\ Tested /\ Spaced /\ AcceptedIsCurrent /\ FailuresAreSpaced
==============================================================================
