------------------------------- MODULE Replies -------------------------------
(***************************************************************************)
(* A request and its reply: Pub.Sub (pub/pub.go) with the callbacks it     *)
(* registers (callback/callback.go).                                       *)
(*                                                                         *)
(* A Pub is used by one goroutine, which may call Sub on it again, after a *)
(* timeout say; the n-th call makes the n-th channel.  All its calls share *)
(* one ID and so one key in the callback list.  The server answers each    *)
(* request at most once, at any time, and any broker's read loop may bring *)
(* the answer.                                                             *)
(***************************************************************************)
EXTENDS Naturals

CONSTANTS
  Pub,      \* the events that wait for replies
  MaxCalls  \* bound on the calls of Sub on one Pub

ASSUME CallsAssumption == MaxCalls \in Nat

VARIABLES
  pc,        \* where the goroutine of each Pub stands
  call,      \* number of the latest call of Sub, and of its channel
  list,      \* Callback.list: number of the channel filed for each Pub, or 0
  sent,      \* requests that a broker has taken, by number
  answered,  \* those whose answer a read loop has seen
  senders    \* <<p, n, k>>: goroutine blocked on channel n with the answer to k

wireVars == <<sent, answered>>
vars == <<pc, call, list, wireVars, senders>>

Numbers == 1 .. MaxCalls
Points == {"idle", "opened", "registered", "waiting", "leaving"}

TypeOK ==
  /\ pc \in [Pub -> Points]
  /\ call \in [Pub -> 0 .. MaxCalls]
  /\ list \in [Pub -> 0 .. MaxCalls]
  /\ sent \in [Pub -> SUBSET Numbers]
  /\ answered \in [Pub -> SUBSET Numbers]
  /\ senders \subseteq Pub \X Numbers \X Numbers

Init ==
  /\ pc = [p \in Pub |-> "idle"]
  /\ call = [p \in Pub |-> 0]
  /\ list = [p \in Pub |-> 0]
  /\ sent = [p \in Pub |-> {}]
  /\ answered = [p \in Pub |-> {}]
  /\ senders = {}

Move(p, from, to) == pc[p] = from /\ pc' = [pc EXCEPT ![p] = to]

------------------------------------------------------------------------------
(* Pub.Sub                                                                   *)

\* make(chan): the channel exists, nobody else knows it.
Open(p) ==
  /\ Move(p, "idle", "opened")
  /\ call[p] < MaxCalls
  /\ call' = [call EXCEPT ![p] = @ + 1]
  /\ UNCHANGED <<list, wireVars, senders>>

\* RegisterCbFunc files the channel under the key of the Pub.
Register(p) ==
  /\ Move(p, "opened", "registered")
  /\ list' = [list EXCEPT ![p] = call[p]]
  /\ UNCHANGED <<call, wireVars, senders>>

\* A faulty variant: the request goes out before the callback is filed.
SendTakes_First(p) ==
  /\ pc[p] \in {"opened", "registered"}
  /\ call[p] \notin sent[p]
  /\ sent' = [sent EXCEPT ![p] = @ \union {call[p]}]
  /\ UNCHANGED <<pc, call, list, answered, senders>>

\* SendFunc has handed the request to a broker.
SendTakes(p) ==
  /\ pc[p] = "registered"
  /\ call[p] \notin sent[p]
  /\ sent' = [sent EXCEPT ![p] = @ \union {call[p]}]
  /\ UNCHANGED <<pc, call, list, answered, senders>>

\* SendFunc returns nil.
SendReturns(p) ==
  /\ call[p] \in sent[p]
  /\ Move(p, "registered", "waiting")
  /\ UNCHANGED <<call, list, wireVars, senders>>

\* SendFunc returns an error, which does not tell whether a broker has taken the
\* request.
SendFails(p) ==
  /\ Move(p, "registered", "leaving")
  /\ UNCHANGED <<call, list, wireVars, senders>>

\* The channel's case of the select.
TakeReply(p) ==
  /\ Move(p, "waiting", "leaving")
  /\ \E k \in Numbers :
       /\ <<p, call[p], k>> \in senders
       /\ senders' = senders \ {<<p, call[p], k>>}
  /\ UNCHANGED <<call, list, wireVars>>

\* The context's case.
GiveUp(p) ==
  /\ Move(p, "waiting", "leaving")
  /\ UNCHANGED <<call, list, wireVars, senders>>

\* A faulty variant: no deferred UnregisterCbFunc.
Unregister_Forgotten(p) ==
  /\ Move(p, "leaving", "idle")
  /\ UNCHANGED <<call, list, wireVars, senders>>

\* The deferred UnregisterCbFunc, and Sub returns.
Unregister(p) ==
  /\ Move(p, "leaving", "idle")
  /\ list' = [list EXCEPT ![p] = 0]
  /\ UNCHANGED <<call, wireVars, senders>>

------------------------------------------------------------------------------
(* Callback.Recv                                                             *)

\* A faulty variant: the channels of all calls stay filed, and each is offered
\* the answer.
Recv_ToEveryCall(p, k) ==
  /\ k \in sent[p] \ answered[p]
  /\ answered' = [answered EXCEPT ![p] = @ \union {k}]
  /\ senders' = senders \union {<<p, n, k>> : n \in 1 .. call[p]}
  /\ UNCHANGED <<pc, call, list, sent>>

\* A read loop brings the answer to the k-th request: without an entry it is
\* dropped, else a goroutine of its own offers it to the channel.
Recv(p, k) ==
  /\ k \in sent[p] \ answered[p]
  /\ answered' = [answered EXCEPT ![p] = @ \union {k}]
  /\ senders' = IF list[p] = 0 THEN senders ELSE senders \union {<<p, list[p], k>>}
  /\ UNCHANGED <<pc, call, list, sent>>

------------------------------------------------------------------------------
Sub(p) ==
  \/ Open(p) \/ Register(p) \/ SendTakes(p) \/ SendReturns(p) \/ SendFails(p)
  \/ TakeReply(p) \/ GiveUp(p) \/ Unregister(p)

Next == \E p \in Pub : Sub(p) \/ \E k \in Numbers : Recv(p, k)

Spec == Init /\ [][Next]_vars

------------------------------------------------------------------------------
(* Properties                                                                *)

\* The key of a Pub leads to the channel of the call that is under way, and to
\* none when no call is: not to that of an earlier call, whatever ended it
\* (pub.go:78-80, callback.go:63-77).
KeyFiled ==
  \A p \in Pub :
    list[p] = IF pc[p] \in {"registered", "waiting", "leaving"} THEN call[p] ELSE 0

\* An answer cannot come too early: however fast it is, it gets to the channel
\* of the call that sent the request, unless that call is on its way out
\* (pub.go:69-70, 78-85).
FastReplyIsCaught ==
  [][\A p \in Pub, k \in Numbers :
       /\ k \in answered'[p] \ answered[p]
       /\ k = call[p] /\ pc[p] \notin {"leaving", "idle"}
       => <<p, k, k>> \in senders']_vars

\* What late answers leave behind: each answered request has at most one
\* goroutine that still offers its answer, and it offers it to that call or to a
\* later call on the same Pub, never to an earlier one (callback.go:58-60,
\* pub.go:79-86).
OneOfferEach ==
  /\ \A s, t \in senders : s[1] = t[1] /\ s[3] = t[3] => s = t
  /\ \A s \in senders : s[3] \in answered[s[1]] /\ s[3] <= s[2] /\ s[2] <= call[s[1]]

\* No call is under way without its number, and only a call whose callback is
\* filed has sent its request.
Sent ==
  \A p \in Pub :
    /\ pc[p] # "idle" => call[p] \in Numbers
    /\ pc[p] = "opened" => call[p] \notin sent[p]
    /\ \A k \in sent[p] : k <= call[p]
\* The inductive invariant.
RepliesInv == TypeOK /\ KeyFiled /\ Sent /\ OneOfferEach
==============================================================================
