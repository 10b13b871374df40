----------------------------- MODULE Conversation -----------------------------
(***************************************************************************)
(* What handlers say while they work on a message: the metadata            *)
(* (metadata/metadata.go) and the typed context (message/context.go) that  *)
(* go with it, from handleRecv (broker/broker.go) through Client.Pub       *)
(* (client/client.go) to GetEvent and back through Pub.Sub (pub/pub.go).   *)
(*                                                                         *)
(* Every handler of a message runs in a goroutine of its own, and all of   *)
(* them find one and the same *MD in their contexts.  Each may make a      *)
(* request with a Pub of its own, by the steps of Replies, and publishes   *)
(* one event.                                                              *)
(***************************************************************************)
EXTENDS Replies

CONSTANTS
  Message,   \* the messages that come in
  Peer,      \* where a request comes from: pod, module, broker and project
  NoPeer,    \* at least one of the four is missing
  Incoming,  \* what messages and answers may look like
  None

\* What is read of a message that comes in.  A context is "bad" that cannot be
\* decoded.
Shapes == [sub : BOOLEAN, peer : Peer \union {NoPeer}, error : BOOLEAN,
           context : {"absent", "good", "bad"}]

ASSUME TalkAssumption ==
  /\ Incoming \subseteq Shapes
  /\ None \notin Incoming
  /\ NoPeer \notin Peer

VARIABLES
  of,      \* the message that each handler, named after its Pub, works on
  given,   \* what each message looked like when it came in, or None
  md,      \* the MD of each message
  step,    \* how far each handler is
  answer,  \* the answer that its call has taken
  typed,   \* the typed context it has in hand, by the message it came with
  asked,   \* the request it has sent last
  told,    \* the event it has published
  changed  \* history: messages whose MD has been merged with a response

talkVars == <<of, given, md, step, answer, typed, asked, told, changed>>
allVars == <<vars, talkVars>>

Steps == {"called", "made", "head", "tail", "told"}

\* The IDs that the fields of an MD can hold: of a message, of an answer (by its
\* Pub and number), of a published event (number 0), of a request (its Pub), none.
Ids == Message \union (Pub \X (0 .. MaxCalls)) \union Pub \union {None}
MDs == [id : Ids, sub : BOOLEAN, subId : Ids, peer : Peer \union {NoPeer}, error : Ids]
Empty == [id |-> None, sub |-> FALSE, subId |-> None, peer |-> NoPeer, error |-> None]
Events == [sub : BOOLEAN, subId : Ids, peer : Peer \union {NoPeer}, typed : Ids, error : Ids]
NoAnswer == [id |-> None]

------------------------------------------------------------------------------
(* Metadata and contexts                                                     *)

\* A faulty variant: one MD for all.
MetaFromContext_Shared(p) == CHOOSE m \in Message : TRUE

\* The MD that the context of handler p leads to.
MetaFromContext(p) == of[p]

\* A faulty variant: the Sub fields are taken from every message.
FromRecvHead_Always(d, id, msg) == [d EXCEPT !.id = id, !.sub = msg.sub, !.subId = id]

\* FromRecv up to SubId, which it takes from the response's own ID.
FromRecvHead(d, id, msg) ==
  [d EXCEPT !.id = id,
            !.sub = @ \/ msg.sub,
            !.subId = IF msg.sub THEN id ELSE @]

\* The rest of FromRecv.
FromRecvTail(d, id, msg) ==
  [d EXCEPT !.peer = IF msg.sub THEN msg.peer ELSE @,
            !.error = IF msg.error THEN id ELSE @]

\* message.FromRecv; without a context that can be decoded the old one stays.
TypedFromRecv(old, id, msg) == IF msg.context = "good" THEN id ELSE old

\* GetEvent: all the routing fields or none of them, and never the error.
GetEvent(d, subscribed, context) ==
  LET routed == d.sub /\ d.peer # NoPeer
  IN  [sub   |-> subscribed \/ routed,
       subId |-> IF routed THEN d.subId ELSE None,
       peer  |-> IF routed THEN d.peer ELSE NoPeer,
       typed |-> context,
       error |-> None]

------------------------------------------------------------------------------
TalkInit ==
  /\ Init
  /\ of \in [Pub -> Message]
  /\ given = [m \in Message |-> None]
  /\ md = [m \in Message |-> Empty]
  /\ step = [p \in Pub |-> "called"]
  /\ answer = [p \in Pub |-> NoAnswer]
  /\ typed = [p \in Pub |-> None]
  /\ asked = [p \in Pub |-> None]
  /\ told = [p \in Pub |-> None]
  /\ changed = {}

Advance(p, from, to) == step[p] = from /\ step' = [step EXCEPT ![p] = to]

\* The typed context that the handlers of m are called with.
Called(m) == TypedFromRecv(None, m, given[m])

\* handleRecv: a message comes in, gets an MD of its own and is handed to its
\* handlers.
HandleRecv(m, msg) ==
  /\ given[m] = None
  /\ given' = [given EXCEPT ![m] = msg]
  /\ md' = [md EXCEPT ![m] = FromRecvTail(FromRecvHead(Empty, m, msg), m, msg)]
  /\ typed' = [p \in Pub |-> IF of[p] = m THEN TypedFromRecv(None, m, msg) ELSE typed[p]]
  /\ UNCHANGED <<vars, of, step, answer, asked, told, changed>>

\* The handler runs and is not inside a call of Sub.
Busy(p) == given[of[p]] # None /\ pc[p] = "idle"

\* Client.Pub, for the request: the ID of the MD becomes the request's.
Pub_(p) ==
  /\ Busy(p)
  /\ Advance(p, "called", "made")
  /\ md' = [md EXCEPT ![MetaFromContext(p)].id = p]
  /\ UNCHANGED <<vars, of, given, answer, typed, asked, told, changed>>

\* Pub.Sub up to the answer.
Ask(p) ==
  /\ step[p] = "made"
  /\ Open(p) \/ Register(p) \/ SendReturns(p) \/ SendFails(p) \/ GiveUp(p)
  /\ UNCHANGED talkVars

\* Broker.Send encodes the event when a broker takes it.
SendEvent(p) ==
  /\ SendTakes(p)
  /\ asked' = [asked EXCEPT ![p] = GetEvent(md[MetaFromContext(p)], TRUE, Called(of[p]))]
  /\ UNCHANGED <<of, given, md, step, answer, typed, told, changed>>

\* The answer is there.
TakeAnswer(p, msg) ==
  /\ TakeReply(p)
  /\ Advance(p, "made", "head")
  /\ \E k \in Numbers :
       /\ <<p, call[p], k>> \in senders \ senders'
       /\ answer' = [answer EXCEPT ![p] = [id |-> <<p, k>>, msg |-> msg]]
  /\ UNCHANGED <<of, given, md, typed, asked, told, changed>>

\* FromRecv writes into the MD that the other handlers use, with nothing that
\* keeps them from seeing it half done.
MergeHead(p) ==
  /\ Advance(p, "head", "tail")
  /\ md' = [md EXCEPT ![MetaFromContext(p)] = FromRecvHead(@, answer[p].id, answer[p].msg)]
  /\ changed' = IF answer[p].msg.sub THEN changed \union {MetaFromContext(p)} ELSE changed
  /\ UNCHANGED <<vars, of, given, answer, typed, asked, told>>

\* The typed context of an answer without an error is in the context that Sub
\* returns, which the handler may go on with or not.
MergeTail(p) ==
  /\ Advance(p, "tail", "made")
  /\ md' = [md EXCEPT ![MetaFromContext(p)] = FromRecvTail(@, answer[p].id, answer[p].msg)]
  /\ typed' \in
       {typed, IF answer[p].msg.error THEN typed
               ELSE [typed EXCEPT ![p] = TypedFromRecv(Called(of[p]), answer[p].id, answer[p].msg)]}
  /\ answer' = [answer EXCEPT ![p] = NoAnswer]
  /\ UNCHANGED <<vars, of, given, asked, told, changed>>

\* Sub returns.
Return(p) ==
  /\ step[p] = "made"
  /\ Unregister(p)
  /\ UNCHANGED talkVars

\* WithError, in a handler.
WithError(p) ==
  /\ Busy(p) /\ step[p] \in {"called", "made"}
  /\ md' = [md EXCEPT ![MetaFromContext(p)].error = p]
  /\ UNCHANGED <<vars, of, given, step, answer, typed, asked, told, changed>>

\* Client.Pub and Do, for the event that the handler publishes.
Do(p) ==
  /\ Busy(p)
  /\ Advance(p, "called", "told") \/ Advance(p, "made", "told")
  /\ md' = [md EXCEPT ![MetaFromContext(p)].id = <<p, 0>>]
  /\ told' = [told EXCEPT ![p] = GetEvent(md[MetaFromContext(p)], FALSE, typed[p])]
  /\ UNCHANGED <<vars, of, given, answer, typed, asked, changed>>

\* A read loop brings an answer to the callbacks.
Answered(p) ==
  /\ \E k \in Numbers : Recv(p, k)
  /\ UNCHANGED talkVars

Handler(p) ==
  \/ Pub_(p) \/ Ask(p) \/ SendEvent(p) \/ MergeHead(p) \/ MergeTail(p)
  \/ Return(p) \/ WithError(p) \/ Do(p) \/ Answered(p)
  \/ \E msg \in Incoming : TakeAnswer(p, msg)

TalkNext ==
  \/ \E p \in Pub : Handler(p)
  \/ \E m \in Message, msg \in Incoming : HandleRecv(m, msg)

TalkSpec == TalkInit /\ [][TalkNext]_allVars

------------------------------------------------------------------------------
(* Properties                                                                *)

Said(p) == {asked[p], told[p]} \ {None}

\* The IDs of a message and of the answers to what its handlers have asked.
Sources(m) == {m} \union {q \in Pub \X Numbers : of[q[1]] = m}

\* What belongs to one message stays with it: the route and the error in an MD
\* and the route of an event come from that message and the answers to its own
\* handlers, whichever others are worked on at the same time, and the typed
\* context from the message or the handler's own answers
\* (metadata.go:59-97, client.go:116-132, pub.go:89-103).
MessagesStayApart ==
  /\ \A m \in Message :
       /\ md[m].subId \in Sources(m) \union {None}
       /\ md[m].error \in Sources(m) \union {p \in Pub : of[p] = m} \union {None}
  /\ \A p \in Pub : \A e \in Said(p) :
       /\ e.subId \in Sources(of[p]) \union {None}
       /\ e.typed \in {of[p], None} \union ({p} \X Numbers)

\* The route of a message: its ID and peer if it asks for a response.
RouteOf(m) ==
  IF given[m].sub /\ given[m].peer # NoPeer THEN <<m, given[m].peer>> ELSE <<None, NoPeer>>

\* Until one of its handlers has merged a response, every event that they
\* publish goes back to where the message came from, whatever plain answers,
\* errors and other handlers have written into the MD meanwhile
\* (metadata.go:66-75, pub.go:126-135).
RouteIsKept ==
  \A p \in Pub : of[p] \notin changed =>
    \A e \in Said(p) : <<e.subId, e.peer>> = RouteOf(of[p])

------------------------------------------------------------------------------
(* Why they hold                                                             *)

TalkTypeOK ==
  /\ of \in [Pub -> Message]
  /\ given \in [Message -> Incoming \union {None}]
  /\ md \in [Message -> MDs]
  /\ step \in [Pub -> Steps]
  /\ answer \in [Pub -> [id : Pub \X Numbers, msg : Incoming] \union {NoAnswer}]
  /\ typed \in [Pub -> Ids]
  /\ asked \in [Pub -> Events \union {None}]
  /\ told \in [Pub -> Events \union {None}]
  /\ changed \subseteq Message

\* An answer is one's own, and is there while it is being merged; before its
\* message has come in a handler has done nothing.
Working ==
  \A p \in Pub :
    /\ step[p] \in {"head", "tail"} =>
         /\ answer[p] \in [id : {p} \X Numbers, msg : Incoming]
         /\ pc[p] = "leaving"
    /\ step[p] = "tail" /\ answer[p].msg.sub => of[p] \in changed
    /\ typed[p] \in {of[p], None} \union ({p} \X Numbers)
    /\ given[of[p]] = None =>
         step[p] = "called" /\ pc[p] = "idle" /\ asked[p] = None /\ told[p] = None

\* The MD of a message that no response has been merged into.
Unchanged ==
  \A m \in Message \ changed :
    IF given[m] = None THEN md[m] = Empty
    ELSE /\ md[m].sub = given[m].sub
         /\ given[m].sub => md[m].subId = m /\ md[m].peer = given[m].peer
         /\ ~given[m].sub => md[m].subId = None /\ md[m].peer = NoPeer

\* The inductive invariant.
TalkInv ==
  RepliesInv /\ TalkTypeOK /\ Working /\ Unchanged /\ MessagesStayApart /\ RouteIsKept
==============================================================================
