-------------------------- MODULE ConversationProofs --------------------------
(***************************************************************************)
(* Theorems about Replies, for any Pubs and any number of calls on them,   *)
(* and about Conversation, for any messages, handlers, peers and looks of  *)
(* messages.                                                               *)
(***************************************************************************)
EXTENDS Conversation, TLAPS

------------------------------------------------------------------------------
(* Replies: Spec, Next and vars are those of Pub.Sub and Callback alone      *)

\* Every step of Pub.Sub and of Callback.Recv keeps the invariant.
LEMMA RepliesStep == RepliesInv /\ [Next]_vars => RepliesInv'
<1> SUFFICES ASSUME RepliesInv, [Next]_vars PROVE RepliesInv'
  OBVIOUS
<1> USE CallsAssumption DEF RepliesInv, TypeOK, KeyFiled, Sent, OneOfferEach, Points, Numbers
<1>1. ASSUME NEW p \in Pub, Open(p) PROVE RepliesInv'
  BY <1>1 DEF Open, Move, wireVars
<1>2. ASSUME NEW p \in Pub, Register(p) PROVE RepliesInv'
  BY <1>2 DEF Register, Move, wireVars
<1>3. ASSUME NEW p \in Pub, SendTakes(p) PROVE RepliesInv'
  BY <1>3 DEF SendTakes
<1>4. ASSUME NEW p \in Pub, SendReturns(p) \/ SendFails(p) PROVE RepliesInv'
  BY <1>4 DEF SendReturns, SendFails, Move, wireVars
<1>5. ASSUME NEW p \in Pub, TakeReply(p) PROVE RepliesInv'
  BY <1>5 DEF TakeReply, Move, wireVars
<1>6. ASSUME NEW p \in Pub, GiveUp(p) PROVE RepliesInv'
  BY <1>6 DEF GiveUp, Move, wireVars
<1>7. ASSUME NEW p \in Pub, Unregister(p) PROVE RepliesInv'
  BY <1>7 DEF Unregister, Move, wireVars
<1>8. ASSUME NEW p \in Pub, NEW k \in Numbers, Recv(p, k) PROVE RepliesInv'
  BY <1>8 DEF Recv
<1>9. CASE UNCHANGED vars
  BY <1>9 DEF vars, wireVars
<1> QED
  BY <1>1, <1>2, <1>3, <1>4, <1>5, <1>6, <1>7, <1>8, <1>9 DEF Next, Sub

\* The types of the state and the callback list's keys, whatever the order of
\* calls, answers and cancellations.
THEOREM RepliesCorrect == Spec => []RepliesInv
<1>1. Init => RepliesInv
  BY CallsAssumption DEF Init, RepliesInv, TypeOK, KeyFiled, Sent, OneOfferEach, Points, Numbers
<1> QED
  BY <1>1, RepliesStep, PTL DEF Spec

\* No answer overtakes the registration of its callback (pub.go:78-85).
THEOREM NoReplyIsMissed == Spec => FastReplyIsCaught
<1> DEFINE Caught ==
      \A p \in Pub, k \in Numbers :
        /\ k \in answered'[p] \ answered[p]
        /\ k = call[p] /\ pc[p] \notin {"leaving", "idle"}
        => <<p, k, k>> \in senders'
<1>1. RepliesInv /\ [Next]_vars => [Caught]_vars
  <2> SUFFICES ASSUME RepliesInv, Next,
                      NEW p \in Pub, NEW k \in Numbers,
                      k \in answered'[p] \ answered[p],
                      k = call[p], pc[p] \notin {"leaving", "idle"}
               PROVE  <<p, k, k>> \in senders'
    OBVIOUS
  <2>1. PICK q \in Pub : Sub(q) \/ \E n \in Numbers : Recv(q, n)
    BY DEF Next
  <2>2. ~Sub(q)
    BY DEF Sub, Open, Register, SendTakes, SendReturns, SendFails, TakeReply, GiveUp,
       Unregister, wireVars
  <2>3. PICK n \in Numbers : Recv(q, n)
    BY <2>1, <2>2
  <2>4. q = p /\ n = k
    BY <2>3 DEF Recv, RepliesInv, TypeOK
  <2>5. pc[p] \in {"registered", "waiting"}
    BY <2>3, <2>4 DEF Recv, RepliesInv, TypeOK, Points, Sent
  <2>6. list[p] = k /\ k # 0
    BY <2>5 DEF RepliesInv, KeyFiled, Numbers
  <2> QED
    BY <2>3, <2>4, <2>6 DEF Recv
<1> QED
  BY <1>1, RepliesCorrect, PTL DEF Spec, FastReplyIsCaught

------------------------------------------------------------------------------
(* Conversation                                                              *)

\* Whatever handlers do with metadata, their requests go by the steps of
\* Replies.
LEMMA TalkSteps == [TalkNext]_allVars => [Next]_vars
<1> SUFFICES ASSUME TalkNext PROVE [Next]_vars
  BY DEF allVars
<1>1. ASSUME NEW p \in Pub, Handler(p) PROVE [Next]_vars
  BY <1>1 DEF Handler, Pub_, Ask, SendEvent, TakeAnswer, MergeHead, MergeTail, Return,
     WithError, Do, Answered, Next, Sub
<1>2. ASSUME NEW m \in Message, NEW msg \in Incoming, HandleRecv(m, msg) PROVE [Next]_vars
  BY <1>2 DEF HandleRecv
<1> QED
  BY <1>1, <1>2 DEF TalkNext

\* What FromRecv and GetEvent make.
LEMMA MetadataTypes ==
  ASSUME NEW d \in MDs, NEW id \in Ids, NEW msg \in Incoming, NEW s \in BOOLEAN, NEW t \in Ids
  PROVE  /\ FromRecvHead(d, id, msg) \in MDs
         /\ FromRecvTail(d, id, msg) \in MDs
         /\ TypedFromRecv(t, id, msg) \in {t, id}
         /\ GetEvent(d, s, t) \in Events
<1>1. msg.sub \in BOOLEAN /\ msg.peer \in Peer \union {NoPeer} /\ msg.error \in BOOLEAN
  BY TalkAssumption DEF Shapes
<1>2. FromRecvHead(d, id, msg) \in MDs /\ FromRecvTail(d, id, msg) \in MDs
  BY <1>1 DEF FromRecvHead, FromRecvTail, MDs
<1>3. GetEvent(d, s, t) \in Events
  BY DEF GetEvent, Events, MDs, Ids
<1> QED
  BY <1>2, <1>3 DEF TypedFromRecv

\* The parts of the invariant that are not about Replies.
TalkPart == TalkTypeOK /\ Working /\ Unchanged /\ MessagesStayApart /\ RouteIsKept

LEMMA HandleRecvKeeps ==
  ASSUME TalkInv, NEW m \in Message, NEW msg \in Incoming, HandleRecv(m, msg)
  PROVE  TalkPart'
<1> USE DEF TalkInv, HandleRecv, vars
<1> DEFINE d == FromRecvTail(FromRecvHead(Empty, m, msg), m, msg)
<1>1. Empty \in MDs /\ m \in Ids /\ None \in Ids
  BY DEF Empty, MDs, Ids
<1>2. d \in MDs
  BY <1>1, MetadataTypes
<1>3. msg.sub \in BOOLEAN /\ msg.peer \in Peer \union {NoPeer} /\ msg.error \in BOOLEAN
  BY TalkAssumption DEF Shapes
<1>4. /\ d.sub = msg.sub
      /\ d.subId = IF msg.sub THEN m ELSE None
      /\ d.peer = IF msg.sub THEN msg.peer ELSE NoPeer
      /\ d.error \in {m, None}
  BY <1>3 DEF FromRecvHead, FromRecvTail, Empty
<1> HIDE DEF d
<1>5. md' = [md EXCEPT ![m] = d]
  BY DEF d
<1>6. msg # None
  BY TalkAssumption
<1>7. TalkTypeOK'
  <2>1. typed' \in [Pub -> Ids]
    BY <1>1, MetadataTypes DEF TalkTypeOK, TypedFromRecv
  <2> QED
    BY <1>2, <1>5, <2>1 DEF TalkTypeOK
<1>8. Working'
  BY <1>6 DEF TalkTypeOK, Working, TypedFromRecv
<1>9. Unchanged'
  BY <1>4, <1>5, <1>6 DEF TalkTypeOK, Unchanged
<1>10. MessagesStayApart'
  <2>1. \A p \in Pub : Said(p)' = Said(p)
    BY DEF Said
  <2>2. \A n \in Message : Sources(n)' = Sources(n) /\ n \in Sources(n)
    BY DEF Sources
  <2> QED
    BY <1>4, <1>5, <2>1, <2>2 DEF TalkTypeOK, MessagesStayApart
<1>11. RouteIsKept'
  <2> SUFFICES ASSUME NEW p \in Pub, of[p] \notin changed, NEW e \in Said(p)
               PROVE  <<e.subId, e.peer>> = RouteOf(of[p])'
    BY DEF RouteIsKept, Said
  <2>1. of[p] # m
    BY DEF Said, Working
  <2>2. RouteOf(of[p])' = RouteOf(of[p])
    BY <2>1 DEF RouteOf, TalkTypeOK
  <2> QED
    BY <2>2 DEF RouteIsKept
<1> QED
  BY <1>7, <1>8, <1>9, <1>10, <1>11 DEF TalkPart

\* Steps that leave what is said and remembered alone: only the program counter
\* of a handler that is neither before its request nor merging an answer moves.
LEMMA QuietKeeps ==
  ASSUME TalkInv, UNCHANGED talkVars, NEW p \in Pub, pc' = pc \/ step[p] = "made",
         \A q \in Pub \ {p} : pc'[q] = pc[q]
  PROVE  TalkPart'
<1> USE DEF TalkInv, talkVars
<1>1. TalkTypeOK' /\ Unchanged'
  BY DEF TalkTypeOK, Unchanged
<1>2. Working'
  BY DEF Working
<1>3. MessagesStayApart' /\ RouteIsKept'
  BY DEF MessagesStayApart, RouteIsKept, Said, Sources, RouteOf
<1> QED
  BY <1>1, <1>2, <1>3 DEF TalkPart

LEMMA AskKeeps ==
  ASSUME TalkInv, NEW p \in Pub, Ask(p) \/ Return(p) \/ Answered(p)
  PROVE  TalkPart'
<1>1. UNCHANGED talkVars /\ (pc' = pc \/ step[p] = "made")
  BY DEF Ask, Return, Answered, Recv
<1>2. \A q \in Pub \ {p} : pc'[q] = pc[q]
  BY DEF TalkInv, RepliesInv, TypeOK, Ask, Return, Answered, Recv, Open, Register, SendReturns,
     SendFails, GiveUp, Unregister, Move
<1> QED
  BY <1>1, <1>2, QuietKeeps

\* A handler that has begun has a message, with an MD of its own.
LEMMA Begun ==
  ASSUME TalkInv, NEW p \in Pub, step[p] # "called" \/ pc[p] # "idle"
  PROVE  given[of[p]] # None /\ of[p] \in Message /\ md[of[p]] \in MDs
BY DEF TalkInv, Working, TalkTypeOK

\* Until a response is merged, an event takes the route of the message.
LEMMA EventKeepsRoute ==
  ASSUME TalkInv, NEW p \in Pub, of[p] \notin changed, given[of[p]] # None,
         NEW s, NEW t
  PROVE  LET e == GetEvent(md[MetaFromContext(p)], s, t)
         IN  <<e.subId, e.peer>> = RouteOf(of[p])
BY DEF TalkInv, TalkTypeOK, Unchanged, GetEvent, MetaFromContext, RouteOf

\* An event says nothing of another message.
LEMMA EventStaysApart ==
  ASSUME TalkInv, NEW p \in Pub, NEW s \in BOOLEAN,
         NEW t \in {of[p], None} \union ({p} \X Numbers)
  PROVE  LET e == GetEvent(md[MetaFromContext(p)], s, t)
         IN  /\ e \in Events
             /\ e.subId \in Sources(of[p]) \union {None}
             /\ e.typed \in {of[p], None} \union ({p} \X Numbers)
<1>1. of[p] \in Message /\ md[of[p]] \in MDs
  BY DEF TalkInv, TalkTypeOK
<1>2. t \in Ids
  BY <1>1, CallsAssumption DEF Ids, Numbers
<1>3. GetEvent(md[MetaFromContext(p)], s, t) \in Events
  BY <1>1, <1>2, MetadataTypes, TalkAssumption DEF MetaFromContext, GetEvent, Events, MDs, Ids
<1> QED
  BY <1>1, <1>3 DEF TalkInv, MessagesStayApart, GetEvent, MetaFromContext

\* The request is numbered, or an error noted: nothing of the route changes.
LEMMA NotesKeep ==
  ASSUME TalkInv, NEW p \in Pub, Pub_(p) \/ WithError(p)
  PROVE  TalkPart'
<1> USE DEF TalkInv, vars
<1>1. given[of[p]] # None /\ of[p] \in Message /\ md[of[p]] \in MDs
  BY DEF Pub_, WithError, Busy, TalkTypeOK
<1>2. p \in Ids
  BY DEF Ids
<1>3. /\ UNCHANGED <<vars, of, given, answer, typed, asked, told, changed>>
      /\ step' = step \/ Advance(p, "called", "made")
  BY DEF Pub_, WithError
<1>4. \/ md' = [md EXCEPT ![of[p]].id = p]
      \/ md' = [md EXCEPT ![of[p]].error = p]
  BY DEF Pub_, WithError, MetaFromContext
<1>5. TalkTypeOK'
  <2>1. md' \in [Message -> MDs]
    BY <1>1, <1>2, <1>4 DEF TalkTypeOK, MDs
  <2> QED
    BY <1>3, <2>1 DEF TalkTypeOK, Advance, Steps
<1>6. Working'
  BY <1>1, <1>3 DEF Working, Advance, TalkTypeOK
<1>7. /\ of \in [Pub -> Message] /\ md \in [Message -> MDs]
      /\ of' = of /\ given' = given /\ typed' = typed /\ asked' = asked /\ told' = told
      /\ changed' = changed
  BY <1>3 DEF TalkTypeOK
<1>8. \A m \in Message :
        /\ md'[m].sub = md[m].sub /\ md'[m].subId = md[m].subId /\ md'[m].peer = md[m].peer
        /\ md'[m].error = md[m].error \/ (m = of[p] /\ md'[m].error = p)
        /\ m # of[p] => md'[m] = md[m]
  BY <1>1, <1>4, <1>7 DEF MDs
<1>9. Unchanged'
  BY <1>1, <1>7, <1>8 DEF Unchanged
<1>10. /\ \A q \in Pub : Said(q)' = Said(q)
       /\ \A m \in Message : Sources(m)' = Sources(m) /\ RouteOf(m)' = RouteOf(m)
  BY <1>7 DEF Said, Sources, RouteOf
<1>11. MessagesStayApart'
  BY <1>7, <1>8, <1>10 DEF MessagesStayApart
<1>12. RouteIsKept'
  BY <1>7, <1>10 DEF RouteIsKept
<1> QED
  BY <1>5, <1>6, <1>9, <1>11, <1>12 DEF TalkPart

LEMMA SendEventKeeps ==
  ASSUME TalkInv, NEW p \in Pub, SendEvent(p)
  PROVE  TalkPart'
<1> USE DEF TalkInv
<1> DEFINE e == GetEvent(md[MetaFromContext(p)], TRUE, Called(of[p]))
<1>1. /\ UNCHANGED <<pc, of, given, md, step, answer, typed, told, changed>>
      /\ asked' = [asked EXCEPT ![p] = e]
      /\ pc[p] = "registered"
  BY DEF SendEvent, SendTakes
<1>2. given[of[p]] # None
  BY <1>1, Begun
<1>3. Called(of[p]) \in {of[p], None}
  BY DEF Called, TypedFromRecv
<1>4. /\ e \in Events
      /\ e.subId \in Sources(of[p]) \union {None}
      /\ e.typed \in {of[p], None} \union ({p} \X Numbers)
  BY <1>3, EventStaysApart
<1>5. of[p] \notin changed => <<e.subId, e.peer>> = RouteOf(of[p])
  BY <1>2, EventKeepsRoute
<1> HIDE DEF e
<1>6. asked \in [Pub -> Events \union {None}]
  BY DEF TalkTypeOK
<1>7. TalkTypeOK' /\ Unchanged'
  BY <1>1, <1>4 DEF TalkTypeOK, Unchanged
<1>8. Working'
  BY <1>1, <1>2, <1>6 DEF Working
<1>9. /\ Said(p)' \subseteq Said(p) \union {e}
      /\ \A q \in Pub \ {p} : Said(q)' = Said(q)
      /\ \A m \in Message : Sources(m)' = Sources(m) /\ RouteOf(m)' = RouteOf(m)
  BY <1>1, <1>6 DEF Said, Sources, RouteOf
<1>10. of \in [Pub -> Message] /\ of' = of /\ md' = md /\ changed' = changed
  BY <1>1 DEF TalkTypeOK
<1>11. MessagesStayApart'
  BY <1>4, <1>9, <1>10 DEF MessagesStayApart
<1>12. RouteIsKept'
  BY <1>5, <1>9, <1>10 DEF RouteIsKept
<1> QED
  BY <1>7, <1>8, <1>11, <1>12 DEF TalkPart

LEMMA DoKeeps ==
  ASSUME TalkInv, NEW p \in Pub, Do(p)
  PROVE  TalkPart'
<1> USE DEF TalkInv
<1> DEFINE e == GetEvent(md[MetaFromContext(p)], FALSE, typed[p])
<1>1. /\ UNCHANGED <<pc, of, given, answer, typed, asked, changed>>
      /\ told' = [told EXCEPT ![p] = e]
      /\ md' = [md EXCEPT ![of[p]].id = <<p, 0>>]
      /\ step[p] \in {"called", "made"}
      /\ step' = [step EXCEPT ![p] = "told"]
      /\ given[of[p]] # None
  BY DEF Do, Busy, Advance, vars, MetaFromContext
<1>2. <<p, 0>> \in Ids
  BY CallsAssumption DEF Ids
<1>3. typed[p] \in {of[p], None} \union ({p} \X Numbers)
  BY DEF Working
<1>4. /\ e \in Events
      /\ e.subId \in Sources(of[p]) \union {None}
      /\ e.typed \in {of[p], None} \union ({p} \X Numbers)
  BY <1>3, EventStaysApart
<1>5. of[p] \notin changed => <<e.subId, e.peer>> = RouteOf(of[p])
  BY <1>1, EventKeepsRoute
<1> HIDE DEF e
<1>6. /\ told \in [Pub -> Events \union {None}]
      /\ of \in [Pub -> Message]
      /\ md \in [Message -> MDs]
      /\ step \in [Pub -> Steps]
  BY DEF TalkTypeOK
<1>7. md' \in [Message -> MDs]
  BY <1>1, <1>2, <1>6 DEF MDs
<1>8. TalkTypeOK'
  BY <1>1, <1>4, <1>7 DEF TalkTypeOK, Steps
<1>9. Working'
  BY <1>1, <1>6 DEF Working
<1>10. \A m \in Message :
         /\ md'[m].sub = md[m].sub /\ md'[m].subId = md[m].subId
         /\ md'[m].peer = md[m].peer /\ md'[m].error = md[m].error
  BY <1>1, <1>6 DEF MDs
<1>11. Unchanged'
  <2> SUFFICES ASSUME NEW m \in Message \ changed
               PROVE  IF given[m] = None THEN md'[m] = Empty
                      ELSE /\ md'[m].sub = given[m].sub
                           /\ given[m].sub => md'[m].subId = m /\ md'[m].peer = given[m].peer
                           /\ ~given[m].sub => md'[m].subId = None /\ md'[m].peer = NoPeer
    BY <1>1 DEF Unchanged
  <2>1. CASE given[m] = None
    BY <2>1, <1>1, <1>6 DEF Unchanged
  <2>2. CASE given[m] # None
    BY <2>2, <1>10 DEF Unchanged
  <2> QED
    BY <2>1, <2>2
<1>12. /\ Said(p)' \subseteq Said(p) \union {e}
       /\ \A q \in Pub \ {p} : Said(q)' = Said(q)
       /\ \A m \in Message : Sources(m)' = Sources(m) /\ RouteOf(m)' = RouteOf(m)
  BY <1>1, <1>6 DEF Said, Sources, RouteOf
<1>13. of' = of /\ changed' = changed
  BY <1>1
<1>14. MessagesStayApart'
  BY <1>4, <1>6, <1>10, <1>12, <1>13 DEF MessagesStayApart
<1>15. RouteIsKept'
  BY <1>5, <1>6, <1>12, <1>13 DEF RouteIsKept
<1> QED
  BY <1>8, <1>9, <1>11, <1>14, <1>15 DEF TalkPart

LEMMA TakeAnswerKeeps ==
  ASSUME TalkInv, NEW p \in Pub, NEW msg \in Incoming, TakeAnswer(p, msg)
  PROVE  TalkPart'
<1> USE DEF TalkInv
<1>1. PICK k \in Numbers : answer' = [answer EXCEPT ![p] = [id |-> <<p, k>>, msg |-> msg]]
  BY DEF TakeAnswer
<1>2. /\ UNCHANGED <<of, given, md, typed, asked, told, changed>>
      /\ step[p] = "made" /\ step' = [step EXCEPT ![p] = "head"]
      /\ pc' = [pc EXCEPT ![p] = "leaving"]
  BY DEF TakeAnswer, Advance, TakeReply, Move
<1>3. pc \in [Pub -> Points] /\ step \in [Pub -> Steps]
  BY DEF RepliesInv, TypeOK, TalkTypeOK
<1>4. TalkTypeOK' /\ Unchanged'
  BY <1>1, <1>2 DEF TalkTypeOK, Steps, Unchanged
<1>5. Working'
  <2>1. answer'[p] \in [id : {p} \X Numbers, msg : Incoming]
    BY <1>1 DEF TalkTypeOK
  <2>2. \A q \in Pub \ {p} : answer'[q] = answer[q] /\ pc'[q] = pc[q] /\ step'[q] = step[q]
    BY <1>1, <1>2, <1>3 DEF TalkTypeOK
  <2>3. given[of[p]] # None
    BY <1>2 DEF Working
  <2> QED
    BY <1>2, <1>3, <2>1, <2>2, <2>3 DEF Working
<1>6. MessagesStayApart' /\ RouteIsKept'
  BY <1>2 DEF MessagesStayApart, RouteIsKept, Said, Sources, RouteOf
<1> QED
  BY <1>4, <1>5, <1>6 DEF TalkPart

\* A merge moves only the handler that merges, says nothing, and remembers that
\* a response has been merged.
LEMMA MergeHeadKeeps ==
  ASSUME TalkInv, NEW p \in Pub, MergeHead(p)
  PROVE  TalkPart'
<1> USE DEF TalkInv
<1> DEFINE id == answer[p].id
           msg == answer[p].msg
           d == FromRecvHead(md[of[p]], id, msg)
<1>1. /\ UNCHANGED <<pc, of, given, answer, typed, asked, told>>
      /\ step[p] = "head" /\ step' = [step EXCEPT ![p] = "tail"]
      /\ md' = [md EXCEPT ![of[p]] = d]
      /\ changed' = IF msg.sub THEN changed \union {of[p]} ELSE changed
  BY DEF MergeHead, Advance, vars, MetaFromContext
<1>2. /\ of \in [Pub -> Message] /\ md \in [Message -> MDs] /\ step \in [Pub -> Steps]
      /\ changed \subseteq Message /\ given[of[p]] # None
  BY <1>1 DEF TalkTypeOK, Working
<1>3. id \in {p} \X Numbers /\ msg \in Incoming
  BY <1>1 DEF Working
<1>4. id \in Sources(of[p]) /\ id \in Ids
  BY <1>2, <1>3, CallsAssumption DEF Sources, Ids, Numbers
<1>5. /\ d \in MDs
      /\ d.subId \in {id, md[of[p]].subId} /\ d.error = md[of[p]].error
      /\ ~msg.sub => d.sub = md[of[p]].sub /\ d.subId = md[of[p]].subId
      /\ d.peer = md[of[p]].peer
  <2>1. msg.sub \in BOOLEAN /\ md[of[p]] \in MDs
    BY <1>2, <1>3, TalkAssumption DEF Shapes
  <2> QED
    BY <1>3, <1>4, <2>1, MetadataTypes DEF FromRecvHead, MDs
<1> HIDE DEF d, id
<1>6. TalkTypeOK'
  BY <1>1, <1>2, <1>5 DEF TalkTypeOK, Steps
<1>7. Working'
  BY <1>1, <1>2 DEF Working
<1>8. Unchanged'
  <2> SUFFICES ASSUME NEW m \in Message \ changed'
               PROVE  IF given[m] = None THEN md'[m] = Empty
                      ELSE /\ md'[m].sub = given[m].sub
                           /\ given[m].sub => md'[m].subId = m /\ md'[m].peer = given[m].peer
                           /\ ~given[m].sub => md'[m].subId = None /\ md'[m].peer = NoPeer
    BY <1>1 DEF Unchanged
  <2>1. CASE m = of[p]
    <3>1. ~msg.sub /\ m \notin changed
      BY <1>1, <2>1
    <3> QED
      BY <1>1, <1>2, <1>5, <2>1, <3>1 DEF Unchanged
  <2>2. CASE m # of[p]
    BY <1>1, <1>2, <2>2 DEF Unchanged
  <2> QED
    BY <2>1, <2>2
<1>9. /\ \A q \in Pub : Said(q)' = Said(q)
      /\ \A m \in Message : Sources(m)' = Sources(m) /\ RouteOf(m)' = RouteOf(m)
  BY <1>1 DEF Said, Sources, RouteOf
<1>10. MessagesStayApart'
  BY <1>1, <1>2, <1>4, <1>5, <1>9 DEF MessagesStayApart
<1>11. RouteIsKept'
  BY <1>1, <1>2, <1>9 DEF RouteIsKept
<1> QED
  BY <1>6, <1>7, <1>8, <1>10, <1>11 DEF TalkPart

LEMMA MergeTailKeeps ==
  ASSUME TalkInv, NEW p \in Pub, MergeTail(p)
  PROVE  TalkPart'
<1> USE DEF TalkInv
<1> DEFINE id == answer[p].id
           msg == answer[p].msg
           d == FromRecvTail(md[of[p]], id, msg)
           t == TypedFromRecv(Called(of[p]), id, msg)
<1>1. /\ UNCHANGED <<pc, of, given, asked, told, changed>>
      /\ step[p] = "tail" /\ step' = [step EXCEPT ![p] = "made"]
      /\ md' = [md EXCEPT ![of[p]] = d]
      /\ typed' \in {typed, [typed EXCEPT ![p] = t]}
      /\ answer' = [answer EXCEPT ![p] = NoAnswer]
  BY DEF MergeTail, Advance, vars, MetaFromContext
<1>2. /\ of \in [Pub -> Message] /\ md \in [Message -> MDs] /\ step \in [Pub -> Steps]
      /\ typed \in [Pub -> Ids] /\ answer \in [Pub -> [id : Pub \X Numbers, msg : Incoming] \union {NoAnswer}]
      /\ changed \subseteq Message /\ given[of[p]] # None
  BY <1>1 DEF TalkTypeOK, Working
<1>3. id \in {p} \X Numbers /\ msg \in Incoming /\ (msg.sub => of[p] \in changed)
  BY <1>1 DEF Working
<1>4. id \in Sources(of[p]) /\ id \in Ids
  BY <1>2, <1>3, CallsAssumption DEF Sources, Ids, Numbers
<1>5. t \in {of[p], None} \union ({p} \X Numbers) /\ t \in Ids
  BY <1>2, <1>3, <1>4 DEF TypedFromRecv, Called, Ids
<1>6. /\ d \in MDs
      /\ d.error \in {id, md[of[p]].error} /\ d.subId = md[of[p]].subId
      /\ d.sub = md[of[p]].sub
      /\ ~msg.sub => d.peer = md[of[p]].peer
  <2>1. msg.sub \in BOOLEAN /\ msg.error \in BOOLEAN /\ md[of[p]] \in MDs
    BY <1>2, <1>3, TalkAssumption DEF Shapes
  <2> QED
    BY <1>3, <1>4, <2>1, MetadataTypes DEF FromRecvTail, MDs
<1> HIDE DEF d, id, t
<1>7. TalkTypeOK'
  BY <1>1, <1>2, <1>5, <1>6 DEF TalkTypeOK, Steps
<1>8. Working'
  <2>1. \A q \in Pub \ {p} :
          answer'[q] = answer[q] /\ step'[q] = step[q] /\ typed'[q] = typed[q]
    BY <1>1, <1>2
  <2>2. step'[p] = "made" /\ typed'[p] \in {typed[p], t}
    BY <1>1, <1>2
  <2> QED
    BY <1>1, <1>2, <1>5, <2>1, <2>2 DEF Working
<1>9. Unchanged'
  <2> SUFFICES ASSUME NEW m \in Message \ changed
               PROVE  IF given[m] = None THEN md'[m] = Empty
                      ELSE /\ md'[m].sub = given[m].sub
                           /\ given[m].sub => md'[m].subId = m /\ md'[m].peer = given[m].peer
                           /\ ~given[m].sub => md'[m].subId = None /\ md'[m].peer = NoPeer
    BY <1>1 DEF Unchanged
  <2>1. CASE m = of[p]
    BY <1>1, <1>2, <1>3, <1>6, <2>1 DEF Unchanged
  <2>2. CASE m # of[p]
    BY <1>1, <1>2, <2>2 DEF Unchanged
  <2> QED
    BY <2>1, <2>2
<1>10. /\ \A q \in Pub : Said(q)' = Said(q)
       /\ \A m \in Message : Sources(m)' = Sources(m) /\ RouteOf(m)' = RouteOf(m)
  BY <1>1 DEF Said, Sources, RouteOf
<1>11. MessagesStayApart'
  BY <1>1, <1>2, <1>4, <1>6, <1>10 DEF MessagesStayApart
<1>12. RouteIsKept'
  BY <1>1, <1>2, <1>10 DEF RouteIsKept
<1> QED
  BY <1>7, <1>8, <1>9, <1>11, <1>12 DEF TalkPart

LEMMA TalkStep == TalkInv /\ [TalkNext]_allVars => TalkInv'
<1> SUFFICES ASSUME TalkInv, [TalkNext]_allVars PROVE TalkInv'
  OBVIOUS
<1>1. RepliesInv'
  BY TalkSteps, RepliesStep DEF TalkInv
<1>2. TalkPart'
  <2>1. CASE UNCHANGED allVars
    BY <2>1 DEF allVars, vars, talkVars, TalkInv, TalkPart, TalkTypeOK, Working, Unchanged,
       MessagesStayApart, RouteIsKept, Said, Sources, RouteOf
  <2>2. ASSUME NEW m \in Message, NEW msg \in Incoming, HandleRecv(m, msg) PROVE TalkPart'
    BY <2>2, HandleRecvKeeps
  <2>3. ASSUME NEW p \in Pub, Handler(p) PROVE TalkPart'
    <3>1. CASE Ask(p) \/ Return(p) \/ Answered(p)
      BY <3>1, AskKeeps
    <3>2. CASE Pub_(p) \/ WithError(p)
      BY <3>2, NotesKeep
    <3>3. CASE SendEvent(p)
      BY <3>3, SendEventKeeps
    <3>4. CASE Do(p)
      BY <3>4, DoKeeps
    <3>5. ASSUME NEW msg \in Incoming, TakeAnswer(p, msg) PROVE TalkPart'
      BY <3>5, TakeAnswerKeeps
    <3>6. CASE MergeHead(p)
      BY <3>6, MergeHeadKeeps
    <3>7. CASE MergeTail(p)
      BY <3>7, MergeTailKeeps
    <3> QED
      BY <2>3, <3>1, <3>2, <3>3, <3>4, <3>5, <3>6, <3>7 DEF Handler
  <2> QED
    BY <2>1, <2>2, <2>3 DEF TalkNext
<1> QED
  BY <1>1, <1>2 DEF TalkInv, TalkPart

\* Handlers that work on messages at the same time, each with a request of its
\* own: types, what an MD and an event hold and where it comes from.
THEOREM TalkCorrect == TalkSpec => []TalkInv
<1>1. TalkInit => TalkInv
  <2> SUFFICES ASSUME TalkInit PROVE TalkInv
    OBVIOUS
  <2> USE DEF TalkInit
  <2>1. RepliesInv
    BY CallsAssumption DEF Init, RepliesInv, TypeOK, KeyFiled, Sent, OneOfferEach, Points, Numbers
  <2>2. None \in Ids /\ Empty \in MDs
    BY DEF Empty, MDs, Ids
  <2>3. TalkTypeOK
    BY <2>2 DEF TalkTypeOK, Steps
  <2>4. Working /\ Unchanged
    BY DEF Init, Working, Unchanged
  <2>5. \A p \in Pub : Said(p) = {}
    BY DEF Said
  <2>6. MessagesStayApart /\ RouteIsKept
    BY <2>5 DEF MessagesStayApart, RouteIsKept, Empty
  <2> QED
    BY <2>1, <2>3, <2>4, <2>6 DEF TalkInv
<1> QED
  BY <1>1, TalkStep, PTL DEF TalkSpec

\* An MD, an event and a typed context only ever hold what came with their own
\* message or in answer to its own handlers (metadata.go:59-97, pub.go:89-103).
THEOREM NothingLeaks == TalkSpec => []MessagesStayApart
<1>1. TalkInv => MessagesStayApart
  BY DEF TalkInv
<1> QED
  BY <1>1, TalkCorrect, PTL

\* As long as no response has been merged, events go back to where their message
\* came from (metadata.go:66-75, pub.go:126-135).
THEOREM EventsGoBack == TalkSpec => []RouteIsKept
<1>1. TalkInv => RouteIsKept
  BY DEF TalkInv
<1> QED
  BY <1>1, TalkCorrect, PTL

\* The theorems about Replies may be used for a conversation's requests.
LEMMA RepliesRun == TalkSpec => Spec
<1>1. TalkInit => Init
  BY DEF TalkInit
<1> QED
  BY <1>1, TalkSteps, PTL DEF TalkSpec, Spec

\* The answers of Replies still offer to one call each (callback.go:58-60).
THEOREM LateAnswersOfferOnce == TalkSpec => []OneOfferEach
<1>1. RepliesInv => OneOfferEach
  BY DEF RepliesInv
<1> QED
  BY <1>1, RepliesRun, RepliesCorrect, PTL

\* A handler's request is registered before its answer can come (pub.go:78-85).
THEOREM NoAnswerIsMissed == TalkSpec => FastReplyIsCaught
BY RepliesRun, NoReplyIsMissed, PTL
==============================================================================
