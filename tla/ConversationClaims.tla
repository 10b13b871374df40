-------------------------- MODULE ConversationClaims --------------------------
(***************************************************************************)
(* What README.md and the comments of metadata/ and pub/ say of answers    *)
(* and the code does not do.                                               *)
(***************************************************************************)
EXTENDS MCConversation

\* metadata.go:66-67: "Sub* fields are populated only for response messages -
\* they are needed to route the reply back to the correct caller".  What a
\* handler of a request publishes goes back to that request.
AnswersReachCaller ==
  \A p \in Pub : told[p] # None => <<told[p].subId, told[p].peer>> = RouteOf(of[p])

\* README.md:212: "The error is stored in the Error field of the proto message".
\* What a handler publishes after WithError reports the error.
ErrorIsSent ==
  [][\A p \in Pub : told'[p] # told[p] => told'[p].error = md[of[p]].error]_allVars

\* metadata.go:44: "SubId is the identifier of the original request this message
\* responds to".  After a response the SubId is the ID of the request.
SubIdIsOriginal ==
  \A p \in Pub : step[p] = "tail" /\ answer[p].msg.sub => md[of[p]].subId = p

\* pub.go:127-128: "a partial set would prevent the broker from delivering the
\* response correctly".  An event that has the SubId of a response has its peer.
RoutesAreWhole ==
  \A p, q \in Pub : \A e \in Said(p) :
    e.subId = answer[q].id /\ e.subId # None => e.peer = answer[q].msg.peer
==============================================================================
