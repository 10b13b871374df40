---------------------------- MODULE MCConversation ----------------------------
(***************************************************************************)
(* Two handlers, of one message or of two, for TLC.                        *)
(***************************************************************************)
EXTENDS Conversation, TLC

CONSTANTS near, far  \* two peers

Peers == {near, far}

\* One with a route, a plain one, and one that lacks a part of its route and
\* reports an error.
Kinds == {
  [sub |-> TRUE,  peer |-> near,   error |-> FALSE, context |-> "good"],
  [sub |-> FALSE, peer |-> far,    error |-> FALSE, context |-> "bad"],
  [sub |-> TRUE,  peer |-> NoPeer, error |-> TRUE,  context |-> "absent"]}

\* One of the handlers may call Sub again on its Pub.
OneCallsAgain == \E p \in Pub : call[p] <= 1

Interchangeable == Permutations(Pub) \union Permutations(Message)
==============================================================================
