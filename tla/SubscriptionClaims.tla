------------------------- MODULE SubscriptionClaims -------------------------
(***************************************************************************)
(* What comments of sub/store.go say of the store and its code does not    *)
(* do.                                                                     *)
(***************************************************************************)
EXTENDS Subscriptions

\* store.go:61: "Register adds handler fn for the event named name".  After
\* Register a message of the event finds the handler.
RegisteredIsReachable ==
  \A h \in Handler : pc[h] = "active" =>
    list[event[h]] # None /\ h \in handlers[list[event[h]]]

\* store.go:80: "If no handlers remain after removal, the subscription entry is
\* deleted entirely": only then.
DeletesEmptyOnly ==
  [][\A e \in Event : list[e] # None /\ list'[e] = None => handlers[list[e]] = {}]_vars
==============================================================================
