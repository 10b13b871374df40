--------------------------- MODULE DispatchClaims ---------------------------
(***************************************************************************)
(* What comments of client/client.go say of sending and its code does not  *)
(* do.                                                                     *)
(***************************************************************************)
EXTENDS MCDispatch

\* Each broker connects once: what the list loses, set has dropped.
ConnectOnce == \A b \in Object : attempt[b] <= 1

\* client.go:219-220: "recursion terminates with ErrClientNotConnected only
\* when all brokers go offline".  A send gives up only when no broker is up.
GivesUpOffline ==
  [][\A s \in Sender : NotConnected(s) => \A b \in Object : ~Live(b)]_vars
==============================================================================
