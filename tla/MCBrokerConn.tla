---------------------------- MODULE MCBrokerConn ----------------------------
(***************************************************************************)
(* Broker objects for TLC.  The objects share no state, so one is enough.  *)
(***************************************************************************)
EXTENDS BrokerConn

\* With the source's own durationMax and overstayAttempts the whole backoff
\* takes twelve calls of Start; TLC follows the behaviours in which at most
\* two of them open a stream.
TwoStreams ==
  \A b \in Broker : Cardinality({n \in Attempts : frame[b][n] # "none"}) <= 2
==============================================================================
