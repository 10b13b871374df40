--------------------------- MODULE BrokerConnClaims ---------------------------
(***************************************************************************)
(* What the comments of broker/broker.go and broker/store.go say of a      *)
(* connection where the code does otherwise.  Each has a configuration of  *)
(* its own, with which TLC finds a behaviour of BrokerConn against it.     *)
(***************************************************************************)
EXTENDS BrokerConn

\* "connected is true once the broker confirms readiness via _.ready"
\* (broker.go:87).  The Start of an earlier connection clears connected and
\* stream whenever it gets round to it (broker.go:209-214), so a broker that
\* is ready again is left with connected FALSE until its next reconnect.
ConnectedOnceReady ==
  \A b \in Broker :
    (at[b] = "reading" /\ readied[b] = attempt[b] /\ ~ContextDone(b))
      => connected[b]

\* "overstayAttempts is the number of retries at maximum delay before
\* delegating control to the OwerstayingFunc handler" (broker.go:55-56).  The
\* code delegates at every retry up to that number and at none after it
\* (broker.go:265-275).
DelegatesAtLimit ==
  \A b \in Broker : at[b] = "overstaying" => overstayCount[b] >= overstayAttempts

\* "Send acknowledgement before calling ResetFunc so the broker does not wait
\* for a response" (broker.go:236-237).  initResetProcess reads b.stream
\* without b.rw; an earlier connection's Start has cleared it, or the
\* connection's own Start has after a cancellation, and the call panics.
AcknowledgesReset == \A b \in Broker : at[b] # "panicked"

\* "Done cancels the current connection context, initiating broker shutdown"
\* (broker.go:111).  A driver whose timer has fired, or that the scheduler has
\* not run yet, goes on to Start, which installs a live context over the
\* cancelled one.
DoneIsFinal ==
  [][\A b \in Broker : ContextDone(b) => attempt'[b] = attempt[b]]_vars
==============================================================================
