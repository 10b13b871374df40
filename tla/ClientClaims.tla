---------------------------- MODULE ClientClaims ----------------------------
(***************************************************************************)
(* What comments of client/client.go say of the client and its code does   *)
(* not do.                                                                 *)
(***************************************************************************)
EXTENDS Client

\* client.go:259-260: "Rebuild the list excluding the old entry for the same
\* broker to avoid duplicates after a reconnect".
ListedOnce ==
  \A i, j \in DOMAIN onlineBrokers : onlineBrokers[i] = onlineBrokers[j] => i = j

\* client.go:93: "onlineBrokers contains only the currently connected brokers".
\* With the latitude of a removal that is under way: a listed broker has been
\* ready at least once.
ListedAreConnected == \A i \in DOMAIN onlineBrokers : readied[onlineBrokers[i]] # 0

\* The same, with all the latitude there is: an entry has a Start, of any object
\* of its ID, that has yet to call DisconnectFunc and so to take it off.
ListedWillLeave ==
  \A i \in DOMAIN onlineBrokers : \E b \in Object, n \in BC!Attempts :
    /\ IdOf(b) = IdOf(onlineBrokers[i])
    /\ frame[b][n] \in {"parked", "leaving"}
    /\ <<b, n>> \notin checking
    /\ \A k \in Rounds : <<b, n, k>> \notin signals

\* client.go:95: "online is true when at least one broker is connected".
\* While the "_.ready" handler is still on its way to ConnectFunc it need not be.
OnlineWhenConnected ==
  \A b \in Object : connected[b] /\ at[b] = "reading" => online

\* client.go:290-291: "A second call while the first is still running is
\* ignored".
SecondResetIgnored == Cardinality(Rebuilders \intersect Resetter) <= 1

\* client.go:101: "stopResetProcess signals the reset goroutine that the
\* connection has recovered".
SignalMeansRecovered ==
  [][\A r \in Resetter :
       \A s \in signals : s \notin signals' /\ pc[r] # pc'[r] => online]_vars

\* client.go:232-233: "if a reset is in progress and the client has gone fully
\* offline, signals the reset goroutine".
SignalIsReceived ==
  \A b \in Object, n \in BC!Attempts, k \in Rounds :
    <<b, n, k>> \in signals ~> (<<b, n, k>> \notin signals \/ ~Alive)

\* client.go:331-332: "blocks concurrent disconnect/connect calls for the
\* duration of the wait, ensuring the reset process can complete".  Here only
\* its first half, Store.Done, has to.
OverstayCloses ==
  \A b \in Object :
    pc[b] = "sleeping" ~>
      (~Alive \/ (pc[b] # "sleeping" /\ \A id \in Id : store[id] = None))
==============================================================================
