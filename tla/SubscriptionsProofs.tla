------------------------- MODULE SubscriptionsProofs -------------------------
(***************************************************************************)
(* The subscription store keeps its invariant, for any number of handlers, *)
(* events and read loops.  Fresh carries the argument: a Sub is put in the *)
(* list once and by its maker, so once it has been replaced or deleted it  *)
(* never comes back, and what is still in the list has been there since    *)
(* its handlers found it.                                                  *)
(***************************************************************************)
EXTENDS Subscriptions, TLAPS


\* The store starts empty.
LEMMA InitStore == Init => StoreInv
  BY StoreAssumption DEF Init, StoreInv, TypeOK, Fresh, Filed, Members, Routed, LeftAlone,
     NoEntryLeaks, Points

\* Register, first section (store.go:65-67).
LEMMA LookupKeeps ==
  ASSUME StoreInv, NEW h \in Handler, RegisterLookup(h)
  PROVE  StoreInv'
<1> USE StoreAssumption DEF RegisterLookup, Move, storeVars, recvVars
<1>1. TypeOK'
  BY DEF StoreInv, TypeOK, Points
<1>2. Fresh'
  BY DEF StoreInv, TypeOK, Fresh
<1>3. Filed'
  BY DEF StoreInv, TypeOK, Filed
<1>4. Members'
  BY DEF StoreInv, TypeOK, Members
<1>5. Routed'
  BY DEF StoreInv, TypeOK, Routed
<1>6. LeftAlone'
  BY DEF StoreInv, LeftAlone
<1>7. NoEntryLeaks'
  BY DEF StoreInv, TypeOK, NoEntryLeaks, Owns
<1> QED
  BY <1>1, <1>2, <1>3, <1>4, <1>5, <1>6, <1>7 DEF StoreInv

\* The entry is put (store.go:69-72).
LEMMA PutKeeps ==
  ASSUME StoreInv, NEW h \in Handler, RegisterPut(h)
  PROVE  StoreInv'
<1> USE StoreAssumption DEF RegisterPut, Move, storeVars, recvVars
<1>1. TypeOK'
  BY DEF StoreInv, TypeOK, Points
<1>2. Fresh'
  BY DEF StoreInv, TypeOK, Fresh
<1>3. Filed'
  BY DEF StoreInv, TypeOK, Fresh, Filed
<1>4. Members'
  BY DEF StoreInv, TypeOK, Fresh, Filed, Members
<1>5. Routed'
  BY DEF StoreInv, TypeOK, Fresh, Routed
<1>6. LeftAlone'
  BY DEF StoreInv, LeftAlone
<1>7. NoEntryLeaks'
  BY DEF StoreInv, TypeOK, Filed, Members, NoEntryLeaks, Owns
<1> QED
  BY <1>1, <1>2, <1>3, <1>4, <1>5, <1>6, <1>7 DEF StoreInv

\* The handler joins the Sub in hand (sub.go:49-57).
LEMMA JoinKeeps ==
  ASSUME StoreInv, NEW h \in Handler, RegisterJoin(h)
  PROVE  StoreInv'
<1> USE StoreAssumption DEF RegisterJoin, Move, recvVars
<1>1. TypeOK'
  BY DEF StoreInv, TypeOK, Points
<1>2. Fresh'
  BY DEF StoreInv, TypeOK, Fresh
<1>3. Filed'
  BY DEF StoreInv, TypeOK, Fresh, Filed
<1>4. Members'
  BY DEF StoreInv, TypeOK, Fresh, Filed, Members
<1>5. Routed'
  BY DEF StoreInv, TypeOK, Fresh, Routed
<1>6. LeftAlone'
  BY DEF StoreInv, LeftAlone
<1>7. NoEntryLeaks'
  BY DEF StoreInv, TypeOK, Filed, Members, NoEntryLeaks, Owns
<1> QED
  BY <1>1, <1>2, <1>3, <1>4, <1>5, <1>6, <1>7 DEF StoreInv

\* Unregister, first section (store.go:82-87).
LEMMA LeaveKeeps ==
  ASSUME StoreInv, NEW h \in Handler, UnregisterLookup(h)
  PROVE  StoreInv'
<1> USE StoreAssumption DEF UnregisterLookup, Move, storeVars, recvVars
<1>1. TypeOK'
  BY DEF StoreInv, TypeOK, Points
<1>2. Fresh'
  BY DEF StoreInv, TypeOK, Fresh
<1>3. Filed'
  BY DEF StoreInv, TypeOK, Fresh, Filed
<1>4. Members'
  BY DEF StoreInv, TypeOK, Fresh, Filed, Members
<1>5. Routed'
  BY DEF StoreInv, TypeOK, Fresh, Routed
<1>6. LeftAlone'
  BY DEF StoreInv, LeftAlone
<1>7. NoEntryLeaks'
  BY DEF StoreInv, TypeOK, Filed, Members, NoEntryLeaks, Owns
<1> QED
  BY <1>1, <1>2, <1>3, <1>4, <1>5, <1>6, <1>7 DEF StoreInv

\* The handler leaves the Sub in hand (sub.go:61-73).
LEMMA RemoveKeeps ==
  ASSUME StoreInv, NEW h \in Handler, UnregisterRemove(h)
  PROVE  StoreInv'
<1> USE StoreAssumption DEF UnregisterRemove, Move, recvVars
<1>1. TypeOK'
  BY DEF StoreInv, TypeOK, Points
<1>2. Fresh'
  BY DEF StoreInv, TypeOK, Fresh
<1>3. Filed'
  BY DEF StoreInv, TypeOK, Fresh, Filed
<1>4. Members'
  BY DEF StoreInv, TypeOK, Fresh, Filed, Members
<1>5. Routed'
  BY DEF StoreInv, TypeOK, Fresh, Routed
<1>6. LeftAlone'
  BY DEF StoreInv, LeftAlone
<1>7. NoEntryLeaks'
  BY DEF StoreInv, TypeOK, Filed, Members, NoEntryLeaks, Owns
<1> QED
  BY <1>1, <1>2, <1>3, <1>4, <1>5, <1>6, <1>7 DEF StoreInv

\* The entry is deleted (store.go:90-94).
LEMMA DeleteKeeps ==
  ASSUME StoreInv, NEW h \in Handler, UnregisterDelete(h)
  PROVE  StoreInv'
<1> USE StoreAssumption DEF UnregisterDelete, Move, recvVars
<1>1. TypeOK'
  BY DEF StoreInv, TypeOK, Points
<1>2. Fresh'
  BY DEF StoreInv, TypeOK, Fresh
<1>3. Filed'
  BY DEF StoreInv, TypeOK, Fresh, Filed
<1>4. Members'
  BY DEF StoreInv, TypeOK, Fresh, Filed, Members
<1>5. Routed'
  BY DEF StoreInv, TypeOK, Fresh, Routed
<1>6. LeftAlone'
  BY DEF StoreInv, LeftAlone
<1>7. NoEntryLeaks'
  BY DEF StoreInv, TypeOK, Filed, Members, NoEntryLeaks, Owns
<1> QED
  BY <1>1, <1>2, <1>3, <1>4, <1>5, <1>6, <1>7 DEF StoreInv

\* Recv, first section (sub/store.go:49-58).
LEMMA RecvLookupKeeps ==
  ASSUME StoreInv, NEW r \in Reader, NEW e \in Event, RecvLookup(r, e)
  PROVE  StoreInv'
<1> USE StoreAssumption DEF RecvLookup, Gone, storeVars, callVars
<1>1. TypeOK'
  BY DEF StoreInv, TypeOK, Points
<1>2. Fresh'
  BY DEF StoreInv, TypeOK, Fresh
<1>3. Filed'
  BY DEF StoreInv, TypeOK, Filed
<1>4. Members'
  BY DEF StoreInv, TypeOK, Members
<1>5. Routed'
  BY DEF StoreInv, TypeOK, Filed, Members, Routed
<1>6. LeftAlone'
  BY DEF StoreInv, TypeOK, Routed, LeftAlone
<1>7. NoEntryLeaks'
  BY DEF StoreInv, TypeOK, NoEntryLeaks, Owns
<1> QED
  BY <1>1, <1>2, <1>3, <1>4, <1>5, <1>6, <1>7 DEF StoreInv

\* The handlers are started (sub.go:75-85).
LEMMA RecvStartKeeps ==
  ASSUME StoreInv, NEW r \in Reader, RecvStart(r)
  PROVE  StoreInv'
<1> USE StoreAssumption DEF RecvStart, Gone, storeVars, callVars
<1>1. TypeOK'
  BY DEF StoreInv, TypeOK, Points
<1>2. Fresh'
  BY DEF StoreInv, TypeOK, Fresh
<1>3. Filed'
  BY DEF StoreInv, TypeOK, Filed
<1>4. Members'
  BY DEF StoreInv, TypeOK, Members
<1>5. Routed'
  BY DEF StoreInv, TypeOK, Filed, Members, Routed
<1>6. LeftAlone'
  BY DEF StoreInv, TypeOK, Routed, LeftAlone
<1>7. NoEntryLeaks'
  BY DEF StoreInv, TypeOK, NoEntryLeaks, Owns
<1> QED
  BY <1>1, <1>2, <1>3, <1>4, <1>5, <1>6, <1>7 DEF StoreInv

\* Every step keeps the invariant.
LEMMA StepKeeps == StoreInv /\ [Next]_vars => StoreInv'
<1> SUFFICES ASSUME StoreInv, [Next]_vars PROVE StoreInv'
  OBVIOUS
<1>1. ASSUME NEW h \in Handler,
             \/ RegisterLookup(h) \/ RegisterPut(h) \/ RegisterJoin(h)
             \/ UnregisterLookup(h) \/ UnregisterRemove(h) \/ UnregisterDelete(h)
      PROVE  StoreInv'
  BY <1>1, LookupKeeps, PutKeeps, JoinKeeps, LeaveKeeps, RemoveKeeps, DeleteKeeps
<1>2. ASSUME NEW r \in Reader, (\E e \in Event : RecvLookup(r, e)) \/ RecvStart(r)
      PROVE  StoreInv'
  BY <1>2, RecvLookupKeeps, RecvStartKeeps
<1>3. CASE UNCHANGED vars
  BY <1>3 DEF vars, storeVars, callVars, recvVars, StoreInv, TypeOK, Fresh, Filed, Members,
     Routed, LeftAlone, NoEntryLeaks, Owns
<1> QED
  BY <1>1, <1>2, <1>3 DEF Next

\* The store's types and invariant hold whatever calls of Register, Unregister
\* and Recv interleave.
THEOREM StoreCorrect == Spec => []StoreInv
<1>1. StoreInv /\ [Next]_vars => StoreInv'
  BY StepKeeps
<1> QED
  BY InitStore, <1>1, PTL DEF Spec

\* A message that comes in after a handler's Unregister returned does not start
\* it (client.go:106).
THEOREM CancelledIsLeftAlone == Spec => []LeftAlone
<1>1. StoreInv => LeftAlone
  BY DEF StoreInv
<1> QED
  BY StoreCorrect, <1>1, PTL

\* No entry of the store outlives its handlers (sub/store.go:88-94).
THEOREM EntriesDoNotLeak == Spec => []NoEntryLeaks
<1>1. StoreInv => NoEntryLeaks
  BY DEF StoreInv
<1> QED
  BY StoreCorrect, <1>1, PTL
==============================================================================
