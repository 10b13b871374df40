---------------------------- MODULE Subscriptions ----------------------------
(***************************************************************************)
(* The subscription store (sub/store.go, sub/sub.go) under Client.Sub.     *)
(*                                                                         *)
(* A "handler" here is one call of Client.Sub: it registers, waits for its *)
(* context and unregisters, all on a goroutine of its own.  Register and   *)
(* Unregister take the locks of the store and of the Sub several times;    *)
(* each critical section is an action.  A Register that finds no entry for *)
(* its event makes a new Sub object, named after the handler.              *)
(***************************************************************************)
EXTENDS FiniteSets

CONSTANTS
  Handler,  \* the calls of Client.Sub
  Event,    \* event names
  Reader,   \* the brokers' read loops, which deliver the messages
  None      \* no Sub

ASSUME StoreAssumption == None \notin Handler

VARIABLES
  list,        \* Store.list: the Sub of each event, or None
  handlers,    \* Sub.handlers of each Sub
  pc,          \* where each handler stands
  event,       \* the event a handler registers for; meaningless while "idle"
  ss,          \* the Sub that a Register or an Unregister has in hand
  route,       \* the Sub that each reader's Recv has in hand, or None
  started,     \* the handlers started for each reader's latest message
  goneBefore   \* history: the handlers that were gone when that message came

storeVars == <<list, handlers>>
callVars == <<pc, event, ss>>
recvVars == <<route, started, goneBefore>>
vars == <<storeVars, callVars, recvVars>>

Points == {"idle", "creating", "joining", "active", "removing", "deleting", "gone"}

TypeOK ==
  /\ list \in [Event -> Handler \union {None}]
  /\ handlers \in [Handler -> SUBSET Handler]
  /\ pc \in [Handler -> Points]
  /\ event \in [Handler -> Event]
  /\ ss \in [Handler -> Handler \union {None}]
  /\ route \in [Reader -> Handler \union {None}]
  /\ started \in [Reader -> SUBSET Handler]
  /\ goneBefore \in [Reader -> SUBSET Handler]

Init ==
  /\ list = [e \in Event |-> None]
  /\ handlers = [s \in Handler |-> {}]
  /\ pc = [h \in Handler |-> "idle"]
  /\ event \in [Handler -> Event]
  /\ ss = [h \in Handler |-> None]
  /\ route = [r \in Reader |-> None]
  /\ started = [r \in Reader |-> {}]
  /\ goneBefore = [r \in Reader |-> {}]

Gone == {h \in Handler : pc[h] = "gone"}

Move(h, from, to) == pc[h] = from /\ pc' = [pc EXCEPT ![h] = to]

------------------------------------------------------------------------------
(* Register                                                                  *)

\* Under s.rw.RLock: look for the event's Sub.
RegisterLookup(h) ==
  LET found == list[event[h]] IN
  /\ Move(h, "idle", IF found = None THEN "creating" ELSE "joining")
  /\ ss' = [ss EXCEPT ![h] = found]
  /\ UNCHANGED <<storeVars, event, recvVars>>

\* Under s.rw.Lock: put a new Sub in, whatever is there by now.
RegisterPut(h) ==
  /\ Move(h, "creating", "joining")
  /\ list' = [list EXCEPT ![event[h]] = h]
  /\ ss' = [ss EXCEPT ![h] = h]
  /\ UNCHANGED <<handlers, event, recvVars>>

\* Sub.Register: append the handler to the Sub in hand.
RegisterJoin(h) ==
  /\ Move(h, "joining", "active")
  /\ handlers' = [handlers EXCEPT ![ss[h]] = @ \union {h}]
  /\ UNCHANGED <<list, event, ss, recvVars>>

------------------------------------------------------------------------------
(* Unregister, once the context of the handler is cancelled                  *)

UnregisterLookup(h) ==
  LET found == list[event[h]] IN
  /\ Move(h, "active", IF found = None THEN "gone" ELSE "removing")
  /\ ss' = [ss EXCEPT ![h] = found]
  /\ UNCHANGED <<storeVars, event, recvVars>>

\* A faulty variant: Sub.Unregister builds the shorter list and does not
\* assign it.
UnregisterRemove_NotAssigned(h) ==
  LET rest == handlers[ss[h]] \ {h} IN
  /\ Move(h, "removing", IF rest = {} THEN "deleting" ELSE "gone")
  /\ UNCHANGED <<storeVars, event, ss, recvVars>>

\* A faulty variant: Sub.Unregister answers whether the list was empty before.
UnregisterRemove_AsksBefore(h) ==
  /\ Move(h, "removing", IF handlers[ss[h]] = {} THEN "deleting" ELSE "gone")
  /\ handlers' = [handlers EXCEPT ![ss[h]] = @ \ {h}]
  /\ UNCHANGED <<list, event, ss, recvVars>>

\* Sub.Unregister: filter the handler out; an empty rest asks for the deletion.
UnregisterRemove(h) ==
  LET rest == handlers[ss[h]] \ {h} IN
  /\ Move(h, "removing", IF rest = {} THEN "deleting" ELSE "gone")
  /\ handlers' = [handlers EXCEPT ![ss[h]] = rest]
  /\ UNCHANGED <<list, event, ss, recvVars>>

\* Under s.rw.Lock: delete the event's entry, whatever it is by now.
UnregisterDelete(h) ==
  /\ Move(h, "deleting", "gone")
  /\ list' = [list EXCEPT ![event[h]] = None]
  /\ UNCHANGED <<handlers, event, ss, recvVars>>

------------------------------------------------------------------------------
(* Recv, called by one read loop for one message after another               *)

\* Under s.rw.RLock: without an entry the message is dropped.
RecvLookup(r, e) ==
  /\ route[r] = None
  /\ route' = [route EXCEPT ![r] = list[e]]
  /\ started' = [started EXCEPT ![r] = {}]
  /\ goneBefore' = [goneBefore EXCEPT ![r] = Gone]
  /\ UNCHANGED <<storeVars, callVars>>

\* Sub.Recv: one goroutine for each handler of the Sub in hand.
RecvStart(r) ==
  /\ route[r] # None
  /\ started' = [started EXCEPT ![r] = handlers[route[r]]]
  /\ route' = [route EXCEPT ![r] = None]
  /\ UNCHANGED <<storeVars, callVars, goneBefore>>

------------------------------------------------------------------------------
Next ==
  \/ \E h \in Handler :
       \/ RegisterLookup(h) \/ RegisterPut(h) \/ RegisterJoin(h)
       \/ UnregisterLookup(h) \/ UnregisterRemove(h) \/ UnregisterDelete(h)
  \/ \E r \in Reader : (\E e \in Event : RecvLookup(r, e)) \/ RecvStart(r)

Spec == Init /\ [][Next]_vars

------------------------------------------------------------------------------
(* Properties                                                                *)

\* A message that comes in after a handler's Unregister has returned does not
\* start it, however the entry was replaced, deleted and made again meanwhile
\* (client.go:106, store.go:81-94).
LeftAlone == \A r \in Reader : started[r] \intersect goneBefore[r] = {}

\* An entry never outlives its handlers: somebody is in its Sub, about to join
\* it, or about to delete it.  Two Subs of one event can replace each other and
\* a deletion can hit the wrong one, but none is left behind (store.go:88-94).
Owns(h, e) ==
  \/ pc[h] \in {"active", "removing"} /\ h \in handlers[list[e]]
  \/ pc[h] = "joining" /\ ss[h] = list[e]
  \/ pc[h] = "deleting" /\ event[h] = e
NoEntryLeaks ==
  \A e \in Event : list[e] # None => \E h \in Handler : Owns(h, e)

------------------------------------------------------------------------------
(* The inductive invariant                                                   *)

\* Until its maker puts it in the list a Sub is empty and nobody knows it.
Fresh ==
  \A s \in Handler : pc[s] \in {"idle", "creating"} =>
    /\ handlers[s] = {}
    /\ \A e \in Event : list[e] # s
    /\ \A h \in Handler : ss[h] # s
    /\ \A r \in Reader : route[r] # s

\* The list files a Sub under the event of its maker, and a call that is about
\* to use a Sub has one of its own event in hand.
Filed ==
  /\ \A e \in Event : list[e] # None => event[list[e]] = e
  /\ \A h \in Handler : pc[h] \in {"joining", "removing"} =>
       ss[h] # None /\ event[ss[h]] = event[h]

\* As long as a Sub is in the list, a handler in it is registered or has that
\* very Sub in hand to leave it.
Members ==
  \A s \in Handler : \A h \in handlers[s] :
    /\ event[h] = event[s]
    /\ list[event[s]] = s =>
         pc[h] = "active" \/ (pc[h] = "removing" /\ ss[h] = s)

\* The handlers that were gone when a message came in stay gone, and none is in
\* the Sub that was found for it.
Routed ==
  \A r \in Reader : \A h \in goneBefore[r] :
    pc[h] = "gone" /\ (route[r] # None => h \notin handlers[route[r]])

StoreInv == TypeOK /\ Fresh /\ Filed /\ Members /\ Routed /\ LeftAlone /\ NoEntryLeaks
==============================================================================
