# Formal model of glider-client-go

TLA+ models of the client side of the glider publish/subscribe service, TLC
runs that check them on small instances, and proofs of their main properties
for every value of the constants. Line numbers are those of the Go sources;
`broker.go`, `client.go` and so on stand for `src/broker/broker.go`,
`src/client/client.go`.

## The system

| Component | State | Operations | Talks to |
|---|---|---|---|
| Broker connection, `broker/broker.go` | per object: context, connected, done, stream, duration, overstayCount, under `b.rw` | Start, Done, Send, the read loop, handleError, initResetProcess, restart | the server over a gRPC stream; the client through ConnectFunc, DisconnectFunc, ResetFunc, OwerstayingFunc, RecvFunc |
| Backoff, `broker/utils.go` | none | fibo | restart |
| Broker store, `broker/store.go` | map from ID to object, under `store.rw` | Done, Get, Set | Done calls every broker's Done with the lock held |
| Client, `client/client.go` | online list, online, resetProcess, overstayProcess, stopResetProcess, under `c.rw` or atomic | Start, connect, disconnect, reset, owerstaying, Sub, Pub, send | all of the above, and the HTTP request for the broker list |
| Subscription store, `sub/` | map from event to Sub, list of handlers in each, a lock each | Register, Unregister, Recv | read loops, through Client.recv; one goroutine per handler |
| Requests, `pub/pub.go`, and callbacks, `callback/callback.go` | map from "event:id" to channel | Pub.Sub, Do; Register, Unregister, Recv | send; read loops; one goroutine per answer |
| Broker list request, `broker/request.go`, `httpclient/`, `authhmac/` | the attempt counter and the nonce of one call | Request's closure, Create, Do, Generate, Validate | HTTP server, Client.Start |
| Contexts, `message/`, `metadata/`, `error.go` | one MD per incoming message, behind a pointer that all its handlers share; the typed context | FromRecv, MetaFromContext, WithContext, WithError | read loop, Client.Pub, Pub.Sub, GetEvent |
| Entry, `pubsub.go`, `project.go`, `segment.go` | none | New, options | Client |
| `proto/` | generated | | |

What makes it hard: every broker has a reader goroutine and one parked
goroutine per connection it ever opened; callbacks into the client run with the
broker's lock held; three locks are taken in more than one order; a reset
goroutine and an overstaying connection can both tear down and rebuild all
connections, while connections of the previous round are still on their way
out. What makes it correct, per component:

* connection: only the latest context is live, the stream that Send uses is
  there, a reset is final, an outage costs a bounded number of connection
  attempts, a parked goroutine whose context is cancelled ends unless the client
  keeps it in a callback or a lock for ever;
* client: the online list and `online` say who is connected, one rebuild at a
  time, a reset that has begun closes what it tears down (the request that follows
  may be retried without end), nothing comes online behind a rebuild's back;
* subscriptions: registered handlers are called, cancelled ones are not, the map
  does not grow;
* requests: no answer is missed, none of them keeps an entry, a late one is
  offered once;
* metadata: what came with one message stays with it, events go back to where
  the message came from;
* the broker list: it answers the latest request of the call, within the time
  window; a good answer is not refused; a failing server is asked more and more
  slowly.

## The modules

| Module | Stands for |
|---|---|
| `Loops`, `LoopsProofs` | the Fibonacci walk and the rebuilding of the online list; what they compute |
| `Backoff` | `durationMax` and `fibo` |
| `BrokerConn` | the goroutines of Broker objects: Start, read loop, restart, cleanup |
| `ReconnectPolicy` | what they promise: the abstract specification of reconnecting |
| `Links` | what send and the online list see of connections: the abstract specification `Dispatch` is built on |
| `BrokerConnProofs` | theorems about `fibo` and `BrokerConn`, the two refinements last |
| `Client` | the client and the store around the connections of `BrokerConn` |
| `ClientProofs` | theorems about `Client` and the connections in it |
| `Dispatch`, `DispatchProofs` | nextBroker, send and Broker.Send over the online list |
| `Subscriptions`, `SubscriptionsProofs` | the subscription store |
| `Replies` | Pub.Sub and the callback list |
| `Conversation`, `ConversationProofs` | handlers, their metadata and what they publish, around the calls of `Replies`; theorems about both |
| `Validity` | the time checks of Validate, the timestamp of Generate |
| `Payload`, `PayloadProofs` | the bytes that a signature is made of |
| `ListRequest`, `ListRequestProofs` | the request for the broker list, its retries and the checks of its answer |
| `MC*` | small instances for TLC |
| `*Claims` | what comments say and the code does not do |

### BrokerConn

One object has one *driver*, the goroutine that runs Start up to the stream,
then the read loop of that stream (which Start spawns), then restart and the
nested Start. `at[b]` is where it stands; every other step of the object is made
by the *frame* of an earlier Start, parked on `<-ctx.Done()` (209). The n-th call
of Start, its context, its stream and its frame share the number n, so that
`stream[b] # attempt[b]` can say that a field describes an old connection.

Each critical section on `b.rw` is one action. The one that is held across a
call, the `_.ready` handler, is the pair `HandleReady`/`ConnectReturns`, and
`Unlocked(b)` is false between them. The read loop's handling of `_.reset` has
three steps because the code unlocks before it uses `b.stream` and calls
ResetFunc. A panic ends the process: nothing moves once `Crashed`.

The server and gRPC are an environment that may do anything they do: a dial or
an open may fail, the stream may fail with any code, messages that arrived
before a cancellation are still delivered after it. On one stream the server
sends `_.ready` once and `_.reset` only after it. `MaxStarts` bounds the calls of
Start; delays are kept, time is not: a timer may fire at any moment.

`fibo` caps the walk of `Loops`, a function from the pair of numbers that the loop
holds. That it is the smallest Fibonacci number above the attempt, as its comment
says, is a theorem, and so is what the budget needs: a delay below the cap grows,
the cap stays (`FiboGrows`).

### Client

`Client` instantiates `BrokerConn` with `Object == Id \X 1 .. MaxRounds`: the object
that the n-th Client.Start makes for a broker ID. Its actions conjoin a
connection's step with the client's when a callback begins or returns:
`ConnectGet` and `ConnectSet` are ConnectFunc, `Delete`, `CheckAndSignal` and
`SignalReceived` are DisconnectFunc, `Reset` is ResetFunc, `DeclineOverstay` to
`FinishStart` are OwerstayingFunc.

Locks are not variables. Who holds them follows from where everybody stands:
`b.rw` while `at[b] = "connecting"`; `store.rw` while a runner is "closing";
`c.rw` for writing while an object's runner is between "sleeping" and "done", for
reading while a disconnect is blocked in its send (`signals`). Every shorter
critical section is one action. RWMutex gives waiting writers precedence over
new readers; leaving that out only adds behaviours to the safety runs.

A *runner* is a goroutine that calls Client.Start: the one that New spawns, one
of the `Resetter`s that reset spawns, or the driver of an object in owerstaying.
`stopResetProcess` is the number of the Start that made the channel. `Others` of
`Loops` is the loop of set and delete over the list; set then appends its own broker
once per entry kept, as line 264 does. The HTTP
request returns any set of IDs, or panics, or never ends, as when a server keeps
failing; retries are no step (they are in `ListRequest`).

Two places merge what the code does in several instructions. `CheckAndSignal`
reads two flags and the channel at once: `online` cannot change, its writers need
the lock, and only a reset that had not begun yet or a Start that ends in
between would be seen differently, which is the same as reading before or after.
`FinishStart` clears both flags at once; they are adjacent stores.

### Dispatch

`Links` has of an object what others can tell: its fields `connected` and `stream`,
its contexts, the frames of its Starts, and how far its latest connection is
(`link`, from `at` and `readied` of `BrokerConn` by `Place`). `Dispatch` conjoins the steps
of its connections with those of the store and the list, so a `_.ready` may be
handled before or after any earlier Start has cleared the fields and called
delete, and after its own context is gone. That `BrokerConn` has no other behaviour
is the refinement `BehavesAsLink`, checked in `broker_conn_backoff` and proved.

`Get` and `Set` are ConnectFunc, with b.rw held ("ready"); `Get` looks in the store by ID
and `Set` lists what was found. `Delete` is DisconnectFunc of one frame and removes by
ID. `mistaken` is history: the IDs whose last entry is for an object that is not the
one that came online. Launch, Store.Done and its loop (`closing`: store.rw is held)
are those of Client, without what makes it begin one. Who holds c.rw is not followed: the lock
may be taken at any time and never given back (`Seize`), as `claim_signal` shows.

`Client.online` is not a variable, since set and delete keep it equal to "the list
has entries". A dead stream may take an event or refuse it; when a Send on a stream
that works fails, so does its Recv (`L!Drop`). The recursion of send is the way back
to `NextBroker`; how deep the stack is, is left out. `currentSend` wraps around at
`CounterMax`.

### Subscriptions

A handler is one call of Client.Sub. A Sub object is named after the handler
whose Register made it. Each critical section of the two locks is an action, so
that lookup, put and join, and lookup, removal and deletion, can interleave. Each
reader is a broker's read loop, which routes one message after another.
`goneBefore` is history: who had unregistered when the message came in.

### Replies

A Pub may call Sub again after its first call (a timeout), with the same ID and
so the same key, but a new channel. The key is `event:id` with a UUID, which is
injective, so the list is a function of the Pub. The server answers a request at
most once; any read loop may bring the answer, at any time.

### Conversation

A handler is a goroutine that sub.Recv has started for an incoming message; it is
named after the Pub that it may call Sub on, and `of` says which message it works
on. `HandleRecv` makes the MD of a message and the typed context; all handlers of
the message then find the same MD (`MetaFromContext`), which is the point of the
module: Client.Pub, WithError and FromRecv write into it while the others read.

A request goes by the actions of `Replies`, each of which is conjoined here:
`SendEvent` is `SendTakes` with what GetEvent encodes at that moment, `TakeAnswer` is
`TakeReply`, and the merge of the answer is two steps, `MergeHead` and `MergeTail`,
cut where FromRecv has written SubId and not yet the rest of the route. Every
shorter piece of code is one action. Since the actions conjoin those of `Replies`, its
theorems carry over.

`Shapes` is what the client reads of a message. The four strings that make up the
route's target (pod, module, broker, project) are one `Peer`, `NoPeer` when any of
them is empty, which is all that GetEvent asks. IDs are the message, the Pub or the
answer they belong to. Project, Segment and payload are left out: nothing depends
on them. A handler makes at most one Pub with Sub, on which it may call Sub again,
and publishes one event; a typed context is named after the message it came with.
`Incoming` are the looks a message may have; the proofs allow any.

### ListRequest, Validity, Payload

A caller runs the loop of Request for Client.Start. Two clocks matter: `now`, and the
server's, which is off by `drift`; both move with `Tick`. The server answers a request
at any time, with a signed error or without, and its answers stay available
(`made`): whatever carries them may bring one late, again, or to another request.
`Receive` may find an answer garbled (`intact` is FALSE), which stands for all that
makes reading, decoding or the signature fail. A response other than 200 or none
is `DoFails`; a status, by itself, is not signed. `Request` sets no deadline, so a call
that gets no answer waits in "sent". A returned error is a panic in Client.Start:
nothing moves afterwards (`Alive`).

Nonces are numbers in the order in which they are drawn; that two of them never
agree is what 16 random bytes are for. Time is counted in ticks, of which a
`Second` has several, so that the timestamp loses something. `MaxDuration` gives a
Duration its range: Sub saturates, and the shortest has no opposite (`Opposite`).
`ListAssumption` says that no clock shows 1970, where Validate refuses a timestamp.

That an intact answer passes the signature and a garbled one does not, rests on
`buildPayload` being readable in one way only. `Payload` has its layout, byte by
byte as BigEndian writes it: a number that is too long loses its high bytes.
`Unambiguous` is proved for any widths, provided that the data fit their length and
the timestamps theirs (4 and 8 bytes in the code); a nonce may be longer than its
length field says, since it comes last. `MCListRequest` makes TLC evaluate it too, for
all data and nonces of up to three bytes of one bit each.

## What the runs check

| Run | Instance | States | Shows |
|---|---|---|---|
| `broker_conn` | cap 2, limit 1, 5 Starts, fair | 84k | contexts, streams, acknowledgements, resets; the inductive invariant; replaced connections are torn down and a reset object ends, unless a callback of the client never returns |
| `broker_conn_backoff` | cap 24, limit 2 (the source's), 12 Starts, at most two streams | 129k | the retry budget; refinement of `ReconnectPolicy` and of `Links` |
| `client_rebuild` | 1 ID, 2 Client.Starts, 2 resetters, overstay reachable | 868k | resets, the overstay takeover and the boot goroutine against each other: flags, signals, how many rebuilds; types and the inductive invariant |
| `client_liveness` | 2 IDs, 1 Client.Start, 1 resetter, fair | 80k | a reset closes all connections, the lock cycle aside |
| `dispatch` | 2 IDs, one of them with a second object, 2 calls of Broker.Start in all, 1 sender, counter of 2 values, fair | 182k | which entries have a Start that takes them off; when sends end |
| `subscriptions` | 3 handlers, 2 events, 1 reader | 16k | the races of the store |
| `conversation` | 2 messages, 2 handlers with a request each, one of which may be sent again; 3 looks of messages | 1.67M | what metadata and events hold while handlers share an MD; answers against registration, timeouts and second calls |
| `list_request` | 1 caller, 2 requests, 13 ticks of half a second, clocks that agree or are 3 ticks apart | 1.65M | which answers are taken and which end the process; the delays |

The bounds are those at which the interesting cases appear. A connection needs
two Starts for a stale frame, three for a stale frame that meets a new stream
twice, and five leave room for both with a reset in between; the budget needs one
Start per delay (0 is followed by 1, 2, 3, 5, 8, 13, 21, 24 at the source's cap), one per
overstay attempt and one more. Objects do not interact inside `BrokerConn`, so its
instances have one. The client needs two rounds for an old and a new object of
one ID and two resetters for a second reset; the list of several brokers is the
business of `dispatch`. With two IDs and a second Client.Start `Client` has more states
than can be visited, so `client_rebuild` has one ID. In it, connections of the first
round may start twice (the constraint `RebuiltStartOnce` keeps those of the second to
one). `client_liveness` has two IDs, since one connection asks for the reset and
another one has to be in its ConnectFunc for the lock cycle; one Client.Start and one
Start per object are enough for that. In `dispatch` two Starts are one object's
reconnect, or the replacement of an object by its namesake, or two brokers at once;
the proof has no bound. `CHECK_DEADLOCK FALSE` is in the runs whose system may stop: all
drivers may have ended, a bound may be reached, handlers and calls end, or (in
`Client`) the code really deadlocks, which the claim runs show separately.

Two handlers can share a message or have one each; a second call of Sub is needed
for an answer that comes to the wrong call, and one handler that makes one is
enough (`OneCallsAgain`). Of the three looks of messages one has a whole route, one
none and one a part of it. In `list_request` two requests suffice for an answer to
the one that was given up; the window (4 ticks of skew, 6 of ttl) has answers
inside and outside at both ends; the cap of 3 on the delay is reached by the second
failure. Its range of a Duration, 20 ticks, is beyond what the run's times span;
the assumption of `MCListRequest` checks Validate up to three times that range.

Fairness is that of Go's scheduler and of its locks: a goroutine that can go on
does so. In `BrokerConn` a stream whose context is cancelled makes Recv fail in the
end, after what it holds has been delivered, hence strong fairness there; a
server that stays silent is allowed. Nothing says that a callback returns:
disconnect may be stuck in its send (client.go:243), and connect, reset and
owerstaying in a lock. `SupersededIsLeft` and `ShutdownCompletes` therefore name what keeps a
goroutine: a ConnectFunc that holds b.rw for ever, a callback that never returns.

In `Client` a goroutine waits for one thing at
a time, so strong fairness of all the steps of a goroutine says that a lock it
keeps finding free is granted, which Go's starvation mode does. The answer to a
request (`Answer`) has no fairness: Request retries as long as the server fails
(request.go:64-82), and a reset may wait there for ever. So `ResetCompletes` is about what
is up to the client: from the moment reset spawns its goroutine to the end of
Store.Done. It names the one exception, `LockCycle`: Store.Done keeps store.rw and
waits for the b.rw of an object whose `_.ready` handler waits for store.rw, or for the
c.rw that owerstaying or a stuck disconnect keeps. In this run the cycle occurs: without
the exception `ResetCompletes` is violated. What is not in reach of the run is an
overstay, which needs a second Start per object; `ClaimOverstayCloses.cfg` shows its
share of the cycle.

`Dispatch` has weak fairness of drivers and of the frames as long as c.rw is given
back, and of a sender unless it is in a Send on a live stream, which may wait for
the server; nothing makes a broker connect, a ConnectFunc return, a stream break or a rebuild
end. `SendEnds` has four exceptions, and is violated when any of them is left out: c.rw is
kept for ever; some ConnectFunc never returns; the Send itself waits on a stream that works; an
entry stays for an object that never came online. The last one is an endless
recursion in the code. That a send ends is claimed for a bounded number of
connections (`MaxStarts`), as a broker that keeps failing can keep failing it.

### Where the code differs from its comments

Four runs expect a violation; PROJECT.json lists each as a finding.

* `claim_connected`: Start's cleanup (212) clears the fields of the connection that
  replaced it.
* `claim_gives_up`: set (264) appends the new broker in the place of each other one;
  when it leaves, sends fail although the others are connected.
* `claim_signal`: the signal of a disconnect goes to a resetter that, after its timer,
  no longer listens; the sender keeps the read lock for ever.
* `claim_registered`: of two first subscribers of an event, one is lost.

The `*Claims` modules state sixteen more sentences of the comments that the models
refute in the same way, each in at most two minutes:
`tlc -config Claim<Name>.cfg <module>`. Those of `ConversationClaims` share
`ConversationClaims.cfg`, which names one of them and has the others as comments to
put in its place.

| Claim | Source | What happens |
|---|---|---|
| `DelegatesAtLimit` | broker.go:269 | OwerstayingFunc is called on the first failures at the longest delay and not after the last one |
| `AcknowledgesReset` | broker.go:238 | initResetProcess uses `b.stream`, which may be nil by then |
| `DoneIsFinal` | broker.go:296 | a Done between the timer and Start is lost |
| `ListedOnce` | client.go:264 | a broker is on the list once for every other one that was |
| `ListedAreConnected` | client.go:248 | connect goes by ID and lists the object that replaced the caller |
| `OnlineWhenConnected` | client.go:281 | delete goes by ID and takes a new connection off the list |
| `SecondResetIgnored` | client.go:207 | the first Start clears the flag of a reset |
| `SignalMeansRecovered` | client.go:238 | the signal is sent when the client is offline |
| `OverstayCloses` | client.go:334 | owerstaying and a `_.ready` handler wait for each other's lock |
| `DeletesEmptyOnly` | store.go:92 | a handler that joins before the deletion goes with the entry |
| `ListedWillLeave` | client.go:93 | a `_.ready` that is handled after its connection was dropped lists the next object of its ID, which has not connected; until it does, and for ever if it cannot, no Start is there to take it off |
| `AnswersReachCaller` | metadata.go:66 | a handler that asks another module before it answers has its own caller's route overwritten by the response |
| `RoutesAreWhole` | pub.go:127 | a handler that publishes while another one's response is being merged sends the new SubId with the old peer |
| `SubIdIsOriginal` | metadata.go:44 | after a response SubId is the response's ID, not the request's |
| `ErrorIsSent` | README.md:212 | GetEvent never writes the error that WithError has stored |
| `RetriesUntilSuccess` | request.go:58 | an answer that cannot be read, reports an error or fails a check ends the loop, and Client.Start panics |

## What is proved

All theorems hold for any values of the constants that satisfy the named
assumptions (`DurationMaxAssumption`, `ConnAssumption`, `ClientAssumption`,
`StoreAssumption`, `CallsAssumption`, `TalkAssumption`, `ValidityAssumption`,
`DispatchAssumption`, `ListAssumption`), and rest on nothing else. The assumptions say
what is a number and in which range, what is different from what, and that no clock
shows 1970; none is about an operator.

* **Loops.** The loops are functions over a finite set of loop states, so the work is
  to show that the function exists and satisfies its equation. The library's
  induction takes a predicate as an operator, which no prover here instantiates;
  `SuccessorsReachAll` and `TurnsReachAll` induct over a *set* of numbers instead
  (a set that holds 0 and every successor is all of Nat, by the least number that it
  lacks), and everything else follows from them. `LoopExists` builds the walk backwards
  from the pairs where it stops; `FibonacciIsAbove` bounds its result.
  `FibonacciIsSmallest` is the comment of fibo: the walk visits consecutive
  Fibonacci numbers (`WalkVisits`), and of a rising sequence the first above a number
  is the smallest. `OthersEntries` and `OthersStay` say that the rebuilt list has the
  entries that stay, and no others.
* **Backoff.** `FiboIsSmallest` is the same of `fibo` with its cap and its negative
  attempts, for any cap; `FiboGrows` is what `Paying` and `Spaced` below rest on.
* **BrokerConn.** `ConnInv` is the inductive invariant. `Counted` ties the driver's place
  to the number of Starts. `Streamed` says that a read loop's Start has a frame and
  that, once `_.ready` of the current stream was handled, the stream field is that
  stream or nil; with `OneLiveContext` it gives `StreamIsOwned` and `AckOnOwnStream`. `Resting`
  gives `NoStartAfterReset`. `Paying` is an account: every Start since the last `_.ready`
  has been paid for by the rank of the delay plus the overstay count, one more
  while the driver is on its way to the next Start; the largest possible balance
  is `Budget`. `ConnFollowsPolicy` maps `at` and `readied` to the policy's phases and goes
  through the actions: each is a step of `ReconnectPolicy` or a stutter.
  `ConnBehavesAsLink` does the same for `Links`, with `Place`; `Counted` says what it needs to
  tell "open" from "up" by the numbers.
* **Client.** `ClientInv` needs nothing of the connections. `OverstayOffline` and
  `SignalsOffline` are kept because both writers of `online` need the lock; `FlagsHaveOwners`
  because a runner clears the flags at its end; `FlagsCount` counts: a rebuild is
  accounted for by a flag that is up, the boot goroutine's end leaves room for one
  that is not. `RebuildsBounded` follows.
* **Client's connections.** All theorems about `BrokerConn` hold in `Client`, whose actions
  conjoin its steps: `ConnectionsCorrect`, `ResetIsFinal`, `ConnectionsFollowPolicy`, and with its
  types `TypeCorrect`. What has to be shown for it is `ClientTypes`, whose last conjunct
  says that a runner that requests or launches has the number of a Start.
* **Dispatch.** `DispatchInv` is inductive. What connect finds under its own ID has not been
  cancelled, because Store.Done cannot pass the b.rw that the `_.ready` handler holds
  (`StoredAreOpen`); so a Start of it is parked when it gets on the list, and a Start
  that leaves removes every entry of its ID, however many the loop of set has made
  (`OthersEntries`). An entry that connect found under another object's ID has no such
  Start, and is the exception (`mistaken`).
* **Subscriptions.** `Fresh` carries the argument: a Sub is put into the map once, by
  its maker, so a Sub that was replaced or deleted never comes back, and what is
  in the map has been there since its handlers found it (`Members`). That gives
  `NoEntryLeaks` (the last to leave deletes) and `LeftAlone`.
* **Replies.** `KeyFiled` says where the key of a Pub leads at each point; an answer
  read before the call leaves therefore finds its channel (`FastReplyIsCaught`). An
  answer is read once, and then offered to the one channel that is filed
  (`OneOfferEach`).
* **Conversation.** Its actions conjoin those of `Replies`, so `RepliesInv` comes for
  free. The rest of `TalkInv` is about metadata:
  `Working` says that the answer a handler merges is one to itself and that nothing is
  said before the message is there; `Unchanged` says what the MD of a message holds
  as long as no response was merged (`changed`). `RouteIsKept` follows at the moment of
  GetEvent, `MessagesStayApart` because every write goes to the handler's own message.
* **ListRequest.** `Made` and `Owned` date the answers: a nonce exists only once its
  request has begun, so an answer that echoes it is younger. `Tested` remembers the
  check at the end of a call. `Spaced` ties the attempt counter to the failures and
  the wake-up time to the sum of the delays, of which `LeastDelays` is the least,
  with nothing of `Fibo` but its `FiboGrows`. `WindowIsExact` and `PromptIsTimely` are about the
  integers of `Validity` alone.
* **Payload.** `PutUintInjective`: two numbers that fit and have the same bytes agree
  after every shift, from the last one, where both are 0, back to the first. The parts
  of two equal payloads are then compared from the left (`SameParts`): equal lengths
  of the data, hence equal data, and so on; the nonce is what is left.

Model-checked only: liveness (`SupersededIsLeft`, `ShutdownCompletes`, `ResetCompletes`,
`SendEnds`), which is out of reach of the provers; every other property of a passing run
is the conclusion of a theorem. The violated claims are TLC's as well.

## What is not modelled

* Of `httpclient`, the headers, the addresses and the checks of options; of `authhmac`,
  the hash: a signature stands for its payload. `AuthInterceptor`, whose failure is
  `ChannelFails`, writes what Generate returns into metadata.
* Payloads and names of messages, the Project and Segment of metadata; TLS and
  certificates; logging; generated code.
* A Send that waits for a live stream keeps b.rw read-locked. `Dispatch` has the wait, but
  not the writers of b.rw behind it, nor does `Client`.
* How deep the recursion of send gets, what gRPC does when several goroutines send on
  one stream, and the response bodies that Do leaves open.
* Time in the connections: delays are numbers, timers fire at any moment. (In
  `ListRequest` there is a clock.)
* Go memory-model effects: `stopResetProcess` and `overstayCount` are accessed without
  a lock, each access is taken to be atomic.

## Plan

Done, in this order: `Backoff` and `BrokerConn` with their runs and proofs,
`ReconnectPolicy` and the refinement, `Client` composed with `BrokerConn`, `ClientProofs`,
`Subscriptions`, `Replies`, `Dispatch`; then `Validity`, `ListRequest` with its proofs,
`Conversation` composed with `Replies` and its proofs, `Payload`; then `Loops` with its
proofs, `DispatchProofs`, `PayloadProofs` and the connections of `Client`; then `Links` and
`Dispatch` over it. To come:

1. `Dispatch` grown: the depth of the recursion as a resource for an event that
   cannot be encoded, and which brokers a round of sends reaches.
2. `Client` with `ListRequest` in the place of its request step, which would show that
   two rebuilds at once never take each other's list.
