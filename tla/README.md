# A TLA+ model of GOTT

GOTT is an MQTT 3.1.1 broker written in Go. This directory holds a model of its core: how a message gets
from a publisher to its subscribers and is acknowledged, what a session keeps over reconnects and restarts, how
the tree of topic filters finds the subscribers while others change it, how connections come, take each other
over and go, and how their bytes become packets. TLC checks small instances; TLAPS proves every safety
property those runs check for any number of messages, subscribers, connections, levels and packets, and the
length codec for every length. Liveness is checked by TLC only.

Paths below are those of the repository (`broker.go:312` is line 312 of `src/broker.go`).

## The system

| Part | State | Operations | Talks to |
| --- | --- | --- | --- |
| Packet identifiers (`sequencer.go`, `packets.go`) | one counter for the whole broker | `next` under a mutex | everybody who builds a PUBLISH packet |
| Outbound delivery (`broker.go`, `message_store.go`, `client.go`) | `GOTT.MessageStore`: identifier -> `clientMessage` with a status | `Publish`, `PublishRetained`, `PublishToClient`, `Retry`, the PUBACK, PUBREC and PUBCOMP cases of `listen` | subscribers over their sockets; one goroutine per publisher, per connection and per stored message |
| Inbound publishing (`client.go:374-456`, `508-527`) | QoS 2 identifiers in `Session.MessageStore` | PUBLISH, PUBREL | `Publish` |
| Topic tree (`topic_filter.go`) | `topicLevel`s with subscriptions and retained messages | `Subscribe`, `Unsubscribe`, `UnsubscribeAll`, `Retain`, `match`, `reverseMatch` | called by every connection's goroutine |
| Connections (`client.go`, `broker.go`) | `Broker.clients`, `Client.connected`, will message, graceful flag | CONNECT, `addClient`, the listen loop, DISCONNECT, `disconnect`, `Recover` | each other, when they have the same client id |
| Sessions (`session.go`, `session_store.go`) | a `session` object per connection; a Badger record per client id | `load`, `put`, `storeMessage`, `acknowledge`, `replay` | subscriptions hold the session object, not the client |
| Subscription lists (`atomic.go`) | a slice under a mutex | `Range`, `RangeDelete`, `Add` | `Range` calls back into `Publish`, which writes to sockets |
| Plugins (`plugins.go`) | hooks | `OnBeforeConnect`, `OnConnect`, `OnDisconnect`, ... | called from the listen goroutine; some may refuse |
| Codecs (`bytes/`, `extractors.go`) | none | remaining length, packet fields | `listen` |
| Listeners, configuration, logging | sockets, files | start and accept | `handleConnection` |

What is hard: goroutines of publishers, subscribers, timers and old connections interleave with few
locks; identifiers are shared by all clients and start over; everything that ends a connection works by
client id and may meet the successor of that connection; and one topic level may carry the subscription
of two filters. `PROJECT.json` lists the places under "hazards".

What makes each part correct:

- delivery: nothing counts as acknowledged that was not delivered; what is pending stays findable until
  its acknowledgement; a status never goes back; resending ends;
- tree: a client is found for exactly the topics its filters match; a search finds exactly the retained
  messages; disconnecting removes or keeps what the session says;
- connections: the end of a connection is complete and leads nobody to it; a client that is connected is
  served; the will and the hooks happen once and only when they should; nobody waits forever;
- sessions: what was queued or not acknowledged is sent after a reconnect or a restart, in order, once
  acknowledged never again; a clean session starts from nothing;
- inbound: a QoS 2 message is published once for each identifier between PUBLISH and PUBREL;
- codecs: decoding is the inverse of encoding for every legal length.

## The modules

| Module | Models |
| --- | --- |
| `PacketSeq` | the functions of the identifier counter; `Bound` stands for 2^16 - 1 |
| `AtLeastOnce` | abstract: a delivery is sent, then received, then completed |
| `Delivery` | the outbound path to connected subscribers, in the steps other goroutines can see |
| `Sessions` | the session of one persistent client: its objects, its record, queueing and replay |
| `InboundQoS2` | QoS 2 messages from a client, with duplicates, reconnects and restarts |
| `FanOut` | Publish over the subscription lists while others subscribe and disconnect, with the mutexes |
| `TopicTree` | the tree, its operations and its two searches, each as one step |
| `Connections` | the life of connections that share client ids |
| `Framing` | the bytes of a connection cut into packets, and the remaining length codec |
| `DeliveryProofs`, `SessionsProofs`, `InboundProofs`, `FanOutProofs`, `TopicTreeProofs`, `ConnectionsProofs`, `FramingProofs` | the theorems |
| `Queues` | facts about sequences of packets that several proofs cite |
| `MC...` | values for the constants |

`AtLeastOnce` is what `Delivery` implements. The other models meet at what they leave to each other:
`Delivery` ends where a message is `queued`, which is where `Sessions` starts; `Sessions` has one connection
at a time, `Connections` has what happens when they overlap; `TopicTree` takes for one step what
`FanOut` takes apart.

### Delivery

A delivery is a pair of a message and a subscriber; for QoS 1 and 2 it is one `clientMessage`. `phase`
is the program counter of the goroutine that sends it: `Publish` goes `new`, `emit`, `store`, `sent`
(it writes the packet first), `PublishRetained` goes `new`, `storeR`, `emitR`, `sent`. `retry` is the
program counter of the Retry goroutine with its two sleeps; what it decides to send and the sending are two
steps, as in the code. `listen` is what the subscriber's goroutine still has to do for the
acknowledgement it handles: the delete of `acknowledge`, which is a critical section of its own, or the
PUBREL packet. `down` and `up` are the two directions of the connection. `Close` may happen at any time, for
whatever reason, and loses what is in flight. The subscriber (`ClientPublish`, `ClientPubRel`) is an
MQTT client and not part of the repository: it answers every packet and remembers the QoS 2 identifiers
it has to release.

Not in it: a reconnect. A persistent subscriber without a connection gets its messages `queued`, and
that is the end of them here. Each acknowledgement is applied by the code to the session's own store too
(`client.go:479`); nothing that was sent on the live connection is in that store, so it is left to
`Sessions`. The branch of Retry for the status PUBREL-received (`broker.go:439-442`) cannot be
reached by an outbound message.

### Sessions

One client id, its connections one after the other. `sess` is the `MessageStore` of each connection's
session object, `holder` the object each subscription list points to: `newSession` makes a new one at each
CONNECT, and a subscription keeps the old one until SUBSCRIBE replaces it. `record` is what Badger holds; `put`
writes the whole map of one object over it. Publish to a closed connection is three steps, `StoreMessage`,
`Marshal`, `Commit`, under the mutex of its list: two publishers with different lists can be in the same
object. `Restart` keeps the record and sets `packetSeq` back. `ConnectPersistent` loads and replays
what the record holds in the order of the identifiers (`RangeSorted`); what PUBREC had acknowledged is left to
`Retry`, as in `PublishToClient`. `rank` is history, the turn at which a message was published: `ReplayInOrder`
compares the replay with it.

The same map has an entry for each QoS 2 message of the client, from PUBLISH (`StoreInbound`) to PUBREL
(`HandlePubRel`), under an identifier the client chooses from `InboundIds`; neither puts. What the client gets for
them, PUBREC and PUBCOMP, and what Retry sends for an entry that has gone, is in `InboundQoS2`.

The properties have exceptions, kept in the history variable `causes`, and each is a behaviour of the code:

- `stale`: a `Commit` by an object that is not the last connection's. After a reconnect and before the
  SUBSCRIBE that follows, or forever if the client relies on its session, Publish queues into the old object
  and its `put` overwrites what the new one has recorded.
- `failed`: `storeMessage` and `acknowledge` drop the error of `put`.
- `undeleted`: CONNECT with the clean session flag drops the error of the delete; the record of the old session is
  what the next persistent CONNECT loads.
- `crossed`: two publishers in one object; the map that was marshalled first may be committed last.
- `reused`: after a restart an identifier is given to a new message while the record has it for an old one.
- `inbound`: a QoS 2 message of the client, or its PUBREL, has the identifier of a queued message: the entry is
  overwritten or deleted in memory, and the next put makes it so in the record.

`QueuedIsKept` excepts all but `undeleted`, five causes, and fails in the run as soon as one of them is taken from its
list. So does `AckedIsForgotten` with `stale` and `failed`, and `CleanStartsFromNothing` with `stale` and
`undeleted`. A message sent to a connected subscriber is in no session store at all (`PublishLive`), so a
connection lost before the acknowledgement loses it.

### InboundQoS2

The client of one persistent session publishes; each of its messages has a fixed identifier, and two may have the
same one, in turn. `store` is the `MessageStore` of the session object, `record` what was put last: an
acknowledgement for the broker's own messages (`HandleAck`) and `Queue` put, PUBLISH and PUBREL do not. PUBREC
is sent before Publish, so `publishing` is what a listen goroutine has still to do, also when its connection is
closed already. `Connect` loads the record and replays; Retry of a replayed entry sends PUBLISH, PUBREC or
PUBCOMP according to its status, and `shared` says whether the entry it looks at is still the one in
the map. The client (`ClientPublish` to `ClientReceive`) resumes what a connection has left unfinished, repeats
at will, and answers everything.

What the model shows beyond its properties: a message is published again after a reconnect, because the
entry that recognises the duplicate was in the old session object only (so `OncePerConnection` speaks of
one connection); and a message may be lost, when an old entry with its identifier has stayed in the record and the
client had to repeat PUBLISH: it is taken for a duplicate. These are the exceptions of
`CompletedWasPublished`: an identifier used before, by the client or the broker (both numberings share the map),
and a restart between PUBREC and Publish.

### FanOut

The goroutines of several connections at the granularity of the locks. `find` and `addChild` use none, so
a SUBSCRIBE is a search, a read of `Children` and a store of them with the new level (`AddChildRead`,
`AddChildStore`), then the flag of a wildcard, then `Range` and `Add` on the list. Publish takes the tree's mutex for
`findAll` at the top (for a topic below as well, `FindParent`, since `match` starts there), the list's for `Len`, and
again for the whole `Range`, in which it looks at the subscription (`Look`) and writes (`Write`). A write waits while
the socket of the subscriber is `full`: a client in `Stalled` may leave it so (`Fill`) until it reads (`Read`) or its
connection is closed. How many packets fit in a socket is not counted, the write that comes next may be the one too many.
`sub.Session.client` is read again after the comparison; when `UnsubscribeAll` of a connection that had
the same client id has set it to nil, the publisher panics (`WriteNil`), its deferred unlock runs, and `Recover`
disconnects it. `UnsubscribeAll` keeps the tree's mutex while it waits for each list. A connection ends with
DISCONNECT (`Disconnect`, which sets `graceful`) or without (`ReadFails`), and `DeleteSubscription` does what the code
does with the flag: at the top it deletes the subscription of a persistent client that has sent DISCONNECT, below it
takes the client from the session.

`raced` is history: the pairs of SUBSCRIBEs that overlapped, for one level or for two children of one level
(`Beside`). `AudienceServed` excepts them, and each exception is a behaviour of the code: `addChild` stores the
children it has read and so loses a level that another SUBSCRIBE has added meanwhile; of two levels with one name
only the first is found; and a wildcard level is found before its flag is set. `OneSubscriptionEach`
excepts two SUBSCRIBEs of one client id for one level, between whose `Range` and `Add` the other one fits.
`AudienceServed` excepts a client id of which another connection has subscribed to the level or gone
(`Alone`), as that takes over or takes away the subscription.

`NobodyWaitsForever` allows a goroutine to wait while a publisher is stuck at a full socket (`Stuck`): the publisher
itself, who needs a mutex it holds, and who needs the tree's mutex of one that does (`HeldUp`). In the run the publisher
is stuck with the leaving connection behind it, which holds the tree's mutex; a third goroutine that wants that
mutex meanwhile does not occur within its bounds.

A find sees a list of levels before or after an append, never between: the torn reads of a slice header that Go's
memory model allows are not modelled. The messages to sessions without a connection are those of `Sessions`.

### Framing

The bytes that follow CONNECT. The client's packets go into `net`; `Receive` brings a segment or a frame of any
size when a read has nothing left in `buf`. Bytes are numbers below 2 * `Base`, and `TypeOf` says what each one
means as the first byte of a packet, so a byte out of place is read as whatever it stands for. `ReadHeader`
is the one place where the two transports differ: over TCP `read` is a single `Read` of a `bufio.Reader`, and
when only the first byte has arrived the second one stays 0 (`short`), contrary to `client.go:44`, "read will
read len(p) bytes". Over WebSockets `Start` drops the rest of a frame that holds more than one packet (`lost`).
The properties hold up to the first such event. The other party that may end a connection is the broker:
`TakeOver` is `addClient` of another connection, which the head of the loop (`Start`, `Leave`) and the reads notice,
a read perhaps after it has returned one packet more. `Encode` and `Decode` are the code's loops written out for up
to four bytes; the fourth byte is refused, so packets from 2 MB on end the connection (`ClosedForAReason`).
PUBREL is read with two bytes whatever its header says, PINGREQ with none. The assumption on `Packets` says what
a client that follows MQTT sends: lengths below `Base`^4, acknowledgements of their fixed length, and PINGREQ as
one of the packets.

### TopicTree

A `topicLevel` is its path; the root `<<>>` stands for `topicStorage`. A subscription has the path, the
client id, the QoS, whether its session still has a client (`live`) and the session's clean flag.
`match` and `reverseMatch` are the recursions of the code, as recursive functions over the levels;
`Matches` is the independent definition of an MQTT filter they are compared with, on the instance by TLC and for
every tree by `TopicTreeProofs`. `Subscribe` includes
the second subscription that `parseChildren` makes on the level above a `#`. Levels that hold a wildcard
character next to other characters are left out. Each call is one step.

`asked` and `dropped` are history: what the client subscribed to and unsubscribed from on its
connection. The properties say what the code guarantees *including* where one level serves both `a` and
`a/#`: the exceptions in `ReceivesWhatItAsked` and `ReceivesNothingElse` are real. After UNSUBSCRIBE of
`a/#` messages to `a` still arrive, and UNSUBSCRIBE of `a` takes them away from `a/#`. Likewise
`QueuesWhatItAsked` excludes top-level filters after a DISCONNECT packet: `UnsubscribeAll` passes
`gracefulDisconnect` for those only, the levels below keep their subscriptions.

### Connections

One listen goroutine per connection, `pc` says where it stands; every client id may have several
connections, which is what takeover is about. CONNECT ends in one of five ways: accepted with
or without a record, accepted after a record that does not load, refused before there is a session,
refused because the record cannot be written. `addClient` is two steps (read lock, write lock),
`disconnect` is seven. The tree is one level at the top and one below, each with the list of the connections whose sessions
subscribe, for each client id, in order. SUBSCRIBE is what the list's mutex leaves visible: `Range` updates the first
subscription of the client id (`Update`) or finds none (`FindNone`), and then `Add` appends one. Two overlapping
connections may both add; `raced` remembers where, and `DeleteSubscription`, which compares client ids and stops at the
first, may then delete the wrong one and leave the other. Even without that, a connection that ends may detach or
delete the subscription of its successor. A connection without a session that finds a subscription panics under
the tree's mutex (`Panic`); the deferred unlocks and `Recover`, which runs `disconnect` once more, are in
the step, and a second panic ends the broker (`crashed`).

The will is given to Publish (`Will`) unless `OnBeforePublish` refuses it (`NoWill`, for connections in `Refused`).
Publish comes to its end (`WillPublished`) or panics, as any Publish may, on a session that loses its client
(`WillPanics`); `disconnect` then runs again and gives the will to Publish a second time.

A level is `stalled` while some Publish, of whatever client, holds its list and waits in a write to a client that does
not read (`Stall`, `Resume`). Nobody else gets the list meanwhile: not SUBSCRIBE and UNSUBSCRIBE, not the walk of
`UnsubscribeAll`, which keeps the tree's mutex as long.

`QueueOffline` is Publish towards a persistent session without a connection, as far as connections are
concerned: it writes the record of the client id. A client may connect while its last connection is not
finished; `met` remembers which connections of one client id overlapped. `mine`, what a connection has subscribed to,
is cleared when it leaves the loop: nothing is said of it afterwards.

Connections are TCP connections. On a WebSocket, `closeConnection` waits for `wsMutex`, which a write to the client
holds (`client.go:700-717`), and `addClient` calls it under the broker's read lock; neither lock is modelled.

What the model shows beside the listed findings, where connections overlap unless said otherwise: two
connections of one id that both pass the read lock of `addClient` before either writes stay
connected side by side; the `OnDisconnect` hook is not invoked for a connection that is taken over, nor for one whose
`disconnect` panics and runs again, although `_docs/plugins/plugins.md:310` says that it is "Invoked on the
disconnection of a client." (`NotifiedUnlessTakenOver` names both exceptions); a refused connection removes the
registration of the connected client of that id; and, without any overlap, a subscription that an
earlier persistent session left in the tree writes back the record which a clean session has deleted.

## The runs

| Run | Instance | Shows |
| --- | --- | --- |
| `DeliveryTwoSubs` | 2 live messages (QoS 2, 0), 2 subscribers (QoS 2 persistent, QoS 1 clean), 3 identifiers, 1 resend each | types, `AckedMeansDelivered`, `PendingStaysFindable`, refinement of `AtLeastOnce` |
| `DeliveryLive` | 1 retained and 1 live message, 1 subscriber, 1 resend each, fairness | `StatusForward`, `RetainedResendOnlyUnacknowledged`, `EventuallyAcknowledged`, `RetryEnds` |
| `DeliveryEarlyAck` | 1 live message, 1 subscriber | violates `ResendOnlyUnacknowledged` |
| `DeliveryWrap` | 1 message, 2 subscribers, 1 identifier, wrapping | violates `AckedMeansDelivered` |
| `TreeTwoClients` | 2 clients, 4 overlapping filters and an invalid one, topics of 1 to 3 levels, 9 shapes of search | types, `ReceivesWhatItAsked`, `ReceivesNothingElse`, `RetainedFound`, `QueuesWhatItAsked`, `CleanLeavesNothing` |
| `TreeDowngrade` | 1 client, `a` and `a/#`, QoS 0 and 1 | violates `DowngradesOnlyWhenNecessary` |
| `ConnOverlap` | 2 connections of one id, one clean, a hook may refuse each of them or its will, 2 lists that may be held up, fairness | types, `GoneForGood`, `WillUnlessGraceful`, `NotifiedUnlessTakenOver`, `ServedUnlessMet`, `ClosedIsTakenApart` |
| `ConnTakeover` | 2 persistent connections of one id, overlapping | violates `ServedWhileConnected` |
| `InboundOnce` | 2 messages under one identifier, 3 connections, 1 queued message of the broker, 1 duplicate or resend, restarts, fairness | types, `OncePerConnection`, `CompletedWasPublished`, `HandshakeEnds` |
| `SessionQueue` | 2 messages (QoS 1, 2), 2 lists, 4 connections, the third clean, 1 identifier of the client's own messages, restarts, writes of the record that fail during the second and third connection, fairness | types, `QueuedIsKept`, `AckedIsForgotten`, `CleanStartsFromNothing`, `ReplayInOrder`, `ReplayGetsThrough` |
| `FanOut` | 3 connections of 2 client ids, 2 levels (a wildcard at the top, a plain one below), 1 publisher, 1 persistent client that ends with or without DISCONNECT, 1 that may leave its socket full, fairness | types with the owners of the mutexes, `AudienceServed`, `OneSubscriptionEach`, `NobodyWaitsForever` |
| `FrameStream` | 3 packets of 7 kinds with 1 to 4 length bytes, segments and frames of up to 3 bytes, TCP and WebSocket, fairness | types, `DecodesTheLength`, `HandledAsSent`, `ClosedForAReason`, `EachIsHandled` |

Why the bounds are enough to be interesting. Two subscribers and two messages give two publishers and up
to four Retry goroutines sharing one counter and one store; acknowledgements of one subscriber meet the
messages of another. One resend already produces duplicates of every packet in the QoS 2 handshake. The
proofs remove these bounds for the safety properties. In the tree, `a`, `a/#`, `+/b` and `#` make every
kind of child, share levels, and overlap in all ways for topics one level above, at and below them; the two
clients share `a/#` and its parent. Two overlapping connections are what every step of a
takeover involves; connections of different client ids share only the tree's mutex. In `SessionQueue` two
messages and two lists are two publishers in one session; connections two and four show what the record gives
back after one and two reconnects, with the clean one between them; an acknowledgement on the second, the delete of the third and
what publishers put meanwhile may fail. Two messages are too few to see `ReplayInOrder` fail where an identifier is
reused, its exception. In `InboundOnce` the second message uses the
identifier of the first, and the broker's own message is what makes the record follow the map. In `FanOut` one
connection subscribes at both depths; at the top it meets another client, which may leave its socket full, so that its
DISCONNECT deletes its subscription from the list another one is in; below it meets the publisher, a connection of its
own client id. In `FrameStream` segments of three bytes are shorter and longer
than a header, and `Base` = 3 puts packets of 27 bytes where 2 MB are in the code.

The bounds are: `MaxResend` (a Retry goroutine decides to send at most so often, but still ends; in `InboundQoS2`
duplicates and resends together), `MaxConns`, `MaxPackets`, `BufSize`, `Failing` (the connections during which writing to the store may fail),
`Bound` with `Wraps` (a run with `Wraps = FALSE` ends before the counter starts over), each connection
object is used once, and the sets in the MC modules. CHECK_DEADLOCK is FALSE where nobody has to go on: publishers have
finished and closed connections stay closed.

### Fairness

Only what goroutines do by themselves is fair: a started `Publish` or `PublishRetained`, Retry (its
timers fire), the listen goroutine once there is a packet or the connection is closed, the steps of
`disconnect` that can be taken. The Go scheduler runs every runnable goroutine, and a read on a closed socket returns. A
`sync.Mutex` is handed on to a waiter after a millisecond at the latest, so weak fairness of `Lock` is
enough: each connection takes the mutex a bounded number of times. That its holder gives it back is not assumed:
in `Connections` neither `Resume` nor the end of the will's Publish is fair, a client may never read, and
`ClosedIsTakenApart` allows to wait for as long as that is so (`HeldUp`) and for nothing else. In `DeliveryLive` the subscriber is fair
too: it reads its socket and answers. So is the client in `InboundOnce`, which resumes its handshakes, and in
`SessionQueue`: the listen goroutine, the client and Retry go on, one or another of them (`Work`); Retry has no bound
and sends when nothing of its message is in flight. In `FanOut` the clients
owe nothing: `NobodyWaitsForever` allows a goroutine to wait for a write to a connected client that does not read. In
`FrameStream` the network delivers what was sent. Nobody has to publish, subscribe or close.

## The proofs

`DeliveryProofs` proves, for any sets of messages, subscribers and any `MaxResend`:

| Theorem | Statement |
| --- | --- |
| `TypeCorrect` | `Spec => []TypeOK`, also when the counter wraps |
| `InvHolds` | `Spec => []Inv`, the inductive invariant |
| `AckedDelivered` | `Spec => []AckedMeansDelivered` |
| `PendingFindable` | `Spec => []PendingStaysFindable` |
| `StatusGoesForward` | `Spec => StatusForward` |
| `RetainedResend` | `Spec => RetainedResendOnlyUnacknowledged` |
| `KeepsPromise` | `Spec => ImplementsAtLeastOnce` |

They rest on the assumptions about the constants in `PacketSeq` and `Delivery`, and all but the first on
`~Wraps`: `DeliveryWrap` shows that they are false once an identifier is handed out twice.

`AckedMeansDelivered` is not inductive: that an acknowledgement is right depends on where its identifier
came from. `Inv` follows an identifier through the system. `IdsUnique`: two deliveries never have the
same one, and none is ahead of the counter. `StoreKeyed`: an entry of the store is under its own
identifier. `InFlightNamed`: a PUBLISH on its way to a subscriber names a delivery to that subscriber by its
identifier; a PUBREL or an acknowledgement on its way, or half handled, names one that was delivered.
`StatusEarned` and `CompletedIsLeaving` tie the status to the delivery and to the delete that is still
to come; with them `PendingStaysFindable` is inductive too. Each action is a lemma; the refinement and
`StatusForward` follow from `Inv` step by step. `RetainedResend` needs more: `AnswerInv` says that a retained message
which is stored, received and still unacknowledged has its answer on the way, since the answer could not come before
the clientMessage was stored. `DeliveryEarlyAck` shows that this is false of live messages.

`SessionsProofs` proves, for any messages, subscription lists, connections and restarts:

| Theorem | Statement | Along which invariant |
| --- | --- | --- |
| `SessionTypes` | `Spec => []TypeOK` | `TypeInv`: each entry is under the identifier of its message (`MapsKeyed`), packets carry it (`Packets`), the counter is never ahead of what was published (`Counted`) |
| `InOrder` | `Spec => []ReplayInOrder` | `OrderInv`: until an identifier is reused, identifiers are in the order of `rank` |
| `AckedForgotten`, `CleanStarts` | `Spec => []AckedIsForgotten`, `Spec => []CleanStartsFromNothing` | `GoneInv` |
| `QueuedKept` | `Spec => []QueuedIsKept` | `Kept` |

What is in the record now says too little: a publisher may hold a map it has not committed, and a session object
another one. `GoneInv` is about `Live`, what the record, the last connection's map or a copy that is
still to be committed contains: nothing acknowledged or discarded is live (`Gone`), no publisher writes
to the session of a connection that is up (`Apart`), and what is in flight to a clean session is not live
(`CleanPackets`). `Kept` is the converse: what is pending is in the record *and* in
every map that may replace it, as long as none of its `causes` has happened; it needs `Answers`: the answer to what Retry sends for
a message of the client finds no queued message under the identifier. These theorems rest on
`SessionsAssumption`.

`InboundProofs` proves, for any messages, identifiers, numbers of connections and repeats:

| Theorem | Statement |
| --- | --- |
| `InboundTypes` | `Spec => []TypeOK` |
| `CompletedPublished` | `Spec => []CompletedWasPublished` |
| `PublishedOnce` | `Spec => []OncePerConnection` |

They rest on `InboundAssumption`. `CompletedWasPublished` is about the end of a handshake, but the broker commits
itself earlier: by PUBREC, which lets the client forget its message, and by an entry that makes it answer a
duplicate without publishing. `HandshakeInv` says that both are given only for an identifier that is `Settled`,
every message begun under it published or excused (`EntriesSettled`, `AnswersSettled`). An identifier stays settled
when the client uses it again, because a message completed under it is one of the exceptions (`SettledStays`); that
is where the proof needs `OneInProgress`.

`OncePerConnection` depends on the order of the queue to the broker. `OnceInv` says of each message on the open
connection: once it is published, and while another PUBLISH of it may come, there is an entry that recognises
it (`Known`); a PUBREL that is read before such a PUBLISH, and deletes that entry, belongs to an earlier message of
the same identifier (`Behind`); a PUBLISH without the duplicate flag is the first one (`NewFirst`). `Foreign` says that
acknowledgements and resends of the broker's own messages are under other identifiers, which is the condition
of the property.

`FanOutProofs` proves, for any connections, client ids, levels and full sockets:

| Theorem | Statement | Along which invariant |
| --- | --- | --- |
| `FanOutTypes` | `Spec => []TypeOK` | `TypeInv`: the locals of a goroutine fit its step (`ShapeOf`), and a mutex belongs to who ranges over the list or walks the tree (`Locks`) |
| `OneSubscription` | `Spec => []OneSubscriptionEach` | `OneInv`: who is about to add a subscription has found none of its client id, or has been overtaken (`AppendFresh`) |
| `Audience` | `Spec => []AudienceServed` | `TreeInv` and `ServeInv` |

`TreeInv` says that a subscription nobody has raced is where `findAll` and `Range` find it and that no `addChild` under
way will lose its level (`Placed`, `Undisturbed`). `ServeInv` follows a Publish subscription by subscription: `DueOf`
says how many messages a member of the audience has been sent when its list is still to visit, being
ranged over before or after its place, or done. The mutex of the list is what keeps its place while
it is ranged over, so `Audience` rests on `Locks`. The assumption is `FanOutAssumption`.

`TopicTreeProofs` proves, for any clients, filters, topic names and searches, under `TreeAssumption` (they are
non-empty sequences of levels):

| Theorem | Statement |
| --- | --- |
| `TreeTypes` | `Spec => []TypeOK` |
| `AskedReceived` | `Spec => []ReceivesWhatItAsked` |
| `NothingElse` | `Spec => []ReceivesNothingElse` |
| `RetainedIsFound` | `Spec => []RetainedFound` |
| `AskedQueued` | `Spec => []QueuesWhatItAsked` |
| `CleanLeft` | `Spec => []CleanLeavesNothing` |

There are two parts. `MatchFinds` and `ReverseFinds` say what the two recursive searches return, as a set defined
without recursion (`FoundFrom`, `HeldFrom`): the set satisfies the equation of the function, and two functions that
satisfy it cannot differ, as a deepest level at which they do has children at which they do not
(`TreeInduction`). That needs a tree: every level above a level is there, and depth is bounded (`Tree`). Then
`TreeInv` says what the calls leave in it: what a client asked for is subscribed to, at both paths of a `#` but for
the upper one it has unsubscribed by name (`Kept`), and a live subscription is explained by a filter
its client asked for or has dropped at a `#` (`Explained`). Neither is a property of the runs: those are about messages,
and follow through the searches (`CarrierFound` and `FoundCarries` say which level carries a message for a filter).

`ConnectionsProofs` proves, for any sets of connections, client ids, wills and refusals:

| Theorem | Statement | Along which invariant |
| --- | --- | --- |
| `ConnTypes` | `Spec => []TypeOK` | `TypeInv`: the counters of will and hook are 0 before their step, and a will is given to Publish again only after a panic of Publish (`Counted`) |
| `GoneLeavesNothing` | `Spec => []GoneForGood` | `Single`, `Dismantled`: a client id has at most one subscription in a list that is not `raced`, so that to delete the first is to delete all; what each step of `disconnect` clears stays cleared (`Cleared`), since only the connection itself registers and subscribes its session |
| `WillOnce` | `Spec => []WillUnlessGraceful` | `WillKept`: the will is set from CONNECT until DISCONNECT removes it, so that it is there when `disconnect` comes to it |
| `HookSeesTheEnd` | `Spec => []NotifiedUnlessTakenOver` | `ClosedBySomebody`: `connected` is TRUE until `disconnect` reads it, or a takeover or a panic explains why not |
| `ServedInSequence` | `Spec => []ServedUnlessMet` | `OneActive`, `RightClient`, `Undisturbed`: nobody but an overlapping connection of the same client id reaches the session |

The first four hold with and without overlap; the last is about the connections that met no other one of their
client id, as `ConnTakeover` shows that it must be. They rest on `ConnectionsAssumption` alone.
`ServedInSequence` needs `RightClient` because `DeleteSubscription` detaches whatever session it finds under the
client id: only the key of the subscription keeps it away from others.

`FramingProofs` proves, for any `Base` above 1 (128 in the code), any packets, and segments and frames of any size:

| Theorem | Statement |
| --- | --- |
| `RoundTrip` | `Decode(Encode(x)) = x` for x from 1 up to `Base`^3 - 1 |
| `FourBytesRefused` | `Decode(Encode(x)) = Malformed` for x from `Base`^3 up to `Base`^4 - 1 |
| `FramingTypes` | `Spec => []TypeOK` |
| `LengthDecoded` | `Spec => []DecodesTheLength` |
| `SentIsHandled` | `Spec => []HandledAsSent` |
| `ReasonToClose` | `Spec => []ClosedForAReason` |

The first two go through the digits: a number below the cube is the sum of its three digits times their powers
(`ThreeDigits`), and a digit is read back whether it carries the continuation bit or not (`DigitBack`). The others
follow from `FrameInv`. That the packets handled so far are a prefix of those sent says nothing about the next read;
`StreamInv` says where listen is. With S[i] the bytes of all packets from the i-th on, what has been seen of the
present packet, what is buffered and what is under way are together S[n + 1] after n packets handled (`At`), and
no more length bytes have been read than the packet has. Then a complete header is the header of the
next packet (`HeaderOf`), a complete body its body (`AtReadBody`), and Send adds its bytes at the end of every S[i]
(`AtSend`). S is quantified, not defined, as its definition would be recursive.

TLC checked the invariants of all these proofs, or the parts of them it can evaluate, before they were proved.
The assumptions are evaluated by the runs of the same modules.

Only model-checked: liveness (`EventuallyAcknowledged`, `RetryEnds`, `ClosedIsTakenApart`, `HandshakeEnds`,
`ReplayGetsThrough`, `NobodyWaitsForever`, `EachIsHandled`), which is out of the prover's reach;
and that the four properties of the violation runs are false.

## Not modelled, and why

- `config.go`, `logger.go`, `utils/`, `main/`: reading a file, writing logs, helpers.
- Listeners, TLS, WebSockets: I/O; a WebSocket client runs the same `listen`. That closing a WebSocket waits for a write
  under way (`wsMutex`), and `addClient` with it, is a hazard that no model has: connections are TCP in all but `Framing`.
- Loading plugins: Go's `plugin` package. The hooks that refuse a connection, a will
  or an inbound message are branches of the models; those of SUBSCRIBE and UNSUBSCRIBE leave out one filter, as if it had
  not been in the packet.
- Field-level parsing (`extractors.go`): no state; a malformed packet is the branch that ends the loop.
- A second CONNECT on one connection: it would double every local state of `Connections`.
- Torn reads of slices and maps that are read and written without a lock (`find`, `addChild`, the map that `put`
  marshals): Go promises nothing there, and a crash of the runtime is one of the outcomes.
- Inbound QoS 0 and 1: no state; the acknowledgement is sent and Publish is called.

## Plan

1. Done: the modules above, and the proofs of every safety property their runs check.
2. An abstract session, a set of messages with put, acknowledge and clean, that `Sessions` implements
   as long as none of its `causes` has happened, with the refinement proved along `GoneInv` and `Kept`.
3. An abstract Publish, which serves its whole audience at once, that `FanOut` implements but for the
   exceptions of `AudienceServed`.
