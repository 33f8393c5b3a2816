# A TLA+ model of squillion-mqtt

squillion-mqtt is a multi-tenant MQTT server: sockets, one task per client, one
task per session, one router per broker, SQLite underneath. This directory
models it from the bytes of a stream to the rows of the database, checks the
models with TLC on small instances, and proves with TLAPS, for every instance, the
safety properties of session, router, broker and connection. Source paths are relative to `src/src/`.

## The system

| Part | Source | State | Operations |
|---|---|---|---|
| Server | `server/mod.rs` | listeners, map of brokers | accept, wait for CONNECT, authenticate, get the session's channel from the broker, start a client worker |
| Client worker | `client/clientworker.rs` | stream, session channel, keep-alive timer, will | forward packets to the session, forward the session's messages to the socket, time out, send the will |
| Broker, session registry | `broker/mod.rs`, `sessions/mod.rs` | router channel and its `running` flag, map of sessions and their flags | start or restart router and sessions on request |
| Session worker | `sessions/sessionworker.rs` | client channel, generation, `next_message_id`, outgoing queue and its index, incoming QoS 2 identifiers, subscriptions | one handler per packet, messages of the router, new client, clean session, redelivery |
| Session persistence | `sessions/persistsql.rs` | rows of `sessions`, `qosin`, `qosout`, `messages` | load, store, delete, mark dup, clear |
| Router | `broker/router.rs` | the tree | publish, subscribe, unsubscribe |
| Subscription tree | `broker/topics.rs` | nodes with clients, retained message, row id; two gauges | subscribe, unsubscribe, retain, search |
| Router persistence | `broker/persistsql.rs` | rows of `topics`, `subscriptions`, `messages` | the same, in SQL |
| Codec | `messages/` | read buffer, packet limit | bytes to packets and back, validation |
| Authentication | `auth/` | queue of requests, password list | check a password |
| Configuration, logging, metrics | `config/`, `logging/`, `metrics/` | read-only or write-only | |

The tasks talk over unbounded channels. A client worker sends packets to its
session; the session sends answers to the one client it knows and publishes,
subscriptions and unsubscriptions to the router; the router sends publishes to
the sessions, tagged with the generation the session had when it subscribed. A
subscribe is the only request whose answer is awaited (a oneshot channel). Each
task handles one message at a time, so a handler is atomic towards its own
state, but not towards the database (every call is a transaction of its own),
nor towards the channels it sends to (they can close between two sends).

A task that meets an error leaves its loop; later it is dropped, its
channel closes with whatever is in it, and its `running` flag is cleared, which
makes the broker start another one on the next request.

What is hard here: a stop or crash between two database calls of a handler;
a new client taking over a session that an old one still sends to; a channel
that closes in the middle of a redelivery; identifiers that wrap; acknowledgements
that arrive late and carry nothing but an identifier; clean sessions, whose
effects are spread over session, database and router; reuse of row ids; tasks
that are replaced while others still hold their channels, and messages lost
with them; waits that only another task, or a timer, can end; streams cut
anywhere.
`PROJECT.json` lists these hazards with their lines.

What makes each part correct: a session survives a restart unchanged, keeps its
messages in order, drops none that was not sent, routes a QoS 2 message once,
and starts empty when it says so. The router's tree is what its tables say, its
nodes can always be saved, and a publish reaches exactly the matching sessions.
A broker runs one task per session, keeps a granted subscription live and a
clean session apart from its past. A connection hands on what an authenticated
client sent, in order, and ends when the client falls silent. The codec gives
back the packets that were sent, wherever the stream is cut.

## Modules

**SessionWorker** is one session and its rows. `running` says whether the
message loop runs; `session` has the fields of `MQTTSession` under their own
names; `db` has the session's rows: `exists`, `generation`, `next_mid` of
`sessions`, the identifiers of `qosin`, and `qosout` as a set of
`[id, entry]`; `open` is the set of connections whose task still receives; `out`
is what the last step sent, in order, to clients and router. `hist` holds what
the properties and the environment need and the broker never reads: numbers for
routed messages, which of them were never sent (`unseen`), the identifiers a
client holds a PUBREC for (`recd`), and the answers clients still owe (`wire`).

An action is a handler: `Start` (`init_persist_session`), `NewClient`
(`new_client_connected` with `clean_session` and `send_queued_messages`),
`InternalPublish...`, `Publish`, `Pubrel`, `Puback`, `Pubrec`, `Pubcomp`,
`Subscribe`, `Unsubscribe`. The functions it calls are operators with the
source's names. Every place where a handler can fail is a disjunct: the database
as the calls before left it, and `Halt`, which is either the orderly end of
`run_loop` (Disconnect to the client) or the death of the task or the process.
`NewClient` has two parameters for that: how many of the four calls of
`clean_session` succeed, and how many messages the new client's channel takes.

**TopicMatch** is `Subscriptions::get_subscribed` as a function of a tree and a
topic, beside the definition of a match it is compared with. The list
`topicmatchs` is a function of the level reached; `Visits` are the rounds of the
two loops, `Visited` the node each looks at. **MCTopicMatch** builds the trees.

**Subscriptions** is the router's state: `topics` (per path the node's id,
clients and retained message), `gauges`, and `tables` (topics, subscriptions, and the
`generation` column that sessions write and the router reads when it loads). An
action is a router message, `Load`, a session's save of its generation, or a
crash. A path without a node and an empty node are the same. `Stop` is the end
of the router after an error; a later `Load` is the next router.

**Mailbox** is what a session promises, without tasks, rows or crashes: messages
enter in order, are handed over oldest first and any number of times, and leave
one at a time when confirmed. **SessionMailbox** gives the refinement mapping: the
box is the session's rows (`Publish` rows without and with dup, `PubRec` rows,
`qosin`), so a crash, a restart or a takeover is a stutter or a hand-over.

**Broker** composes the tasks of one broker with their channels as queues:
`broker` (its step and requests), `registry` (`Sessions`), `router` (channel and
tree), `sess` (every session task ever started, in order), `conn`, `db`
(generations and subscription rows). A handler is split where it awaits another
task or leaves a gap another task can see: `BrokerTake`/`BrokerAnswer` around the
start of the router, `RouterPublish`/`RouterForward` since the lock on the sessions
is taken anew for each subscriber, `SessionClean`/`SessionSave` between the Unsubscribe and the
save of the generation, `SessionSubscribe`/`SessionSuback` around the router's
answer, the end of a loop and the later drop (`...Drop`). A task's phase is
"ended" between the two: its channel is open and nobody reads it. `Crash` ends
the process; the rows stay.

**Connection** is the other side: the task that reads the CONNECT (`FirstPacket`,
`ConnectTimeout`), the authentication service (`AuthAnswer`), the announcement to
the session (`Attach`) and the client worker, whose actions are the branches of
its `select!` (`WorkerReads`, `WorkerHears`, `KeepAliveFires`) and a write that
waits for room in the socket (`WorkerWrites`). `log` is everything ever
sent to the session, `taken` how far the session is.

**Codec** is `messages/`: operators named after the functions for the length
field, validation, parsers and encoders, on sequences of bytes, and a state
machine for one `Framed` stream: reads of any size, calls of `decode` until it
wants more, the limit raised after the first packet. `Outcome` says from the
packets, not the bytes, what should come out; it has its own definitions of
topic names and filters.

The theorems are in **SessionWorkerProofs**, **SessionDeliveryProofs** and
**SessionMailboxProofs** (SessionWorker and its refinement of Mailbox),
**TopicMatchProofs**, **SubscriptionsProofs**, **BrokerProofs**,
**ConnectionProofs** and **CodecProofs**. `MC*` modules define constants, symmetry and a view for TLC.

### Abstractions and assumptions

- Topic and payload of a routed message are its number. Packets are records; the
  bytes are left out.
- SQLite is modelled from its use: a call is atomic; a new row's id is one more than
  the largest in its table. `qosout` holds one session here; rows of others
  only make ids larger.
- `persistent_qosout_load` orders by `received`, the wall clock. The model
  takes the order of insertion: it assumes that the clock does not step back and
  that SQLite returns ties in row order.
- The identifier increment wraps (a release build); a build with overflow checks
  panics instead, which is among the failures of `InternalPublish`.
- The subscriptions a starting session loads are an arbitrary set: the router
  owns that table.
- A client sends packets only once its connection has been handed to the session, so
  packets come only when `clean` is false. After that they can come from any
  connection, also an old one.
- `Disciplined` chooses the clients: TRUE, they acknowledge only what they were
  sent and have not acknowledged yet; FALSE, anything. The broker does not check
  it, so the properties that do not need it are checked and proved without it.
  `UnsentIsStored` needs it: an arbitrary PUBACK removes
  a message that was never sent. So does a PUBACK for a retained message that went
  out under its publisher's identifier, so its theorem assumes `Regular`, both
  together.
- After a clean session old acknowledgements are no longer owed.
- `InternalPublish` needs a subscription, hence a session that is not `clean`.
- One SUBSCRIBE's requests to the router are one request.
- `Subscriptions` accepts a subscribe of any generation up to the present one: it
  may have waited in the channel.
- The gauges are zero while no router runs; nothing reads them before `Load`.
- Only the SQL providers are modelled.

In Broker:

- A session keeps its generation, filters and client; SessionWorker has the rest.
  A filter matches the topic of the same name; TopicMatch has the search.
- A failing router handler leaves no subscription row changed but for an
  unsubscribe, which may have deleted some; the topic rows are in Subscriptions.
- A connection takes the CONNACK at once, and a Disconnect or refusal later
  (`told`), since only what it forwards in between matters.
- A message's `born`, the generation in which the client asked for the
  subscription, is there for the properties; no step reads it.

In Connection:

- All connections are of one client, hence of one session. Of its handlers only
  takeover, CONNACK and the treatment of a will matter; a will is a PUBLISH with
  identifier 0, so `session.zero` says whether 0 is in `qos_incoming`.
- Delays are not measured: a timer that is set can fire at any time.
- A session that stops is replaced by one with the same rows when the next
  connection asks.
- The password list is modelled; the password file differs in how it compares.

In Codec: characters are code points, `String::from_utf8` and UTF-8 itself are
external definitions. The parsers read the length field again; since `decode`
has cut the frame by it, `expect_end` and the underflow check cannot fail.

## Runs

| Run | Checks | Bounds | Size |
|---|---|---|---|
| `session_outgoing` | `TypeOK`, `QueueIndexed`, `RestartLosesNothing`, `QueueOrdered`, `DupWasSent`, `UnsentIsStored`, `DeliveryInv`, `ImplementsMailbox` | 2 connections, identifiers 0..2, 4 messages, 1 clean session, row ids to 3 | 209 000 states |
| `session_incoming` | `IndInv`, `RestartLosesNothing`, `DupWasSent`, `QoS2Once`, `NoSessionMeansNone` | arbitrary acknowledgements, retained messages with foreign identifiers, client identifiers 0 and 1, one filter, one routed message | 112 000 |
| `session_identifier` | `IdentifierNonZero`, violated | identifiers 0..2 | |
| `topic_match` | `MatchingIsExact` | every set of 10 filters with QoS 0 or 1, 14 topics of up to 3 levels | 59 000 |
| `subscriptions` | `IndInv`, `TypeOK`, `HeldHasId`, `RowsWellFormed`, `RestartKeepsTree`, `GaugesCount`, `StoredMeansRouted` | 2 sessions, a topic and two filters that match it, topic ids to 3 | 181 000 |
| `codec` | `PacketsParse`, `DeliversWhatWasSent`, `BufferInv`, `StreamInv`, `WaitsWithinLimit`, `NothingHeldBack` | one packet of each kind, well formed or wrong in one field, names of up to 3 characters, alone or between a CONNECT and another packet; limits 30 and 2 MiB | 188 000 |
| `codec_wide` | `GoodNamesAreAccepted`, violated | names of up to 2 characters with two-byte letters | |
| `codec_dup` | `DupIsOnTheWire`, violated | | |
| `broker` | `IndInv`, `OneTaskPerSession`, `CleanIsolates`, `GrantedIsLive` | 3 connections, 1 session name, 1 filter, 3 subscribes or publishes, 1 fault | 3 316 000 |
| `broker_live` | `SubscribeEnds`, `ConnectEnds` | 2 connections with keep-alive, 2 packets of any kind, QoS 0 and 1, 1 fault | 208 000 |
| `broker_lost` | `ConnectEnds`, violated | no keep-alive, 1 fault | |
| `connection` | `IndInv`, `HandedInOrder`, `OnlyAuthenticated`, `WillIsPublished`, `SilentEnds` | 2 connections, 5 CONNECTs (each refusal, wills of QoS 1 and 2), room for 1 message, 3 packets, 1 session that stops | 146 000 |

With three identifiers and four messages the counter wraps and meets identifiers
still in use. Row ids go beyond `MaxU16`, so the failure to read back an id as a `u16` happens.
Two connections are enough for a takeover with late packets of the loser: the
session knows one client, and every other connection is alike. One clean
session gives two generations. In `subscriptions` three paths and three ids make
ids return to other topics, with two sessions sharing topics. In `broker` three
connections are needed for a subscription, a clean session and a third to
subscribe again; one fault is a database error in any handler, which ends a task, or a
crash. `MaxSessions` limits only the tasks that fairness is stated for; `EnoughSessions` says
why there are no more: a connection asks for a session once, and a packet starts
at most one task per name. Two names of
sessions meet only in the router, where Subscriptions has them. In `codec` the
announced lengths are those around each size of the length field. Reaching a bound
disables the action that would pass it. The codec, broker and connection runs do
not look for deadlock: streams and connections end, and a broker may be idle.

Connections and sessions are symmetric; the runs with symmetry check only
invariants and box-action properties. The view `WithoutOut` drops `out`, which no action
reads and whose contents no invariant of those runs constrains, apart from its
type in `TypeOK`. That part is proved below.

The properties:

- `QueueIndexed`: `qos_outgoing` indexes the queue and no identifier is in it twice,
  also after the counter wraps.
- `RestartLosesNothing`: whatever failed before, a running session could be killed
  and would load the same generation, identifiers and queue. This also covers
  the session that runs on after a failed clean session, since a
  send error hides that failure (`new_client_connected`).
- `QueueOrdered`: queued messages are in the router's order.
- `DupWasSent`: only a message that was sent is marked as a duplicate.
- `UnsentIsStored`: a stored message that nobody has been sent stays stored.
- `QoS2Once`: no second routing between PUBREC and PUBREL. The window before the
  PUBREC exists in the code (the router gets the message before the identifier is
  stored) and is allowed by QoS 2.
- `NoSessionMeansNone`: "accepted, no session present" means empty memory and rows.
- `MatchingIsExact`, `StoredMeansRouted`: the search finds exactly the matching
  sessions, on arbitrary trees and on the trees the tables give.
- `HeldHasId`: the `unwrap()` of a node's id never panics.
- `RowsWellFormed`, `RestartKeepsTree`: the router's tables are sound after
  any stop, and say what the tree says while it runs.
- `GaugesCount`: the gauges count.
- `ImplementsMailbox`: SessionWorker implements Mailbox, so all failures and crashes
  together do to the stored messages only what an ideal box allows.
- `OneTaskPerSession`: two tasks of one session never run at once; both
  would write its rows.
- `CleanIsolates`: a session accepts no message of a subscription made before its
  last clean session, through every replacement of session and router.
- `GrantedIsLive`: a subscription with a SUBACK is stored, and a running router
  has it under the generation the session accepts.
- `SubscribeEnds`, `ConnectEnds`: a SUBSCRIBE is answered or its connection closed, and
  so is a CONNECT, if the client has a keep-alive.
- `HandedInOrder`, `OnlyAuthenticated`: the session hears of a connection first that it
  exists, then its packets without gaps, then perhaps its will; and only of an
  authenticated one, which alone gets the larger packet limit.
- `WillIsPublished`: a will that reaches the session is routed.
- `SilentEnds`: a client that stops sending loses its connection.
- `PacketsParse`: a packet by itself is parsed as what it is, or refused.
- `DeliversWhatWasSent`, `NothingHeldBack`, `WaitsWithinLimit`: what the decoder makes of a
  stream of them, when, and how much it buffers meanwhile.

Four properties have an exception, which the code really has. `CleanIsolates` and
`GrantedIsLive` except a session whose Unsubscribe died with a router
(`revived`): the next router loads the old rows with the generation of that moment,
so old subscriptions come back, or, if the new generation is saved only
after the load, a subscribe with the same QoS keeps the old entry
(`broker/topics.rs:309`) and every message for it is dropped. Without the exception
TLC finds both. `WillIsPublished` excepts a QoS 2 will after another one: both
have identifier 0, and no PUBREL ever removes it. `SilentEnds` excepts a client
that does not read either: a worker waiting for room in its socket does not look
at its timer.

### Fairness

`Broker` and `Connection` assume weak fairness of each task: tokio polls a
task that can go on, and the tasks share no lock across an await. `select!` picks
among its ready branches at random, so in `Connection` each branch of a worker is fair. A
keep-alive timer is assumed to expire: in `Connection` because the client's packets
are bounded, so it falls silent, in `Broker` only before the CONNACK, when clients do not ping. Nothing
is assumed of clients, of sockets, or of faults, and a handler may always
succeed or fail. The other runs check safety only.

### Disagreements with the code's own words

- `session_identifier`: `next_message_id += 1` (`sessions/sessionworker.rs:455`)
  wraps to 0, and a QoS 1 PUBLISH with identifier 0 goes out, which
  `messages/mod.rs:226` would refuse as "Publish zero identifier".
- `codec_wide`: the UTF-8 iterator (`messages/validation.rs:31`) computes with
  `value`, still 0, instead of the lead byte, so a topic with a letter like
  U+00E3 is refused as if it held a `#` ("# not allowed").
- `codec_dup`: `to_bytes` of a PUBLISH never writes the dup bit which
  `from_bytes` reads, so what the session marks as a duplicate is not marked on the wire.
- `broker_lost`: a worker means to notice that its session is gone ("Session rx
  closed", `client/clientworker.rs:158`), but holds a sender of that channel
  itself; a client whose NewClient is lost with a dying session waits for ever
  unless it has a keep-alive.

## Proofs

Every safety property of the table above is also proved, two of the codec on the
condition `PacketsParse`, which is itself left to TLC. A proof assumes only what the
module's `ASSUME` says of its constants: any number
of connections, names, filters, messages, packets and faults, any
`MaxU16`; of a client's stream (`StreamsOK`) that it consists of pieces of bytes, each of
which announces its size in a length field, or has a field without end, and that only
the last may be incomplete. What is in a piece is arbitrary.

| Module | Theorem | Statement |
|---|---|---|
| `SessionWorkerProofs` | `Invariance` | `Spec => []IndInv` |
| | `TypeCorrect` | `Spec => []TypeOK` |
| | `QueueIsIndexed` | `Spec => []QueueIndexed` |
| | `RestartRestores` | `Spec => []RestartLosesNothing` |
| | `QueueStaysOrdered` | `Spec => []QueueOrdered` |
| `SessionDeliveryProofs` | `DeliveryInvariance` | `Spec => []DeliveryInv` |
| | `DuplicatesWereSent` | `Spec => []DupWasSent` |
| | `NothingUnsentIsDropped` | `Spec => []UnsentIsStored`, given `Regular` |
| | `RoutedOnce` | `Spec => QoS2Once` |
| | `NewMeansEmpty` | `Spec => NoSessionMeansNone` |
| `SessionMailboxProofs` | `SessionIsMailbox` | `Spec => ImplementsMailbox` |
| `TopicMatchProofs` | `SearchIsExact` | `ReachesSubscribers` for any tree and topic |
| `SubscriptionsProofs` | `Invariance`, `TypeCorrect` | `Spec => []IndInv`, `Spec => []TypeOK` |
| | `TablesStayWellFormed`, `UnwrapIsSafe` | `Spec => []RowsWellFormed`, `Spec => []HeldHasId` |
| | `NothingLostAtRestart` | `Spec => []RestartKeepsTree` |
| | `GaugesAreRight` | `Spec => []GaugesCount` |
| | `PublishReachesStored` | `Spec => []StoredMeansRouted` |
| `BrokerProofs` | `Invariance` | `Spec => []IndInv` |
| | `OneTaskOnly` | `Spec => []OneTaskPerSession` |
| | `CleanSessionsIsolated` | `Spec => []CleanIsolates` |
| | `GrantsStayLive` | `Spec => []GrantedIsLive` |
| `ConnectionProofs` | `Invariance` | `Spec => []IndInv` |
| | `SessionHearsInOrder` | `Spec => []HandedInOrder` |
| | `AuthenticatedFirst` | `Spec => []OnlyAuthenticated` |
| | `WillsArePublished` | `Spec => []WillIsPublished` |
| `CodecProofs` | `BufferInvariance` | `Spec => []BufferInv` |
| | `BufferIsBounded` | `Spec => []WaitsWithinLimit` |
| | `FrameIsFound` | `decode` of a frame and any bytes behind it parses the frame and leaves those bytes |
| | `FrameIsAwaited` | `decode` of any proper part of a frame asks for more and takes nothing |
| | `OverlongIsRefused` | `decode` of a length field over the limit is an error, whatever follows |
| | `DecodeIsLocal` | an answer of `decode` other than "more" stays the same when bytes are appended |
| | `EncodedIsDecoded` | `decode` of what `encode` wrote, and any bytes behind it, is that packet and those bytes |
| | `StreamInvariance` | `Spec /\ PacketsParse => [](Fixed /\ PacketsParse /\ StreamInv)` |
| | `Delivered` | `Spec /\ PacketsParse => []DeliversWhatWasSent` |
| | `NothingIsHeldBack` | `Spec /\ PacketsParse => []NothingHeldBack` |

Each module's invariant is a definition of the model, so TLC checks it in a run
before and beside the proof. The proof of `Next` has one lemma per action.

**SessionWorker.** The properties speak of the queue in memory, which a
restart rebuilds from the rows, so a proof needs facts about the rows at all times,
also while no session runs: `StoreOK` (distinct ids, distinct identifiers,
later messages have larger ids; nothing before the first start), and that every
stored message is older than the next one. While the session runs,
`InStep` says that the rows mirror the memory: the scalars are equal and
queue and rows are the same entries in the same order (`Mirrors`). `IndInv` is their
conjunction with `TypeOK` and `QueueIndexed`. `Mirrors` is first-order, unlike
`persistent_qosout_load`, which enumerates orderings; lemmas connect the two: a
loaded queue mirrors its rows, and a queue that mirrors rows is one that can be loaded.

**Delivery.** On top of that, `DeliveryInv` relates rows and history: an identifier
whose PUBREC a client holds has a row in `qosin`, a session marked `clean` is a new
one, and, with `Regular` clients, an answer that a client still owes is about the
message that is stored under its identifier now, and that message was sent
(`WireOK`). The last is what a late PUBACK rests on: an identifier is not
used again while an answer to it is under way. Each of the many disjuncts
of `Next` is first reduced to its `Effect` on rows and history (one of: nothing,
a row stored, a row confirmed, rows shown to a client, all emptied, an incoming
identifier stored or released), and the invariant is proved of the effects.

**Refinement.** `SessionIsMailbox` uses the same effects: initial states map to
initial states, and each effect is a step of Mailbox or none. That a message is handed over
after the older ones comes from `Mirrors`, as rows are shown in the queue's order.

**Search.** After n levels `topicmatchs` holds exactly the paths of length n whose
levels match (`Prefixes`), so a node is visited iff its path matches the
topic. Both, and that of a session found several times the last visit counts, go by
induction over the levels or visits, done by a least counterexample since the
prover cannot use the induction theorems.

**Subscriptions.** `StoreOK` says of the tables alone that ids and names are
distinct, that every subscription has its topic and that no session has two for
one topic; `TreeOK` says that a running router's nodes are what the tables say
and the gauges are the tables' cardinalities. Reuse of an id is harmless because a
topic's row goes only after its subscriptions.

**Broker.** None of its three properties is inductive; what carries them is spread over
five tasks:
- `Registered`: the registry holds the task of every session that is not dropped, with
  the flag set. `OneTaskPerSession` follows at once.
- `GenerationsOK`, `FiltersKnown`: a session that is past its start has the generation of its
  row (while it saves a new one, one more), and knows all its filters or has an
  unsubscribe for them under way (`Pending`). Hence the unsubscribe of a
  clean session names every row of the generation before.
- `RowsOK`, `TreeOK`, `TagsOK`: a row is of the present generation or `Pending`; the
  tree of a running router is what the rows say; an entry and every
  message sent for it carry the generation they were asked for in. A router
  that is started with nothing pending therefore loads the right tags.
- `SubscriberWaits`, `SubscribeIsLast`: a session whose subscribe is in the router's
  channel waits for it, so nothing of the same session comes after it; no
  unsubscribe can overtake it.
- `AnswerHolds`, `GrantHolds`: what the router has confirmed and what a
  client has been granted is stored and not pending.

A step that loses messages (`RouterDrop`, `Crash`, a failing unsubscribe) makes
the names it loses an unsubscribe of `revived`, which is where the exception in
the properties comes from.

**Connection.** `AccessOK` says how far a connection can be before it is
authenticated, `AuthOK` that who waits for the authentication service has asked it
once. `SocketOK` and `LogOK` follow a packet's number through socket and
channel: while a connection is open, every packet sent is in the channel or, behind
those, in the socket, and a will is only there once it is closed. `FateOK` says
that identifier 0 is held because of a QoS 2 will that was routed.

**Codec.** `WaitsWithinLimit` alone is not inductive: raising the limit and reading are
separate steps, so `BufferInv` adds that nothing is read between the first packet and the
larger limit. The three theorems on frames say what makes the way TCP cuts a stream
immaterial. They need what `encode_length`, a recursive function, computes:
`EncodeLengthRounds` shows that the function exists, by a least counterexample
again, and `FieldOfLength` that it gives every length up to `MAX_LENGTH` a field of one
to four bytes of which only the last has a clear top bit; `read_size_check` reads
it back, whatever follows (`FieldIsRead`), and waits for any part of it
(`FieldIsAwaited`). `EncodedIsDecoded` adds the parsers of acknowledgements and of PUBLISH,
for identifiers and payloads of every size and every topic the validator takes.

For whole streams the work is divided: `PacketsParse` says what the parsers answer for one
packet, and the proofs show that nothing else can go wrong, wherever TCP cuts the
stream, when the limit is raised, and wherever it ends. `StreamInv` is the inductive
invariant: the packets delivered are the first of the stream, and buffer and wire
together are exactly the bytes behind them (`Behind`), until an error. Its step is
`NextPacket`: with all the rest of the stream in the buffer `decode` would answer as the next
packet deserves (`PacketCases`, by `WholePacket`, `LongPacket` and `PartOfPacket`); with only a
part of it there, `DecodeIsLocal` says that it answers the same or asks for more. That
`decode` asked for more is kept in `StreamInv` for a waiting connection, from which
`NothingHeldBack` follows: a good packet in the buffer would have been cut out. `BytesOf` is
recursive; `BytesOfRounds` shows that it is what its equation says. `PacketsParse` depends on
the stream alone, so assuming it initially is assuming it throughout.

Only model-checked: the liveness properties `SubscribeEnds`, `ConnectEnds` and `SilentEnds`,
which are out of the prover's reach, and `PacketsParse`: it speaks of what the
validators and the loops of the parsers, folds and recursions over the bytes, compute.
`MatchingIsExact` is `SearchIsExact` on the trees of its run. The four violated
properties are counterexamples.

## Not modelled

Listeners, TLS, WebSocket and HTTP set-up (I/O); the password file's hashes and
parsing, and the test authentication provider (stateless); configuration,
logging and metrics other than the tree's gauges (read once, or write-only);
schema creation and its version; the in-memory providers used by tests; several
brokers of one server, which share only the map `get_broker` locks and the
authentication service. `read_size` (`messages/length.rs`) is used by tests only.

## Plan

What is left is to add to `EncodedIsDecoded` the packets a client builds. A CONNECT needs
the positions of up to five strings, as a PUBLISH does of one; the loop over the filters of a
SUBSCRIBE and the comparison of the validators with `IsTopicName` and `IsTopicFilter`
are inductions over the bytes.
