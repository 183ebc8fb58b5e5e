# TLA+ models of logos-messaging-js

logos-messaging-js is a client library for the Waku peer-to-peer messaging
network and, on top of it, for reliable group channels (SDS, Scalable Data
Sync). This directory holds TLA+ modules translated from its source, the TLC
configurations that check them on small instances, and theorems about them
that TLAPS checks. Paths below are relative to `packages/` of the repository.

## 1. Inventory

An application uses, from top to bottom: a *reliable channel*
(`sdk/src/reliable_channel`), which drives one *SDS message channel* (`sds/src`)
with timers and with the node's *light push*, *filter* and *store* protocols
(`sdk/src/light_push`, `filter`, `store`); these pick peers from the *peer manager*
and open streams with the *stream manager*; the *connection manager*
(`core/src/lib/connection_manager`) dials what *discovery* finds and keeps
connections alive. Components talk by awaited calls, by callbacks handed down
and by events; everything runs on one JavaScript thread, so the interleavings
are those of the `await`s, timers and event handlers. Nothing is shared between
nodes but messages.

| Component | State | Operations | Hard behaviour | Correct when |
|---|---|---|---|---|
| SDS message channel `sds/src/message_channel/message_channel.ts` | Lamport timestamp, bloom filter, outgoing buffer, possible acks, incoming buffer, local history, times of reception, task queue | queue a send / ephemeral send / reception; process tasks; sweep the incoming, outgoing and repair buffers; send a sync message | send callbacks awaited while other tasks run; loss, duplication, reordering; retries of acknowledged messages; lost-message timeout | causality is respected, nothing delivered before its dependencies were received or given up, acknowledgements are true, every message reaches everybody |
| Repair manager `sds/src/message_channel/repair` | outgoing buffer (requests to make), incoming buffer (answers to give), sorted by due time | mark missing / received, take due requests, process requests, sweep answers | bounded buffers that evict, requests of others cancelling one's own, requests marked before they are sent | what is asked for is needed, what is due is not skipped, what is soonest is kept |
| Local history `sds/src/message_channel/mem_local_history.ts` | array sorted by (timestamp, id), bounded | push, find, slice | same id with two timestamps, eviction at the limit, a batch longer than the limit | sorted, one entry per id, the newest kept |
| Bloom filter `sds/src/bloom_filter` | bit array | insert, lookup, toBytes, fromBytes | false positives; word boundaries | no false negative, survives its encoding |
| Reliable channel `sdk/src/reliable_channel` | channel, retry timers, missing messages, sync and sweep timers, sync status | start, stop, send, process an incoming message, queue processing, sweeps, sync | timers re-armed from events, stop and restart, retries racing acknowledgements, store retrieval racing delivery | retries stop on acknowledgement, one timer of each kind, lost messages reported |
| Light push `sdk/src/light_push` | retry queue, tasks in progress, timer | send, push task, process | retries after peer failures, concurrency limit, renewed peers | a task is retried at most its attempts, never after success |
| Filter `sdk/src/filter` | per pubsub topic a `Subscription`: callbacks, topics to subscribe and unsubscribe, peers, missed pings, seen messages | subscribe, unsubscribe, unsubscribeAll, interval, ping, handle a push, replace a peer | attempts and rounds of pings overlap, a stopped subscription still waits for answers, peers replaced while calls are pending, duplicates | one callback per message, peers subscribed as long as wanted |
| Store queries `sdk/src/store`, `core/src/lib/store` | cursor | build queries, page, iterate | ranges split by day, pages cut by the cursor | the pages cover the range asked for |
| Query on connect `sdk/src/query_on_connect` | last offline and last successful query times, the running query | start, stop, peer and health events, query | events during a query, overlapping, failing and aborted queries | what was stored while nobody listened is dispatched |
| Peer manager `sdk/src/peer_manager` | locked and unlocked peers | get, renew, connect, disconnect events | connection lost while a call uses the peer | locked peers are connected ones |
| Connection manager `core/src/lib/connection_manager` | connections, dial queue, dial history, keep-alive timers, network state | dial, limit, keep alive, network events | failing and overlapping dials, connections closed during a ping, offline periods | dials are bounded and not repeated too early, a lost network is noticed once |
| Stream manager `core/src/lib/stream_manager` | stream pool, streams being created | get a stream, peer update events | several callers of one stream, creation failing meanwhile | no two callers get one stream |
| Metadata `core/src/lib/metadata` | handshakes confirmed, shard bytes of the peer store | query, answer, confirm | repeated handshakes, two formats of shard lists, discoveries that write the same entry of the peer store | a peer is found on the shards that were stored, in whichever format |
| Health indicator, wait-for-peer, node `sdk/src/health_indicator`, `waku` | health value, listeners | start, stop, peer updates, waits | events missed between a check and a subscription, assessments that overlap at their lookups | a node shown as healthy has the peers it takes |
| Discovery `discovery/src` | records resolved, walks under way, the cache of peers; marks and expiration records of peer exchange | DNS walk, peer cache, peer exchange, each started and stopped | branches that name each other; walks, loads and queries that outlive a stop; the peer store read before an await and told after | walks end, queries are bounded, what is known of a peer is kept (for shards it is not, section 6) |
| Relay `relay/src` | pubsub topics, observers | subscribe, send, wait for peers | meshes that form late | observers get valid messages of their topics |
| Encodings and cryptography `proto`, `enr`, `message-encryption`, `utils`, `rln`, `core/src/lib/message*` | none, or keys | encode, decode, sign, shard | boundary values of integer encodings | decoding inverts encoding |

The hazards these components are exposed to are in `PROJECT.json`, each with its
line and the properties that watch over it. Two that no property covers: a peer
that joins a mesh late has no relay ping (`keep_alive_manager.ts:163`), and a mesh
that never forms is waited for without end (`relay.ts:130`).

## 2. Modules

| Module | Models | State and actions |
|---|---|---|
| `MessageChannel` | the SDS message channels of a group of participants and the transport between them | per participant: `lamportTimestamp`, filter, outgoing buffer, possible acks, incoming buffer, local history (a set ordered by `Before`), times of reception, task queue, repair buffers. One action per task and sweep: `PushOutgoingMessage`, `PushOutgoingEphemeralMessage`, `PushIncomingMessage` queue; `BeginSend`/`Transmit`/`EndSend` split a send at its awaited callback; `Receive`, `SweepIncomingBuffer`, `SweepOutgoingBuffer` (part of a retry), `SweepRepairIncomingBuffer`, sync messages |
| `ReliableBroadcast` | what the channel promises: messages that once published stay so, each delivered to a participant at most once as the same message, acknowledged only when another participant holds it | the abstract specification; `MessageChannel` implements it by the mapping at its end |
| `Arrays` | `filter`, `uniqBy` and their like: the items of an array at some of its positions | one operator, `At` |
| `RepairBuffers` | the two sorted buffers of `repair/buffers.ts` | operators on sequences, used by the modules around it |
| `RepairManager` | `repair/repair.ts` on its own, buffers filling up | one action per method of the manager |
| `LocalHistory` | `mem_local_history.ts` as the array it is | `Push`; relates the array to the set `MessageChannel` has |
| `ReliableChannel` | the sending half of `reliable_channel.ts`: `send`, retry manager, process, sync and sweep timers, `start` and `stop` with their awaits | a task of the SDS queue is its kind; the SDS handlers are the few lines that raise events about one's own messages |
| `ChannelReception` | the receiving half: reception, `SyncStatus`, `MissingMessageRetriever`, `start` and `stop` (`StartReception`, `StopReception`, `EndStop`) | messages arrive from filter or store, are queued, processed when the process timer fires, given up; store queries are answered or time out; a status event waits for its microtask |
| `ChannelHalves` | the sum of these two | a behaviour is one of the `half` it began with |
| `PeerManager` | `peer_manager.ts`: a call of `getPeers` or `renewPeer` per requester, step by step between its awaits, locks and the rest of unlocked peers | `Check`, `Select`, `Renew`, and connections that come and go |
| `LightPush` | `light_push.ts` and its `retry_manager.ts` over `PeerManager`; filter and store are other requesters | `Send`, `PushToPeers`, `EndSend`; `ProcessQueue`, `Fire`, `Execute`, `EndTry`, `Rejected`, `EndRejected` |
| `Dialer` | `dialer.ts`: calls of `dial` suspended in `shouldSkipPeer`, the queue, dials in progress with who awaits them, the two locks, the peers that cool down | `CallDial`, `Skipped`, `Checked` (dial or queue), `ProcessQueue`, `EndDial`, `Cool` |
| `ConnectionManager` | the rest of `connection_manager/` over `Dialer`: limiter, discovery dialer, network monitor, ping timers, and libp2p's connections with the locks of the peer manager | `Start`, `Stop`, `Discover`, `DialFromStore`; a round of the limiter is `BeginRound`, `DialMore`, `EndCalls`, `Trim`, `HangUp`, from one await to the next; handlers of connection events are part of the step that opens or closes the connection (`Opened`, `Closed`) |
| `Filter` | `filter.ts` and `subscription.ts` for one pubsub topic, with every `Subscription` made for it and the service nodes' own records | everything that awaits is a *call*, a record of what the code keeps in local variables: topics, the peers read before the await, the peers still asked. `subscribe`, `unsubscribe`, `unsubscribeAll`; `Request` and `Ping` end one request of a call, `Finish` is what follows the last, `Reject` what does not when a request threw; `Interval`, `KeepAlive`, `onPeerConnected`, `onPeerDisconnected`, or `Overlook` where `isPeerOnPubsub` says no; `Push`. The service nodes may `Forget` |
| `StoreQueries` | `buildQueryParams`, and a page of a store node's answer | operators |
| `QueryOnConnect` | `query_on_connect.ts` over `StoreQueries` | `Connect`, `Offline`, `Start`, `Stop`/`Stopped`; a query is one record per peer, advanced by `Answer`, `AnswerEmpty`, `Unanswered`, `Error`; `archive` is what the store nodes keep. `unasked` records the times that a query counted as done has left out, with the reason at each action |
| `StreamManager` | the streams of one protocol to one peer: pool, creations under way, locks | `TakeStream` and `GetStream` with the awaits `GetAwaited` and `GetCreated` behind them, `PeerUpdate`, connections that open and close |
| `HealthIndicator` | `health_indicator.ts` over connections, of which a peer may have several | `StartHealth`, `StopHealth`; `OpenLink`, `PeerIdentified`, `CloseLink`; several assessments at once: `AssessHealth` reads the connections, `UpdateHealth` uses those whose lookup succeeded after an await |
| `Metadata` | `savePeerShardInfo` of `metadata.ts`, the codec of shard lists in `relay_shard_codec.ts`, and the writes of the two discoveries to the same entry of the peer store | `savePeerShardInfo` writes to the peer store, `ConfirmHandshake` the map after the await; `LookUp` and `WriteRecord` are a discovery before and after its awaits; `isPeerOnShard` reads |
| `RemotePeers` | `wait_for_remote_peer.ts`, with the handshakes of `metadata.ts` | `waitForRemotePeer`, identify events with their handshakes, `CheckPeer` through existing connections, `Resolve`, `RejectOnTimeout` |
| `ProtoWire` | the encoders and decoders of `proto/src/generated`: a message type is a schema, the fields of the generated code in its order; `Encode` and `Decode` are written once, in four levels (`Encode1` of a type that embeds none, to `Encode` of `PushRpc`, the deepest there is) | a wire is a sequence of field numbers and values; absent, zero, repeated, unknown and misordered fields are kept apart as the code does |
| `WireExchange` | one message of any type between two versions of the code | `Write`, `WriteUnknown`, `WriteReversed`, `Read` by the same type, a copy of it or `TopicOnlyMessage` |
| `WakuMessages` | the SDS message kinds (`sds/src/message_channel/message.ts`), the three encoders and decoders, the message hash, requests and answers of light push | operators; ciphers are symbolic: a ciphertext is a record only its key opens |
| `MessageFlow` | a message from `send` to a callback | `WrapAndSend`, `SendWithTimestamp`, `PushMessage` (light push, both versions), `Publish` (relay), `ReceiveByFilter`, `ReceiveByStore`, `ReceiveByRelay` |
| `BootstrapDiscovery` | `dns.ts`, `fetch_nodes.ts`, `dns_discovery.ts` and `peer_cache.ts` over the tags of one peer store | a walk per call of `findPeers`: `ResolveRecord` (a step of `_search`), `HasPeer`, `GetPeer`, `TellPeer`; `StartDns`, `StopDns`; a load per call of `discoverPeers`; `StartCache`, `StopCache`, `Identified` |
| `PeerExchange` | `peer_exchange_discovery.ts` with the queries of `peer_exchange.ts` | a query per call of `runQuery`: `AnswerQuery`, `HasShardInfo`, `MergeFound`, `LastFound`; `IdentifyServer`, `Periodic` and what follows its await (`Checked`), `ExpireRecord`, `StartExchange`, `StopExchange` |
| `Components` | the sum of `LocalHistory`, `RepairManager`, `WireExchange`, `MessageFlow`, `HealthIndicator`, `StreamManager`, `Metadata`, `RemotePeers`, `BootstrapDiscovery`, `PeerExchange` | a behaviour is one of the `component` it began with |
| `DataProofs` | lemmas about `Arrays`, `RepairBuffers` and `ProtoWire`, for the two modules below that use them | |
| `MessageChannelProofs`, `ComponentsProofs`, `ChannelProofs`, `LightPushProofs`, `ConnectionManagerProofs`, `FilterProofs`, `QueryOnConnectProofs` | theorems | |

`MC*` modules hold the instances. Composition: `MessageChannel` uses
`RepairBuffers`; `LightPush` extends `PeerManager`; `ConnectionManager` extends
`Dialer`, with the peer manager reduced to locking a connection and unlocking it
again; `QueryOnConnect` extends `StoreQueries`;
`MessageFlow` extends `WakuMessages`, which extends `ProtoWire`. `ReliableChannel`
and `ChannelReception` each have the part of the SDS queue that concerns them as
their environment, instead of the whole `MessageChannel`, whose state would be
multiplied by that of the timers; for the same reason `Filter` picks peers by the
rule of `getPeers` and locks them without `PeerManager`'s awaits.
`ChannelHalves` and `Components` are sums, not products, so that one run serves them all.
What their parts share in the code is repeated in each of them as its environment: the
connections of libp2p, and the peer store, in which metadata and both discoveries write
the shards of a peer (`Metadata` has all three writers) and the discoveries its tags
(`BootstrapDiscovery`). `RemotePeers` keeps of the metadata service only which peers have
answered a handshake.

Data are reduced to what the protocols compare. A message is a record of its id,
timestamp, causal history, filter and repair requests; contents are model
values, ordered by `IdRank` where the code orders ids. A bloom filter is the set
of ids put into it, plus `FalsePositives` it may also answer to. A causal history
entry is an id. A message of the network is never removed, so any message may
arrive again, late, or never.

## 3. Runs

`tlc -config <cfg> <MC module>`; each ends within five minutes with two workers.

| Run | Shows | Bounds, and why they suffice |
|---|---|---|
| `sds` | timestamps follow causality (`DependenciesPrecede`) and are never reused (`UniqueTimestamps`), the channel is a reliable broadcast (`ImplementsBroadcast`), which contains that acknowledgements are true | two participants with one payload each, ephemeral messages, four calls, two sends under way at once: a retry overlapping a reception overlapping a failing send. Each property is about a pair of messages or of participants |
| `sds_repair` | nothing is delivered over a hole that was not announced (`HistoryJustified`), in a history that evicts nothing; a participant asks for no message that it received from another and that does not name itself (`RepairsNotReceived`) | two messages of one author with lost messages, a clock of two ticks, buffers of two: both the timeout of a missing dependency and its repair occur |
| `sds_dissemination` | every published message reaches every history | a chain of three messages, without loss: a message waits for one that waits for another |
| `sds_cyclic_dependency` | *violated*: see section 6 | |
| `reliable_channel` | sending: the share of pushes of a `send` (`RetriesBounded`), no task run twice, nothing left to send after `stop`, queued acknowledgements are processed. Receiving: the status counts each message once (`CountedOnce`) and tells what is missing (`FirstSessionReported`), the missing is wanted (`MissingIsWanted`) and asked for until it arrives (`WantedRetrieved`) | sending: one message sent twice, two acknowledgements, three starts. Receiving: three messages, two of which depend on the third and one of these on the other; two sessions; one store query at a time (section 6 describes two) |
| `light_push` | locks and rests stay apart (`LockedAvailable`), `inProgress` is right (`InProgressCounted`), attempts are bounded, tasks end | one message beside another user of two peers, two attempts, one peer to use, two starts. The theorems hold for any number |
| `light_push_success` | *violated*: see section 6 | |
| `connection_manager` | the dialer runs one immediate dial and one batch (`DialsAreBounded`; together one dial more than its option allows, section 6), its locks never block the queue (`QueuedAreDialed`), a node without connections gets one (`NodeReconnects`) | two peers of which one never answers, and either may be skipped for its shard info or a failing peer store, one connection wanted, so that there are too few and too many; one round, which overlaps with dials by event and discovery; one event of the environment (a stop, a lost network, a discovery, a connection opened, closed or locked) at any moment. `MaxReads` and `MaxCalls` merge calls that wait for the same answer. Two rounds at once, batches of several peers and several hang-ups are in the theorems only |
| `components`: `history` | a set of first stamps, the newest ever pushed | a limit of two and batches of up to three, six stamped messages of four ids, so that ids meet with other timestamps and evict, and one push is longer than the limit |
| ... `repair` | answers are dropped only with a reason (`AnswersAccounted`), wanted messages are asked for and promises settled in the end | buffers of two for three messages: they fill up and evict |
| ... `wire` | every type survives other versions, copies and orders of fields (`NothingLost`) | all types; messages with at most two fields set, and the one with all; fields do not depend on more than their neighbours |
| ... `flow` | what fits is received as it was sent and nothing else is (`WhatIsSentIsReceived`), all ends agree on the hash (`HashesAgree`), success means accepted (`SuccessMeansAccepted`) | every SDS kind, one message that only the overhead of encryption makes too big, each scheme with right and wrong keys, signed and not, three encodings of one message, both versions of light push, relay, filter and store |
| ... `health`, `streams` | a node shown as healthy has a peer of each protocol (`HealthyHasPeers`); only a stream's creator shares it (`SharedOnlyWithCreator`) | three connections of two peers, one of which speaks both protocols, and two assessments at once, so that one peer counts twice and the older result may be written last; three requests, two streams, one connection |
| ... `metadata` | the shard reader finds what was stored last, in both formats, and only what was stored is confirmed (`OnStoredShards`) | two peers, answers of both formats, one that cannot be encoded, and a record of one peer, written by either discovery; words of two bits, lists of one shard, vectors of three bits stand for 16 bits, 63 and 1024, so that truncation and the failing encoder occur |
| ... `remote` | a wait that cannot look through connections ends by what was identified since (`ResolvedByEvents`) | two nodes that are connected, identified and gone at any moment |
| ... `bootstrap` | the walks end (`WalksEnd`) | two branches that name each other, a node on each, one of which cannot be dialled; two walks at once, two searches in each, two starts in all |
| ... `exchange` | queries of one server stay within one more than the stops (`QueriesBounded`) | one server (a query touches the marks of its own only), three queries at once, two stops |
| `filter` | from start to stop of a `Subscription` a decoder's callback hears a message once (`HeardOnce`), what is subscribed is served in the end (`EventuallyServed`) | two service nodes of which one is used, one decoder, two Subscriptions, two calls suspended at once, three operations of the application and one fault (a lost or restarted service node, a missed ping, an answer that cannot be decoded, an ignored connection); the interval and the pings fire while calls wait. What the interval itself began has ended when it fires next, and no call lasts from before one round of pings to after the next |
| `history` | what was stored before the last query that succeeded was dispatched, or its time was left out for a known reason (`NoneMissed`) | two store nodes (symmetric), two messages, four ticks, ranges of one tick and pages of one message, so that every query of a longer time has several ranges and pages; a query limit of three ticks; three connects, one stop |
| `history_ranges` | *violated*: see section 6 | |

`CHECK_DEADLOCK FALSE` stands where the system may stop: all calls made, all
timers cleared. The other runs check deadlock.

### Fairness

`FairSpec` (`Spec` of `Filter`, and the sums') of each module assumes only what JavaScript's event loop gives: a
timer that is set fires, a handler that is queued runs, an awaited call of a
peer returns or times out (the code races it with a timeout where it matters).
The dissemination run also assumes that each message is handed over again until
it is held, which the retries and the store provide, and that the application
goes on calling `processTasks` and the sweeps, as `ReliableChannel` does. The
connection manager's also assumes that a peer of `Reachable` is dialed
once it was asked for again and again, since its shard info can be read and names our cluster, and
answers one of the dials it gets if it gets them again and again; that a record of a dial expires, as
it does by the clock; and that rounds come again, as their interval brings them. The
filter's assumes that each request ends (it fails when its connection goes; the
code has no timeout of its own, see section 6), that its two intervals fire again
and again, and that a service node answers a ping with an error when it keeps no
subscription, which is external. In `Components` the
repair manager has fairness, since time passes and the channel's timers take what is
due, and so have the walks: a look-up of a record and a call of the peer store end,
with an answer or a failure. No
fairness is assumed for sending, starting, stopping, connecting, for answers
being successes, or for the store having a message.

## 4. Theorems

They hold for all values of the constants; TLC has checked each property before.
A property that is proved as a state formula and whose run has given its place to another
question is stated in the theorem only: `AcknowledgementsTrue` (contained in
`ChannelIsBroadcast`), types of `MessageChannel`, `LightPush` and `ConnectionManager`,
`RetriesFollowFailure`, `LocksMatchDials`, `PingsAreForConnected`.

*`MessageChannelProofs`*: `Spec => []TypeOK`, one lemma per task and sweep.

In the same module: `RequestsAreForMissing`, for any participants, messages, delays and
sizes of the buffers. `RepairInv` adds to `RepairsNotReceived` that the items of both
buffers have their types, that without repair nothing is asked for, and that what was
sent is finite, with finite causal histories (`SentFinite`), so that the missing dependencies
of a message can be listed at all. The operators of `RepairBuffers` are the lemmas of
`DataProofs`: `AtPicks` and `AtFacts` what a selection contains, which rests on the ranks in a
finite order without ties (`Ranks`), `DropFacts` and `AddFacts` what is left and what
comes in, `ProcessRequestsFacts` and `MarkMissingFacts` the same for whole loops. Induction
over a sequence is not to be had; `LoopExists` and `LoopKeeps` replace it by the least round
of a loop that would go wrong, and the loops are recursive functions for that reason.

In the same module: `CausalTimestamps` and `TimestampsAreUnique` from the
invariant `TimestampInv`, which adds that every message ever sent has a timestamp
its sender's clock has reached (`ClockInv`). Neither property is inductive
without it: the next message of a sender could repeat a stamp or stay below that of
a dependency. `DeliveriesJustified` follows from `JustifiedInv`, which asks the
same of messages still in the outgoing buffer or being sent, since these join the
history later, and from the fact that what is available stays so although
sweeps move messages between buffer, history and announcements.

In the same module: `AcknowledgementsTrue` and `ChannelIsBroadcast`,
that `MessageChannel` implements `ReliableBroadcast`, under the assumption that
the filters have no false positives (a false positive acknowledges what nobody
has, as the threshold in the code admits). Their invariants `HeldInv` and `TruthInv`
say that a filter or causal history ever sent names only what its sender has, and
that a participant's own filter has all it holds and buffers; the filters only grow.

*`LightPushProofs`*: type correctness, `InProgressIsCounted`, `AttemptsAreBounded`,
`RetriesFollowFailure`, for any peers, other users, limits and finite set of
messages. The invariant `IInv` adds to the properties that a task under way has
an attempt left and, when tried, has been counted (`Accounts`), without which a
task put back could have a negative number of attempts, and that a message whose
send has not ended has no task. The count of tasks in progress is a cardinality:
`TryingFacts` says how it changes, `CountFacts` that each action changes both sides alike.
`LockedPeersAreAvailable` rests on `LockStep`: every step that locks a peer ends its rest,
and every one that lets it rest has unlocked it, whoever else is between two awaits.

*`ChannelProofs`*: of the sending half, `RetriesAreBounded`, `TasksTakenOnce` and
`QuietOnceStopped`, for any messages, limit of retries and number of calls. `IInv` joins the
three properties: a timer that fires for a message is one whose retries are still
counted, and after a stop there is none but of messages refused since (`NoneRetries`);
`Handles` says that the handle of the repair timer is live exactly when the one timer there
is runs. Copies of a task are counted by the lemmas `CopiesAppend` and `CopiesTail`.
Of the receiving half, `EachCountedOnce`, `MissingAreWanted` and `FirstSessionIsReported`, for
any messages and causal histories. None is inductive: a message taken from the queue that
SDS knows already would lose a request if it could be missing, which `KnownOrMissing`
excludes (what SDS holds is not missing, what was given up is not held); and `FirstSession`
says what a scheduled event is going to tell.

*`ConnectionManagerProofs`*: type correctness, `DialsStayBounded`, `LocksMatchDials`
and `PingsAreForConnected`, for any finite set of peers, any
rounds and limits. The bound on dials is not inductive alone: that a new batch may
start rests on the lock's being down only when no dial of the last batch runs, so
`DialerInv` joins `LocksAreHeld` to "at most one immediate dial" (`OneImmediate`)
and "a batch is finite and within its limit" (`BatchIsSmall`); `BatchBound` says that
the peers taken from the queue are no more than that limit.

*`ComponentsProofs`*, about `LocalHistory`: `HistoryIsSet` and `HistoryIsNewest`, for any
messages, any batches and any limit. Neither follows from the other, and together they are
inductive (`HistoryInv`) only because a push looks at nothing but the array: `PushFacts` says
that its sort, its deduplication and its cut leave the `LastMessages` of the `FirstOfEach` of
what was held and what came. That these are also the last of the first of all ever pushed is
`LastOfLast`: a message that was cut once has a full history of later ones above it, for good.
The sort is the place each item has among the others (`SortedFacts`, from `Ranks`).
About `RepairManager`: `PromisesAreKept`, for any entries, delays, response groups and
sizes of the buffers. It relates the items a call drops to those it was given; the
invariant is that the incoming buffer is no longer than its limit, and `Promised` what a
whole loop of requests may drop: nothing, or an item each time the buffer is full, after
which it stays full. About `HealthIndicator` and `StreamManager`: `HealthyNodeHasPeers`, for any connections and any
number of assessments at once, rests on `NewestIsCurrent`: of the peers that the newest assessment
under way has read, or that a value not overtaken tells of, each is still connected, or another
assessment is scheduled. `StreamsAreShared`, that a stream is
shared at most by its creator and one other request, needs `UsedIsLocked` (a
stream in use is locked, so that nobody finds it usable), `CreatesItsOwn` (a request
returns from a creation with the stream it created) and `OneIsCreator`.
About `PeerExchange`: `QueriesOfServerBounded`, for any servers and answers and any
finite set of queries. `QueriesBounded` alone would be broken by the next query; the
invariant `MarksCount` says that there is one more query than stops only while the
server is marked: beginning sets the mark, a stop takes it and counts, and what ends
takes a query with the mark, even where the mark is that of another query.
About `RemotePeers`: `WaitEndsByEvents`, for any nodes and protocols. About `Metadata`:
`ShardsAreStored`, for any answers, records and widths of the two formats. It says that a list
of shards decodes to what was encoded and a vector of bits to the same set, whatever their lengths
and whichever of the three writers came last, and, since the peer store is written before
the await, that a handshake is confirmed with nothing else.
About `WireExchange`: `WireKeepsAll`, for any values of the fields, of the 20 types of `MessageTypes`
and their readers. The invariant `WireInv` says that the wire still *carries* the object
(`Carries`: of each field of the schema, its entries in their order), whatever was inserted or
reversed on the way; the property follows, since whoever reads such a wire has all of the object
that it knows (`Decodes2` to `Decodes4`). That `EncodeFields` carries its object (`EncodeCarries`) is
an induction over the fields of a schema, by the least number of fields that would go wrong;
`DecodeKnown` reads one level, the last of the entries, or all of them, or the
default; and each `RoundTrip` rests on the one of a level less, embedded messages being
values there. The schemas of the generated code are shown to fit (`SchemaOfMessageType`) one by one:
names and numbers of their fields differ, and they are four deep at most.
About `MessageFlow`: `MessagesAreReceived`, `HashesAreEqual` and `SuccessIsAcceptance`, for any SDS
messages, encoders, decoders, keys and numbers of messages. `FlowInv` joins them to what
every message of the network is: the encoding of an object (`IsProto`) that is `Carried` of the
message handed to `send`: it has the payload, or the envelope signed by the encoder's signer in a
ciphertext of its scheme and key, whatever the time and randomness. This has to speak of the wire: light push, filter and store each decode
and encode the message again inside of a type of their own (`ServedByV2`, `ServedByV3`,
`PushedByFilter`, `AnsweredByStore`), and it comes out as it went in only since the copies of the
schema agree (`CopiesAreEqual`) and `toProtoObj` leaves out no field that has a default, for a decoder to add
(`ProtoIsComplete`). `DecoderReads` is the argument for each pair of an encoder and a decoder,
`SdsUnwrapped` that for the kinds of SDS messages, and `RefusalsOfV2` and
`RefusalsOfV3` go through what a node may answer to what it refused.

*`QueryOnConnectProofs`*: `MissedOnlyLeftOut`, for any store nodes and messages, limits of
ranges and pages and numbers of connections. `NoneMissed` speaks of queries that have ended;
the invariant `QueriesInv` speaks of those that run: of what came before its end, a
query has dispatched a message, leaves out its time, or has it behind its cursor or in a
range still to come (`Asks`, `Pending`). Times of the archive do not decrease (`ArchiveInv`),
so what arrives while a query runs is none of its matter; that the ranges
follow one another (`InOrder`) is needed where a query ends early, when all that is left of
them comes after its last message. `PageIsFirst` says what a page has, `RangesInOrder` what
`buildQueryParams` gives for any length of a part. That a set of numbers has a least one,
for which the library's theorem on well-founded relations serves, stands in for induction.

*`FilterProofs`*: `CallbacksHearOnce`, for any service nodes, decoders, content topics and
Subscriptions, and any number of calls, overlapping, failing or rejected. The invariant
`HeardIsReceived` joins the callbacks to the memory of messages: what a callback of a
running Subscription has heard is remembered, and a stop takes both.

Assumed of the constants, as the code justifies: bounds, limits and the delays of repairs
are numbers (`OptionAssumption`), pages and
parts of a range are not empty (`LimitsAssumption`, `RangeAssumption`), widths of the shard
codec are positive (`ShardsAssumption`, `BytesAssumption`), and a value that is not set is no set
(`UnsetIsNoSet`); delays of one participant are numbers (`DelaysAssumption`), and messages of one
timestamp are ordered by their ids (`MessagesAssumption`). Of messages on their way: encoding adds to the size of a payload
(`EncodedSizeAssumption`); a field that is
unknown to a schema has a number that the schema has not (`UnknownAssumption`), encoders of version 0
have no key to sign with (`SchemesAssumption`), success is a status of its own and not 0, a version 1
is not a version 0 (`ValuesAssumption`), undefined is no value (`UndefinedAssumption`), and a
message that a channel pushes has a content that is not empty or is a sync message
(`SdsMessagesAssumption`: `pushOutgoingMessage` refuses an empty payload,
`message_channel.ts:214`).

Every safety invariant that a run checks has a theorem. Only model-checked: liveness and everything
under fairness (`WalksEnd` too), which the prover does not reach. No module that a theorem is about
declares a `RECURSIVE` operator.

## 5. Assumptions and what is left out

- One JavaScript thread: a step runs from one `await` to the next.
- Callers await `stop()` before `start()`, and listeners of events do not call
  back into the channel that raised them. In the run of the filter the application
  awaits its calls one by one (`Overlapping = FALSE`; section 6 says what happens otherwise).
- Ids are hashes of payloads without collisions; which participants may publish a
  payload is a constant (`Authors`), and one may publish it again.
- The local history of `MessageChannel` is unbounded: with that of the code at its limit,
  a dependency that was evicted counts as missing again, and nothing is said of it.
  `LocalHistory` has the eviction, on its own.
- Hashes and ciphers are symbolic, bytes, varints and size limits of fields left out.
- Service nodes and libp2p are outside the repository; what the modules let them do
  is what the code here is written for: refuse, stay silent, forget, restart, go.
- Persistence: the repository's histories are in memory, so there is no restart
  with old state to model.

Not modelled: the **bloom filter**'s bits and hashes, **RLN**, **ENR**, ciphers and the
signatures of DNS trees are arithmetic and cryptography, where a model would repeat the
code; **node creation**, shells and React hooks are wiring; the
**relay**'s observers are a map, and gossipsub is a library. Of modelled components, `PROJECT.json`
names the operations that are left out.

## 6. Where the code does not do what it says

Shown by runs:

| Run | Code | Says |
|---|---|---|
| `sds_cyclic_dependency` | a payload sent again after its acknowledgement is a new message with its own id in its causal history (`message_channel.ts:658`) | the comment there: it must not be a cyclic dependency |
| `light_push_success` | a retry that succeeded is put back (`light_push/retry_manager.ts:143`) | `retry_manager.spec.ts:196`, no retry after a success |
| `history_ranges` | a range longer than the time limit is split into whole parts, and the rest is in none of them (`sdk/src/store/store.ts:329`) | `query_on_connect.ts:20`, "30 days (queries are split)"; `store.spec.ts:175`, though the assertions of that test (241-244) have the rest left out |

Shown by a formula that no run checks; add it to the cfg named:

| Formula | Code | Says |
|---|---|---|
| `AcknowledgedNotRetried`, as INVARIANT of `ChannelHalves.cfg` | a retry timer that runs the acknowledgement of its own message sets itself again (`sdk/src/reliable_channel/retry_manager.ts:59`) | `reliable_channel.ts:769`, retries stop |
| `HintIsHash`, as INVARIANT of `Components.cfg` | the retrieval hint is the hash of an encoding made for it, and light push encodes anew, with another timestamp and cipher (`reliable_channel.ts:396`) | the comment at 384: used later to get the message hash |
| `ResolvedMeansServed`, as INVARIANT of `Components.cfg` | a look through connections that finds no peer of a protocol ends without an error, and so does the wait (`wait_for_remote_peer.ts:177-227`) | its doc at 30: resolves if all desired protocols are met |
| `BootstrapTagKept`, as PROPERTY of `Components.cfg` | the peer cache asks whether the peer store has a peer and saves it after, over what a DNS walk has saved meanwhile (`peer_cache.ts:105-116`) | |
| `ShardInfoKept`, as PROPERTY of `Components.cfg` | two queries that find one peer both read that it has no shardInfo, and the second overwrites that of the first (`peer_exchange_discovery.ts:210-217`) | the condition at 212: a shardInfo that is there is kept |
| `EventuallyServed` with `Silent = {p1}` in `Filter.cfg` | a service node that fails its pings stays locked in the peer manager, so that looking for another gives the same one (`filter/subscription.ts`) | `interfaces/src/filter.ts:97`, after so many failed pings a new one is subscribed to |

Met while modelling, and modelled as the code has them (paths in `sds/src/message_channel`):

- A dependency counts as available once it is buffered, so a message may be
  delivered before its dependency (`message_channel.ts:752`, doc at 254-255).
- Possible acknowledgements count receptions, not messages: one message
  received often reaches the threshold (853, comment at 850).
- A sender's own message may enter its repair buffer (706, `repair/buffers.ts:25`).
- A receiver of a message that names itself (section 6, `sds_cyclic_dependency`) drops it
  from its repair buffer, finds it missing, and asks for it again: what it has just
  buffered (565, 605). TLC finds it with three participants; `RepairsNotReceived` excepts it.
- A batch longer than the local history's limit is cut at once (`mem_local_history.ts:49-53`);
  the doc at 16-18 says that dropping happens at the next push. `NewestEverPushed` is what
  the code does.
- A full repair buffer drops its last entry even when the newcomer is due later still
  (`repair/buffers.ts:56`; the comment at 55 has what is due soonest kept).
- `hasRequestsReady` looks at requests already made too (`repair/repair.ts:312`, doc at 310).

and in `sdk/src/reliable_channel`:

- `stopRepairSweepLoop` resets the handle of the other loop (`reliable_channel.ts:643`),
  so a second `start` forgets the sweep timer it just set, the next `stop` leaves it
  running, and two timers sweep from then on (`timers.sweeps`; doc at 102).
- `message-sent` is dispatched when every failure is recoverable
  (`reliable_channel.ts:422`, `events.ts:12`); a message reported as failed for good
  is still retried (409, 407-408); a message refused because the channel is
  not started is still sent by its retry (355, `events.ts:34`).
- A listener that stops the channel from within an event is undone by the
  handler, which sets its timer afterwards (756, 603).
- A message retrieved first and named missing later stays wanted (490, 489);
  `message-received` is dispatched per copy (512, `events.ts:39`).
- Store queries may overlap, and the promise `stop()` awaits is that of one of them
  (`missing_message_retriever.ts:116`, `reliable_channel.ts:445`).
- The status is cleaned for good by `stop()` and sends nothing in a second session
  (`sync_status.ts:84`, 269 of `reliable_channel.ts`).

and in `sdk/src/light_push` and `sdk/src/peer_manager`:

- `MAX_CONCURRENT_TASKS` bounds nothing when tasks are queued at once: the limit
  is looked at before any of them counts (`retry_manager.ts:75`, 119).
- Overlapping `getPeers` calls may each lock `numPeersToUse` peers, or lock again a
  peer that another call renewed since it was checked (`peer_manager.ts:141-166`).
- A peer that disconnects stays locked, and its next connection carries no
  locked tag (`peer_manager.ts:231`, 146-156).

and in `sdk/src/filter`:

- An answer to `subscribe` or to a ping that cannot be decoded throws, since it is decoded
  outside of the `try` (`core/src/lib/filter/filter.ts:118`, 287), and so does a failing
  `unsubscribeAll` (182-220). `add` then rejects and `filter.ts:97` is not reached: a
  `Subscription` runs, with its timers and listeners, that the filter does not know.
  `unsubscribeAll` does not stop it, although `interfaces/src/filter.ts:72` says all active
  subscriptions. The same comes of two overlapping `subscribe` calls (83-97). Later it may
  take the topics of a service node that the known `Subscription` uses, again and again, which
  TLC found and `Wanted` excepts. In a round of pings the rejection leaves the
  peers that failed unreplaced.
- A connection that is ignored because the peer store had other shards of the peer, or
  failed (`subscription.ts:414-422`), is not looked at again.
- A failed request for a content topic is not repeated by itself: the topics to
  subscribe are emptied whatever was answered (`subscription.ts:522`), and when no peer
  is found as well; only pings and connections bring it back. With two content topics one of
  them may stay unserved.
- The interval repeats `attemptUnsubscribe` with topics that may be subscribed again; an
  `unsubscribeAll` still under way may take the next subscription off its service
  node, until the pings notice.
- An attempt suspended while `stop` runs subscribes all the same; a peer's missed pings
  survive its connection; requests have no timeout.
- The handler of incoming messages calls the callback with what could not be decoded, too.

and in `sdk/src/query_on_connect` and `sdk/src/store`:

- A query without a stream, or aborted, ends without an error and counts as successful
  (`query_on_connect.ts:176`); what is stored while a query runs is asked for by none;
  `stopIfTrue` leaves the newer pages out.
- Overlapping queries overwrite `activeQueryPromise` (143), so `stop` awaits one of them;
  a peer that connects during `stop` starts a query nothing can abort; going offline
  during a query is overwritten by its end.
- `createCursor` (`store.ts:174`) hashes the decoded message, which is not
  the one stored when it was encrypted.

and elsewhere:

- A stream just created may be handed to a second request before the first has locked
  it (`core/src/lib/stream_manager/stream_manager.ts:46`); only the first stream of a
  protocol is looked at; a pooled stream that nobody takes stays open.
- The health counts connections, not peers: two connections to one peer that speaks both
  protocols make a node `SufficientlyHealthy`, and filter and light push may be different
  peers (`health_indicator.ts:103`, 111-130; `interfaces/src/health_status.ts:8`, 13: "1 peer",
  "2 peers supporting both"). A failed lookup counts as no peer.
- Assessments overlap at their lookups, and the older may be written last: the health
  may then tell of peers that have gone, until the next event (102-122).
- One filter connection with two of light push matches no case of the health, which keeps
  its last value (`health_indicator.ts`, `HealthOf`).
- What a peer answered to the metadata service and the shards of its record are one entry of
  the peer store. A discovery looks for it and writes after an await, over an
  answer that came meanwhile; DNS replaces the whole peer, shards too
  (`discovery/src/dns/dns_discovery.ts:90-113`). Of two answers saved at once the
  map may keep one and the store the other (`core/src/lib/metadata/metadata.ts:171`, 177).
- `waitForConnectedPeer` ignores a handshake that answered with an error; a timeout leaves
  its listeners; confirmed handshakes are never forgotten.
- An answer with 64 shards or more, one of them 1024 or above, throws in
  `relay_shard_codec.ts`; a repeated embedded message replaces the one before.
- The version check of `version_0.ts` reads `proto.version ?? (0 !== Version)`; it works by accident.

and in `core/src/lib/connection_manager`:

- The rounds of the limiter take the first peers of their list, those that cool
  down after a failure included, and dial no others: peers that cannot be reached,
  when there are `maxConnections` of them at the front, keep the node without
  connections although a later peer answers (`connection_limiter.ts:155`,
  `interfaces/src/connection_manager.ts:45-51`). `NodeReconnects` says so by
  its condition `Preferred`; without it, and with `Priority <- AliveLast`, TLC
  finds the node that stays alone after one failed dial.
- An immediate dial and a batch of `maxDialingPeers` may run together, one more than
  "Max number of peers to dial at once" (`dialer.ts:77-81`, 91-112;
  `interfaces/src/connection_manager.ts:57-62`). `DialsAreBounded` states the bound of the code.
- A peer is dialed from the queue even if it is connected or has failed since
  it was queued (`dialer.ts:100`, `interfaces/src/connection_manager.ts:65`); the
  queue outlives `stop` (61).
- A connection that is open at `start` gets no ping timer and is not reported;
  one that closes while stopped leaves `isNetworkConnected` as it was
  (`network_monitor.ts:91-103`, 70).
- The last disconnection dials the known peers twice (`connection_limiter.ts:113`, 129),
  whatever `maxConnections` is (228); `slice` keeps `maxConnections` unlocked
  connections beside the locked ones (170); bootstrap peers are closed although
  locked (198); a peer with two tags is listed twice (283), which the set
  `Candidates` does not show.

and in `discovery/src`:

- A branch that was visited is never descended again in a walk, so that of a tree whose
  root names a branch of branches each of these gives one leaf at most (`dns/dns.ts:151-158`).
- A node found twice is a search but no error (`dns/fetch_nodes.ts:33`, doc at 8-9), and
  roots that name each other are descended without end (`dns/dns.ts:69`), which
  `WalksAssumption` excludes.
- A walk that was stopped and whose discovery was started again goes on beside the new
  one (`dns/dns_discovery.ts:72`).
- `stop` does nothing while the peer cache is being started, which then is started after
  it (`peer-cache/peer_cache.ts:64`, 60); `triggerBootstrap` stops and starts it at any time.
- A query of peer exchange goes on after `stop`; when it ends after the next `start`, it
  clears the mark of the query begun since, and its record keeps the interval from asking
  (`peer-exchange/peer_exchange_discovery.ts:102`, 175-180).

## 7. Plan

Done: SDS, the reliable channel, light push over the peer manager, the connection
manager, filter, query on connect with store queries, streams, health, waiting for
peers, metadata, messages on their way through the encodings, and discovery. Next:

1. `Filter` over `PeerManager` with its awaits, and with two content topics.
2. The relay pings of the keep-alive manager.

Where two components have one question, one run serves both: components that
share peers or connections are checked composed, and the runs that show a
deviation make room for them once the deviation is described here.
