# Verification of signer-metrics-api

TLA+ models of the service that ingests the Stacks node's signer events into
Postgres and serves signer metrics from there, checked with TLC on small
instances and, for the properties that matter most, proved with TLAPS for every
instance. Paths below are relative to the repository's root; line numbers are
those of the modelled commit. `PROJECT.json` lists the runs, the theorems, and
the source lines of every definition.

## 1. The system

| Component | Source | State | Operations |
|---|---|---|---|
| EventStreamHandler | `src/event-stream/event-stream.ts` | position in the Redis stream (in the client), the message being handled, timers for listeners | `handleMsg`, `handleStackerDbMsg`, `handleNakamotoBlockMsg`, `start`, `stop` |
| PgWriteStore | `src/pg/ingestion/pg-write-store.ts` | the tables `chain_tip`, `blocks`, `block_signer_signatures`, `block_proposals`, `block_responses`, `block_pushes`, `reward_set_signers` | `applyStackerDbChunk`, `applyBlock`, `applyRewardSet`, `insertRewardSetSigners`, `updateLastIngestedRedisMsgId`, ... |
| StackerSetUpdator | `src/stacks-core-rpc/stacker-set-updater.ts` | `queuedCycleNumbers`, a PQueue of two slots, retry timers, an abort signal | `add`, `fetchStackerSet`, `stop` |
| PoX info updater | `src/stacks-core-rpc/pox-info-updater.ts` | `isDbMissingPoxInfo`, the await it is at, an abort signal | `runPoxInfoBackgroundJob`, `close` |
| RPC client | `src/stacks-core-rpc/stacks-core-rpc-client.ts` | none | `fetchRpcPoxInfo`, `fetchStackerSet` |
| PgStore | `src/pg/pg-store.ts` | none of its own | queries for proposals, blocks, signers and cycles; `updatePoxInfo` |
| ThreadedParser | `src/event-stream/threaded-parser*.ts` | open requests by message id, the worker's queue | `parseNakamotoBlock`, `parseStackerDbChunk`, `close` |
| Message parsing | `src/event-stream/msg-parsing.ts`, `buffer-*.ts` | none | decoding, hashing, key recovery |
| NotificationPgStore | `src/pg/notifications/pg-notifications.ts` | the LISTEN connection | NOTIFY in batches of 25, LISTEN |
| Broadcasts | `src/api/routes/socket-io.ts` | connected sockets | a query and an emit for each block hash of an event |
| HTTP API, metrics | `src/api`, `src/prom-metrics.ts` | none | reads |
| Startup, shutdown | `src/index.ts` | order of services | `initBackgroundServices`, `initApiService`, shutdown handlers |

How they interact. The Redis client (`StacksEventStream`) delivers one message
at a time and awaits the callback. `handleMsg` parses in a worker thread and
writes through PgWriteStore, block messages and StackerDB messages each in a
transaction, a block's *reward set* first in three statements outside any
transaction (`event-stream.ts:67`). After the commit a timer emits
`signerMessages`, which the notification store and the socket.io routes
broadcast. Within a block's transaction `insertBlock` may set a timer that emits
`missingStackerSet`, on which StackerSetUpdator fetches the cycle's signers and
writes them in a transaction of its own. The PoX info updater writes the
parameters from which `insertBlock` computes a block's cycle. When the process
starts again the stream is read from `chain_tip.last_redis_msg_id`.

What is hard in it:

* the interleaving of three writers (handler, stacker set updater, PoX info
  updater) at every `await`;
* at-least-once delivery: a callback that rejects, or a restart, makes the
  client deliver messages again whose effects are in the database in part;
  ignored and skipped messages do not move the restart point at all;
* partial failure: the statements outside a transaction; a COMMIT that took
  effect while its answer is lost;
* ordering: responses before their proposal or their signer set, or after their
  block; forks; blocks sent twice;
* no unique constraint on `blocks` and `block_signer_signatures`;
* retries, timers and abort signals of the updaters at shutdown.

What makes the components correct, in short: tables, counters and events are as
if every message had been handled once (`BlocksIngestedOnce`, `NoMessageLost`,
`CountersBacked`, `AnnouncedOnceAndDurable`); what clients see of a proposal
does not go back (`StatusNeverReverts`); a half applied signer set is repaired
(`HalfAppliedSetsAreReplayed`, `HalfAppliedSetsHeal`); ingestion catches up
(`StreamDrains`); the updaters serve every request once at a time and end when
told to; the parser answers each call with the parse of its own message
(`ImplementsParser`), and parses no block whose header was cut short
(`CompleteBlocks`); who stays connected is shown every row that was announced
(`AnnouncedRowsAreShown`); and the endpoints and gauges, which read the same
tables by different queries, tell one story (section 3). `PROJECT.json` lists the hazards
with the property that covers each, or why none does.

## 2. The modules

| Module | Role |
|---|---|
| `Ingestion` | EventStreamHandler and PgWriteStore, with the updaters' commits, restarts and failures |
| `IngestionProperties` | its type invariant, safety, action and liveness properties |
| `MCIngestion` | instances for TLC: four block hashes, two signers, the message sets of each run |
| `IngestionProofs`, `SignerSetsProofs` | theorems about it |
| `SignerMessages`, `MCSignerMessages` | decoding a StackerDB chunk and the header bytes that are hashed; encodings of every kind of message |
| `SignerMessagesProofs` | theorems about it |
| `SignerMessageListeners`, `MCSignerMessageListeners` | the socket.io route and NotificationPgStore, composed with `Ingestion`; instance |
| `SignerMessageListenersProofs` | theorems about it; those of `IngestionProofs` carry over |
| `SignerQueries`, `MCSignerQueries` | the API's and the gauges' queries over the databases `Ingestion` reaches; instances |
| `SignerQueriesProofs` | theorems about them, on top of those of `SignerSetsProofs` |
| `ParserRequests` | abstract specification: what the parser promises the handler |
| `ThreadedParser`, `MCThreadedParser` | both threads, their ports, errors and termination; instance |
| `ThreadedParserProofs` | theorems about it, with the refinement of `ParserRequests` |
| `StackerSetRequests` | abstract specification: what StackerSetUpdator promises |
| `StackerSetUpdator`, `MCStackerSetUpdator` | the queue, its jobs, retries and `stop()`; instance |
| `StackerSetUpdatorProofs` | theorems about it, with the refinement of `StackerSetRequests` |
| `PoxInfoUpdater`, `MCPoxInfoUpdater` | the PoX info loop and `close()`; instance |
| `PoxInfoUpdaterProofs` | theorems about it |

### Ingestion

*State.* `stream` is the Redis log, message *i* with id *i*; `db` is the
committed database, a record with one field for each table (rows by primary
key, the two tables without one as sequences); `tx` is what the handler's open
transaction sees, equal to `db` when none is open; `pc`, `pos`, `next`,
`applied` are the step of `handleMsg`, the message and chunk it is at and
`appliedSignerMessageResults`; `timers` the payloads queued with `setTimeout`;
`wanted` the cycles asked for with `missingStackerSet`. `heard` is a history
variable: everything listeners were told.

*Actions.* `HandleMsg` is the switch on the path. `RewardSetDelete`,
`RewardSetInsert` and `RewardSetRank` are the three statements of
`insertRewardSetSigners` on `this.db.sql`, each committed on its own (`ON
CONFLICT DO NOTHING` leaves what another writer inserted in between).
`IngestBlock`, `SkipBlock` and `BlockThrows` are the ways out of
`handleNakamotoBlockMsg`. `ApplyChunk` is a round of the loop of
`handleStackerDbMsg`, `CommitChunks` its end with the checkpoint, the COMMIT and
the timer. `MessageProcessed` is the resolved callback. `HandlerFails` is any
other rejection: nothing of an open transaction stays, the message is delivered
again, and a `missingStackerSet` timer that `insertBlock` set survives the
rollback. `Crash` loses everything but `db` and reads on after
`last_redis_msg_id`. `StackerSetFetched`, `StackerSetPrePox4` and
`UpdatePoxInfo` are the updaters' commits; that the first two are all
StackerSetUpdator does to its requests is what the refinement below shows.

*Abstractions*, each with its reason:

* A block transaction is one step: it reads and writes rows no other writer
  holds long, and Postgres makes its effect visible at once. It runs under READ
  COMMITTED; an updater's commit between two of its statements has the effect of
  one just before or just after, as `insertBlock` is a single statement and the
  reward set replaces whatever is there. StackerDB transactions, which may be
  long, are stepped through by chunk and do see commits of the others.
* An updater's transaction is one step for the same reason. A DELETE waits for
  rows the open transaction updated (`IsLocked`).
* Ranks, percentages, weights and response times are left out but for the flag
  `ranked`: whether the statement that computes ranks has seen the row.
* Blocks carry at least one signature, so that `block_signer_signatures` has a
  batch for each block; heights and burn heights are those of a chain that starts
  at the PoX parameters' first burn height (`ConstantsAssumption`).
* The client's redelivery after a rejected callback is a library's behaviour,
  modelled from how `event-stream.ts` relies on it.
* A message the process has not asked for yet cannot influence it. So `Publish`
  adds a message only when the client is about to ask for one, which leaves out
  no behaviour of the process and many states.
* Parsing answers. `ThreadedParser` has the cases in which it does not: a body the
  worker cannot parse, or a worker that has ended, leaves the handler waiting,
  which in this model is a handler that takes no step.
* `delete*` and `rollBack*` of PgWriteStore have no caller in the service.

`lost` counts the writes whose *answer* is lost, `failures` those that fail and
leave no effect, `crashes` the restarts; the constants `Max...` bound them.

### StackerSetUpdator and StackerSetRequests

The state is `queuedCycleNumbers` (`queued`), the PQueue (`queue`, and `slots`
with the await each job is at), `timers` with the cycles in the `setTimeout` of
the catch block, and `phase` for the abort signal and `stop()`. An action is
what runs between two awaits: the fetch's outcome, the COMMIT, its
acknowledgement, the catch block, the end of the sleep (which holds the slot),
the timer. `StackerSetRequests` is the promise: a requested cycle is wanted
until its set has been stored or the node has none for it, only wanted cycles
are written, and none after `stop()` returned. The refinement maps `wanted` to
`queued` and keeps `stored` and `phase`.

### PoxInfoUpdater

The loop with the await it is suspended at, the cached `isDbMissingPoxInfo`, the
answer it holds and `close()`; every query and fetch may fail, an update before
or after it took effect, and the node's parameters may change. `isDbMissingPoxInfo`
is `null` (`Unknown`) until a query of the table has succeeded, and the catch block,
which only asks whether it is truthy, takes `null` for a database that has the
parameters. So it takes its long wait on an empty table too, as long as it could not
read the table. `SlowOnlyUnread` says that this is the only way to it, and that it never
happens once the job has read that the parameters are missing.

### SignerQueries

Each query of `pg-store.ts` is one statement and reads one committed database, so
it is an operator of a database `d`: `RecentProposals`, `RecentBlocks`, `Blocks`,
`SignersForCycle`, `SignerMetrics`, `AcceptedProposals`, `PendingProposals`. What
the routes make of the rows is in `HasSignerData`, `SignerData`, `IsValidRange`
and `AsInteger`. Outer joins keep their rows of NULLs (`JoinedSigners`), the join
with `block_signer_signatures` is by height as in the code (`SignersMined`), and
an ORDER BY with ties is the set of the orders Postgres may choose
(`NewestFirst`, `HighestFirst`). The stream's timestamp of a message stands as its id, and
the constant `MoreThanAnHour` says which messages lie more than an hour apart, as the
gauges leave out responses that were stored that long before the oldest of the recent
proposals (`IsTooOld`, `pg-store.ts:885`). The
module extends the ingestion's, so that its properties are invariants of the
ingestion: the databases between two commits are looked at too. The two migrations
that gave an older database its counters are functions of it as well
(`AddStatsColumns`, `BackfillStats`). Weights and
amounts go the way of the counts and are left out, like averages of times.

### ThreadedParser and ParserRequests

The state is the calls made and what each has returned, the map of waiters
(`msgRequests`), a queue for each port, and the worker's state. An action is what
one thread does without interruption: the part of a call before its `await`, the
worker's listener (a parse that throws is only logged), the main thread's
listener, `close()`, and the end of the worker, which takes the requests it has
not read with it. The handler awaits one call at a time, the class admits any
number, and so does the model. `ParserRequests` is the promise: a call returns at
most once, with the parse of its own body, and never after a later call has.

### SignerMessages

A format is the sequence of reads that its parse function makes (`BlockProposal`,
`AcceptedResponse`, `MockBlock`, ...); `todo` is what is still to be read of the
current slot, `buffer` the rest of its bytes, `fields` what was read. An action
is one reader of `buffer-cursor.ts`: fixed-width readers and enums throw on a
short buffer or an unknown value (`Unreadable`), `readBytes` and the string
readers take what is left, and `missing` records by how much a field was cut
short, which the code does not notice. `ReadArray` and `NextItem` are
`readArray` with its count and items, `NoMetadata` the early return of
`parseSignerMessageMetadata`. `ParseSlot`, `SlotParsed`, `SlotThrows` and
`ChunkParsed` are the `flatMap` over the slots. `HashedHeader` is what
`getNakamotoBlockHash` writes of the header it decoded, with `BufferWriter`'s bit
vector. Bytes are bytes and lengths are the code's: nothing is scaled down but
the number of array items. How many bytes a transaction takes is the external
`deserializeTransaction`'s decision, modelled by a length byte. The library is not part
of the repository and may read past the end of its bytes unnoticed, so that of a
transaction whose bytes are not all there the model allows both outcomes: it is
taken with what is left (`ParseStacksTransaction`), or it throws (`Unreadable`). Hashing and key
recovery are not computed (a slot's key can be recovered, or not: `signed`).

What miners and signers send is the constant `Encoded`: for each message its bytes,
its fields, the header its signers sign, and whether a later version may append
fields to it (`open`). An encoding also says where its fields end: a list of
`cursors`, each with the reads to come, the offset in the bytes and the number of
fields before it. `EncodedAssumption` states what a sender does, without a parser: each
cursor leads to the next by one field, written as its kind is written (`Encodes`: a
number as its bytes, a string behind its length, a bit vector as length, number of
bytes and bits packed eight to the byte), or by an array's next item; the last is
at the end of the bytes. It takes the *order* of the fields from the code's formats
(`MessageFormat`, `ReadsAfter`): that sender and service agree on those is assumed,
not shown, since the senders are in another repository. `MCSignerMessages` writes its
encodings on its own, kind by kind, and TLC evaluates the assumption on them.

### SignerMessageListeners

`EmitToListeners` is the timer of `handleStackerDbMsg`, on which the emitter calls
both listeners in one go. `SignerMessageListener` starts a query for each block of
the message, unless nobody is connected; a query (`queries`) reads one committed
database (`GetBlockProposal`), then emits to whoever is connected by then
(`BroadcastBlockProposal`), or fails and is only logged. A broadcast stands for
the rows of the block that its query saw; how the entry is computed from them is
`SignerQueries`' matter. `Connect`, `Disconnect`, `StartListening` and `PreClose`
are the clients and the server's hooks. `Batches` cuts a message for NOTIFY,
`OnNotification` and `NotifyFails` are a batch's fates. `CrashListeners` is the
ingestion's `Crash` with what it does to connections and queries. The histories
`told` and `seen` hold, for a connected client, the rows announced and the rows
it was shown. All other steps are those of `Ingestion` with the listeners
unchanged.

## 3. Properties of the ingestion, the queries, the decoding and the listeners

* `TypeOK`: types, and the handler only at steps that fit the message.
* `BlocksIngestedOnce`: heights in `blocks` and `block_signer_signatures` are
  strictly ascending and both tables agree, whatever is delivered again. The
  guard on the chain tip is the only thing that keeps it so.
* `NoMessageLost`: once the client is past a message, the rows its chunks ask
  for are there, and so is a block that extended the chain.
* `AnnouncedOnceAndDurable`: listeners hear of a row at most once and only when
  it is committed.
* `CountersBacked`: a signer's counters never exceed the responses and blocks
  that account for them.
* `StatusNeverReverts`: the status expression of `pg-store.ts:144` never takes
  back "accepted", and a rejected proposal is only revived by its own push.
* `HalfAppliedSetsAreReplayed`: a set left empty or unranked by a crash or an
  error is announced by a message that is still ahead.
* `StreamDrains`, `HalfAppliedSetsHeal`: liveness.
* `EndpointsAgree`: a block with a proposal is, for `/block_proposals`, an accepted
  proposal with the same signers; its block only adds mined signatures, and both
  endpoints split the set into states without remainder.
* `LatestIsMostRecent`: `/blocks/latest`, looked up by the chain tip, is the first
  entry of `/blocks`, and the status reports its height, whatever forks, crashes and
  repetitions came before; or a signed block that is no Nakamoto block, which moves the
  tip without being stored (`pg-write-store.ts:346`), is at the tip, and then there is no
  latest block and all of the list is below the status.
* `RangesAdd`: consecutive time ranges of `/cycles/:n/signers` neither overlap nor
  leave a proposal out, and the counters collected on the way in never exceed the
  recount over all time.
* `BackfillRecounts`: the counters the migration computes are those of the API's
  recount over all time, give every proposal of the cycle one place, and take no
  response from a signer that the ingestion credited it with.
* `MetricsMatchEntries`: each range of the gauges has every recent proposal once. An
  answer that a proposal's entry lists is lost to them (and counted as missing) only if
  it was stored before its proposal, which the cutoff of one hour may leave out; and
  within the newest proposal's cycle they count no answer that no entry lists.
* `PendingIsConsistent`: what the gauges take for pending, by the heights of blocks
  and pushes, has the status "pending", by chain tip and hash, or "rejected" with a
  signed block that is no Nakamoto block at the tip. An empty database
  has chain tip 1, so it is said of heights above that.
* `CompleteBlocks`: a block proposal is parsed only with every field complete, and a
  push with all but, if the library lets it pass, the end of its last transaction; so
  no block is stored under the hash of a header that was cut short, although
  `readBytes` never fails.
* `SlotsRoundTrip`: what miners and signers encode is parsed to what they sent,
  slot by slot; nothing else makes a chunk throw.
* `HashCoversHeader`: the bytes that are hashed are those of the header without
  its signer signatures, whatever the length of the bit vector; for any bytes at all,
  each fixed field is what the slot holds at its place (`FixedFieldsAsSent`).
* `BroadcastsFollowCommits`: a query that an event started sees what the event
  announced.
* `AnnouncedRowsAreShown`: a row announced while a client is connected has reached
  it or will, however the queries of a block overlap and even if the row came
  before the proposal; only a failed query, or a proposal never announced, keeps
  it back.
* `FailedNotifiesLoseOneBatch`: a NOTIFY that fails costs its own batch and no
  more, and no row is relayed twice.

## 4. The runs

| Run | Instance | Result |
|---|---|---|
| `ingest` | 7 kinds of message, 4 messages, a crash, a failure, a lost answer | holds (1.1 million states) |
| `replay` | 6 kinds, 3 messages, two crashes, a failure, no lost answer; fairness | holds (54 thousand) |
| `stacker_sets` | 4 cycles (one pre-PoX-4, two that never answer), 2 slots, 5 requests, a failure; fairness | holds (27 thousand) |
| `pox_info` | 3 parameter sets, 2 changes, 3 failures; fairness | holds (4.8 thousand) |
| `queries` | 7 kinds of message, 3 messages, the third an hour after the others, a crash | holds (32 thousand) |
| `parser` | 3 bodies (one that cannot be parsed), 4 calls; fairness | holds (3.4 thousand) |
| `messages` | 13 encodings, whole, with a byte added, cut at every byte; unknown codes; pairs of slots | holds (25 thousand) |
| `listeners` | 2 messages on 2 blocks, 2 clients, a crash, a failed query, a failed NOTIFY, batches of 2 | holds (538 thousand) |
| `overtaken`, `repeated`, `unranked`, `unknown_set` | the smallest instance of the situation | violated: section 6 |

*Why the bounds are enough.* The message set of `ingest` has every way through
`handleMsg`: a fork at one height, an announcement with and without its cycle, a
pre-Nakamoto block, duplicate and contradicting responses, a push, an ignored
chunk. Four messages let a proposal, its response, its block and a duplicate
follow each other in every order, with a failure of each kind in between.
`replay` has two announcements of the same cycle, so that a second
crash may hit the replay of the first; the liveness properties are checked
there because its state graph is small. No fault matters more than twice: a
restart or redelivery forgets all but `db`, and a second one in a row begins
from what the first began from. The proofs drop the bounds for the properties
they cover. In `stacker_sets` two slots (the code's constant) and two cycles
that never answer fill the queue; a fifth request can find a cycle in every
place the first four left it. `queries` brings two proposals for one height,
proposals of two cycles in one message (their order is Postgres's choice), a pushed
sibling, a signer that signs without accepting and one that accepts without being
mined, a response that comes with its proposal and one that comes an hour before it,
a proposal an hour after one that was answered, and a block that moves the tip
without being stored; a property of a
query needs no more rows than the two or three it relates, and three messages
bring them. In `parser` four calls are enough for a body that cannot be parsed
between two that can, with a reply and a request under way at once. In `messages`
every kind of message and both kinds of response occur with their metadata and
without, and bit vectors of 0, 1, 8 and 9 bits; a chunk's slots share no
state but the order, so pairs suffice. In `listeners` batches of two stand for
batches of 25: a message of three rows makes a full and a partial batch. Two clients are
interchangeable (the instance is symmetric in them; it has no liveness
property), and two messages let the queries of one block overlap. The service
does not enable NOTIFY; the instance does.

*Fairness.* The event loop runs the handler's continuations and due timers
(`WF` on the handler's steps and on the timers), queries, fetches and sleeps
end, and the node goes on publishing within the bound. Crashes and failures are
finitely many by their bounds; nothing is assumed of the updaters in `replay`.
In `parser` both threads run their event loops (`WF` on the two listeners), and
`ParsableCallsReturn` excepts a worker that has been told to end or has failed.
One situation is left out of it on purpose: a block with a reward set but
without its cycle makes `applyBlock` throw at *every* delivery
(`pg-write-store.ts:320`), and then the stream never drains. It is in `ingest`,
where what it leaves behind is checked.

*Deadlock* is checked for the ingestion (`AwaitMessages` is the client's
blocking read). The updaters and the parser may stop: `stop()` and `close()` end
them, and a call for a body that cannot be parsed waits for ever. A call of
`parseStackerDbChunk` ends.

## 5. What is proved

For every set of signers, blocks, cycles and messages that satisfies
`ConstantsAssumption`, and any number of messages, crashes, failures and lost
answers:

| Theorem | Statement |
|---|---|
| `IngestionProofs!TypeCorrect` | `Spec => []TypeOK` |
| `IngestionProofs!BlocksAreIngestedOnce` | `Spec => []BlocksIngestedOnce` |
| `IngestionProofs!AnnouncementsAreOnceAndDurable` | `Spec => []AnnouncedOnceAndDurable` |
| `IngestionProofs!StatusIsFinal` | `Spec => StatusNeverReverts` |
| `IngestionProofs!NoMessageIsLost` | `Spec => []NoMessageLost` |
| `SignerSetsProofs!HalfAppliedSetsReplayed` | `MaxLost = 0 => (Spec => []HalfAppliedSetsAreReplayed)` |
| `SignerSetsProofs!CountersAreBacked` | `Spec => []CountersBacked` |
| `StackerSetUpdatorProofs!TypeCorrect`, `OneJobForEachCycle`, `QueuedCyclesArePending`, `NothingRunsAfterStop` | the invariants of that run, for any number of slots |
| `StackerSetUpdatorProofs!UpdatorImplementsRequests` | `Spec => Requests!Spec` |
| `PoxInfoUpdaterProofs!TypeCorrect`, `AlwaysSlowOnlyUnread` | the invariants of that run |
| `ThreadedParserProofs!TypeCorrect`, `WaitersAreTheOpenCalls`, `OpenCallsStayUnderWay`, `EveryReplyIsExpected` | the invariants of that run, for any number of calls at once |
| `ThreadedParserProofs!ParserImplementsRequests` | `Spec => Requests!Spec` |
| `SignerQueriesProofs!PendingAgreesAlways`, `LatestAgreesAlways`, `EndpointsAlwaysAgree`, `RangesAlwaysAdd`, `MetricsAlwaysMatch`, `BackfillAlwaysRecounts` | the six invariants of the run `queries`, for any signers, cycles, messages, windows and ranges |
| `SignerMessagesProofs!TypeCorrect`, `BlocksAreComplete` | two invariants of that run, for chunks of any bytes |
| `SignerMessagesProofs!EncodedSlotsRoundTrip` | `Spec => []SlotsRoundTrip`, for any encodings and any chunk |
| `SignerMessagesProofs!HashCoversSignedHeader` | `Spec => []HashCoversHeader`, for bit vectors of any length |
| `SignerMessagesProofs!FixedFieldsAreAsSent` | `Spec => []FixedFieldsAsSent`, the first conjunct of `HashCoversHeader` |
| `SignerMessagesProofs!HashBeginsAsSent` | the hashed bytes of a block are bytes 1 to 206 of its slot, then the bit vector |
| `SignerMessageListenersProofs!ListenersOnlyWatch` | `ListenersSpec => Spec` of the ingestion |
| `SignerMessageListenersProofs!ListenersTypeCorrect`, `BroadcastsFollow`, `AnnouncedRowsShown`, `BatchesFailAlone` | the invariants of that run, for any clients, messages, failures and batch size |

*Ingestion.* `TypeOK` is inductive (it holds `tx = db` outside StackerDB
transactions). None of the others is: all need `TxExtendsDb`, that the open
transaction has the tip and blocks of `db`, at least its rows, and that
`applied` names rows only `tx` has. With it every step either is a block, which
is above the tip, or the commit of such a transaction, or changes no table but
`reward_set_signers` and the parameters (`OtherEffects`, `TransactionEffect`);
from these three cases follow the block, event and status properties.

`NoMessageLost` speaks of the messages below `pos`, which a crash moves. The
invariant `Kept` says the same of every message the client *or a client started
now* is past (`IsPast`: below `pos`, at or below the checkpoint, or done). It adds
that the checkpoint trails `pos`, that the open transaction has the rows of the
chunks before `next`, and where the tip comes from: every batch of signatures is of
a signed block at or below the checkpoint, and one of them has the tip's height. So
a block that is skipped, although it is higher than all blocks before it in the
stream, is itself the one at the tip: it was committed under this very message and
its acknowledgement was lost (`SkippedIsKept`).

*Signer sets.* `SetsOK` says: the checkpoint is behind the message unless the
message is done; the open transaction makes no cycle worse (`NoWorse`: no set
vanishes, none becomes half applied); a half applied cycle has an announcement
the handler is not yet past (`Ahead`); and every announcement it is past has
left rows or has a successor ahead. Only the three statements make a cycle
worse, and while they run the announcement is not yet behind. The argument
needs `MaxLost = 0`, and the run `unranked` shows why.

*Counters.* `CountersBacked` is stated of `db`; it is inductive for `db` and `tx`
together (`BothBacked`), since a commit makes the one the other. Each write either
only adds rows that counters may count (`Retains`) or adds one to a counter along
with a response, or a block, that was not there before, so that the cardinality grows
by one as well; the guards that make it new are `IsApplied` and the position of the
appended block.

*Queries.* What the queries answer is computed from one database, so their theorems
are facts about the databases the ingestion reaches. All of them follow from one
conjunction, `Answerable`: the invariants above, `Kept`'s account of where the
tip comes from, and two new invariants. Every proposal in a table is asked for by
a message of the stream (`ProposalsAreOfTheStream`), so `ReceivedAt` is the minimum
of a set that is not empty; and stored blocks are above an empty database's tip
(`BlocksAreAboveNothing`), so the tip of a database with blocks is the height of a
stored one or of a signed block that is no Nakamoto block (`TipIsOfASignedBlock`). A
response that the gauges leave out was stored before its proposal (`TooOldOvertook`):
it came more than an hour before the oldest recent proposal, and of `MoreThanAnHour`
the proof assumes only that what comes an hour later comes later. That minima and maxima of finite sets exist, and that an order
as the ORDER BYs ask for does (`SomeOrderIsNewestFirst`, `SomeOrderIsHighestFirst`:
the properties quantify over these orders and would be empty without), is proved
by a minimal counterexample among the subsets. Counts are compared by partition: each signer of a set, or
proposal of a cycle, falls in exactly one class (`CountThree`, `CountSplit`), and
`CountSubset` gives the inequalities. `CountersBacked` bounds the stored counters by the
recount. The constants are as in `NullsAssumption`, that NULL is no signer and no
number.

*StackerSetUpdator.* The inductive invariant adds to the checked ones that what
has a job or timer is in `queuedCycleNumbers` even after the abort, and that a
job awaiting the COMMIT's answer has stored its set. One lemma for each
operation of the queue gives its effect on the set of jobs; the steps of the
refinement follow from them.

*ThreadedParser.* The inductive invariant `ParserOK` adds what the ports hold and
in which order: a request carries the body of its call and a reply the parse of
it (`QueuesFaithful`), and the ids that were answered, those of the outbox and
those of the inbox form one ascending sequence (`QueuesInOrder`). The refinement
needs the order: without it a reply could be delivered after that of a later
call. The lemmas on `Append` and `Tail` are stated once for queues of anything.

*SignerMessages.* The format of a block, after any of its fields that may be
cut short but a push's last transaction, still ends in a read that needs bytes. A field that is short has
emptied the buffer, so that read throws. The inductive invariant `CursorInv` says
that what is left of a block's format ends as the format does (`EndsAsProposal`,
`EndsAsPush`), and that once a field is short the buffer is empty while that end
is still to come. It speaks of the last read and not of the next, as arrays put
their items in front of the rest.

`FixedFieldsAsSent` needs where the cursor is. While a block's header is read, the
buffer is the slot's data from the place of the next field on, and the reads to come
are the rest of the header (`ReadingLayout`); a read takes the front of a rest,
which is a piece of the data (`SubarrayTwice`). Behind the header, arrays and all, only
fields of other names are read (`AllOther`), so that `Value`, which looks a
field up by its name, finds the one in the header (`ValueOfFixed`). The nine places are adjacent, so the
values, written one behind the other, are one piece of the slot (`HashOfPieces`).

`SlotsRoundTrip` says nothing of a message that is half read, so it is not inductive.
The inductive invariant `RInv` says that while a slot that holds an encoding is read,
the parser stands at one of its cursors (`AtCursor`): the reads to come are the
cursor's, the buffer is the slot's data from the cursor's offset on, and the fields
so far are the encoding's first ones, none of them short. It names no kind of message,
and needs no count of the items of an array. A step then has to lead to
the next cursor (`ReadToNextCursor`). There is one lemma for each kind of read
(`PieceOfEnum`, `PieceOfBitVec`, `PieceOfVecString`, ...): if the next piece of the bytes is
what a sender writes of a value, then the read does not throw, takes exactly that
piece and yields that value. Hence at a cursor nothing is `Unreadable`
(`EncodedIsReadable`): a chunk throws only for a slot that holds no encoding or has no
key, the second half of the property. The metadata is where this is delicate: it may be
left out only with nothing behind it (`LeavesOutMetadata`), which is what the code looks
at. TLC has found `RInv` true on the instance of the run `messages` as well.

For `HashCoversHeader` the decoded bits must be written as they came. A byte is the sum
of its eight bits (`SumOfBits`), for which `WriteBitVec` adds eight terms and no
recursion is needed; the bits behind the end are those a sender leaves unset, and the two
lengths determine each other (`BitVecWritten`). Of a vector with such a bit *set* nothing
is proved: it would be written back without it, and `EncodesBits` excludes it.

*Listeners.* Every step of the composition is a step of the ingestion or leaves
its variables alone, so `TypeOK`, `AnnouncedOnceAndDurable` and what they rest on
hold of it. `BroadcastsFollowCommits` adds that queries are started only for what is in
`heard`, whose rows `db` does not lose. `AnnouncedRowsAreShown` needs
that clients are told only what is in `heard` too, and that a query which has read
a row before its proposal does not count as one to come: it emits nothing. For the batches, the
invariant `BatchInv` says that they are non-empty, pairwise disjoint and pieces of
announced messages; that no two messages announce one row is the ingestion's
theorem. The number of rows lost then follows from the cardinality of unions.

Only model-checked: the seven liveness properties (`StreamDrains`,
`HalfAppliedSetsHeal`, `RequestsSettle`, `StopReturns`, `PoxInfoConverges`, `CloseEndsJob`
and `ParsableCallsReturn`). Liveness under fairness is outside what TLAPS proves.

## 6. Where the code and its documents disagree

* `unranked` (`SignersAreRanked`): the answer to a block's COMMIT is lost, the
  client delivers the block again, `handleMsg` deletes the reward set of a block
  that is already in the database, and a crash there restarts *after* it. The
  set stays empty or unranked.
* `repeated` (`AcceptedCountNeverFalls`): a second delivery of an announcement
  deletes the cycle's rows with their counters, before the block is found to be
  a repetition.
* `overtaken` (`AcceptedCountIsExact`): a response that comes before its
  proposal, or before the signer set, is stored and never counted.
* `unknown_set` (`MissingWithinTotal`): a proposal of a cycle without signers has
  no signers and one missing response, the outer join's row of NULLs.

`PROJECT.json` quotes the comments and schema descriptions. Further places where
comment and code differ, which need no run to be seen:

* a block that replaces another at its height is skipped
  (`event-stream.ts:149`), while `pg-store.ts:340` calls `blocks` never missing
  any;
* `updatePoxInfo` overwrites values that are set (`pg-store.ts:119` against the
  comment at 112);
* when the PoX info job's first query fails, the job logs that the database already
  has PoX info (`pox-info-updater.ts:57`) and waits 30 seconds, the interval that
  line 6 describes as that of a database with the parameters, although the table may
  be empty: `null` is not truthy. `SlowOnlyUnread` shows that this is the only case;
* a response that comes after its block is counted as answered and stays counted
  as missed (`schemas.ts:156` describes proposals the signer failed to answer);
* a signer of the block counts as `accepted_mined` whatever it answered
  (`pg-store.ts:428`); the comment at line 349 also asks for an accepting
  response;
* `limit` and `offset` are ignored when a range of time is given, and `total` is the
  number of rows returned (`pg-store.ts:695`, `cycle.ts:95`);
* stored ranks break ties between equal stakes by key (`pg-write-store.ts:474`),
  ranks of a request with a range share the place (`pg-store.ts:790`);
* the pending gauges see no proposal at or below the height of a push, the API
  calls such a proposal pending until the chain tip reaches it.

Behaviour the models show that no document speaks of, and that a reader of the
code may not expect:

* an accepted or rejected response that is cut short parses, with a short hash or
  signature, as its last reads are `readBytes`: `CompleteBlocks` holds of blocks only;
* a response that is stored more than an hour before the oldest recent proposal is
  missing in the signer gauges while its proposal's entry shows it
  (`pg-store.ts:885`);
* a signed block that is no Nakamoto block moves the chain tip without being stored
  (`pg-write-store.ts:346`): until the next Nakamoto block `/blocks/latest` answers 404, and
  proposals at or below its height are rejected that the pending gauges count;
* one slot that does not parse makes `parseStackerDbChunk` throw for the whole
  chunk, and then the call waits for ever (`threaded-parser-worker.ts:62` logs);
* whether a message has metadata is judged by what is left in the buffer
  (`msg-parsing.ts:359`): a mock block whose mock signatures have none does not
  parse if it has more than one of them;
* the broadcasts of a block may reach a client in another order than its events,
  each with the state its query saw; and a block's own ingestion changes the
  status of its proposal without any event;
* the option that enables NOTIFY is never set (`pg-store.ts:69`, 75), and nothing
  in the service listens to what NotificationPgStore relays.

## 7. What is left, and what is not modelled

Modules:

* `Lifecycle`: startup in the run modes and the order of the shutdown handlers,
  composed of the abstract specifications of the other modules: nothing uses
  the database after `db.close()`, and `EventStreamHandler.stop()` returns with a
  parser call open. The order of the handlers is decided outside the repository,
  by the toolkit's `registerShutdownConfig`, which would be an external
  definition; the parts that are the repository's own (`close()`, `stop()`,
  `preClose`, a restart at any point) are actions of the modules above.

Two questions hang on libraries the repository only uses. What
`deserializeTransaction` makes of bytes that are cut short is left open (section 2). And
the `missingStackerSet` timer is set inside the block's transaction, which the toolkit
keeps in asynchronous context: that StackerSetUpdator writes in a transaction of its own
is how the code reads, and how it is modelled.

Theorems: every invariant and every safety property of the steps that a passing run
checks is proved. What could be added is that of slots that hold *no* encoding, mock
messages and responses come out field by field as the blocks' headers do.

Not modelled, for good: hash functions, signatures and key recovery
(cryptography, also vendored), JSON and URL formatting, the parsing of time
ranges, configuration, logging, averages and percentages, the migrations that only
create or alter tables (which are `Ingestion`'s `db`), `chunk-parser` and the
utilities outside the service.
