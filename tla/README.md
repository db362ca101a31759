# A TLA+ model of cater's indexing system

cater takes a url, fetches it, splits the text into chunks, embeds the chunks into Qdrant
and tells the client how far it is. The work runs in Kafka consumers, the state lives in
PostgreSQL and Qdrant, and the client follows the request over WebSocket. This directory
holds TLA+ modules of that system, TLC configurations for small instances, and TLAPS
proofs for all instances. Paths below are those of the repository; `README 233` stands
for line 233 of `src/kafka_service/README.md`.

## 1. Inventory

| component | code | state it keeps | operations | made correct by |
|---|---|---|---|---|
| stage worker | `kafka_service/worker.py`, `sync_client.py` | group offset, the message in hand, the producer's local queue | poll, handle with retries, emit, DLQ, flush, commit, close | no offset past an unsettled message, order, redelivery only after a fault, no blocked partition |
| stage handlers | `kafka_service/stages.py`, `storage.py`, `embedder/indexer.py` | `content`, `content_text`, `chunks`, Qdrant points | `save_text`, `count_chunks`, `save_chunks`, `set_status`, `index_document`, `reindex_document` | what an event says is true of the store; one document per text; a request never disappears |
| status order | `kafka_service/events.py` | none | `supersedes`, `is_final` | late events do not take a request back |
| request projection | `kafka_service/projector.py`, `storage.record_status_event`, `storage.create_request` | row of `request`, offset of `cater.events.projector` | insert, apply an event once, commit | the history is the timeline; nothing skipped |
| API and CLI | `main.py`, `async_client.AsyncProducer`, `__main__.py` | the producer, the background tasks, their stop event | start, submit, reconnect, shut down, run a process | an id that was returned is in Kafka and in the table; tasks survive outages; processes end |
| WebSocket stream | `realtime/ws.py`, `realtime/dispatcher.py`, `async_client.run_event_pump` | buffers per request, queue per connection, ids seen | pump, subscribe with replay, snapshot, forward, heartbeat, close | no event twice, none between snapshot and subscription, an end |
| CDC sink | `kafka_service/cdc.py` | collected ids, offset, cache of collections | collect, delete with retries, commit, sweep | no delete event lost, no live point deleted |
| DLQ replay | `__main__._replay` | offset of the replay group | put back, flush, commit | no dead letter disappears, a run ends |
| database schema | `models.py`, `alembic/` | unique and foreign keys | insert, cascade | the races above lose to a constraint, not to a lost update |
| Qdrant client | `embedder/qdrant.py`, `embedder/indexer.py` | the collection, its payload index, points | `ensure_collection`, upsert, delete | a document marked indexed becomes searchable |
| hybrid search | `embedder/search.py` | none | `hybrid_search`, `ahybrid_search` | the three limits only cut what they should |
| topic administration and `run_stages`, Celery endpoint, `conn.py`, `listener.py`, db engines, migrations | | | | not modelled, see section 9 |

How they interact. `POST /index` puts a message keyed by url into `index.requests` and then
inserts the request row. `fetch` answers with a message keyed by document into
`content.fetched`, `chunk` with one into `chunks.ready`, and `embed` ends the chain; each
also sends a status event to `index.events`. That topic has two readers that do not know of
each other: the projector, one group for all instances, writes the request row; the pump,
a group per process, fills the dispatcher, whose queues the WebSocket connections read. A
connection starts with a snapshot of the row. Deletions of chunk rows travel through
Debezium to the CDC sink, which deletes points while `embed` may be adding some.

What is hard in it: at-least-once delivery at every arrow; a rebalance lets two workers
process one message; three places of truth (topic, table, Qdrant) with no transaction over
two of them; events of one request in two partitions and from three producers; check and
act separated by minutes of embedding; joins of a snapshot with a live feed. `PROJECT.json`
lists the hazards one by one with the line where each bites.

## 2. Modules

| module | models | instance | theorems |
|---|---|---|---|
| `AtLeastOnce` | abstract: what a stage promises about a partition | refined by `StageWorker` | |
| `StageWorker` | workers of a group competing for one partition | `MCStageWorker` | `StageWorkerProofs` |
| `Pipeline` | handlers, database, Qdrant, three topics, DLQ; the worker seen from outside | `MCPipeline` | `PipelineProofs` |
| `StatusOrder` | the order of statuses, used by the next and the last one | | |
| `Projection` | request row, two projectors, two partitions of `index.events` | `MCProjection` | `ProjectionProofs` |
| `Cdc` | CDC consumer, sweep, embed and table around them | itself | `CdcProofs` |
| `WsStream` | pump, dispatcher, connections, snapshot, next to the projector | `MCWsStream` | `AsyncioProofs` |
| `AtomicSave` | abstract: `save_text` as one step per call | refined by `Documents` | |
| `Documents` | the rows of one text: `save_text` by transaction, chunk and embed on a document that may be deleted | itself | `DocumentsProofs` |
| `VectorStore` | embed's calls to Qdrant, from `ensure_collection` to the unacknowledged upsert | `MCVectorStore` | `QdrantProofs` |
| `Search` | a hybrid query over a collection that changes | `MCSearch` | `QdrantProofs` |
| `Replay` | the replay command, run by several operators, and the stages behind it | `MCReplay` | `ReplayProofs` |
| `Api` | the asyncio processes: lifespan, background tasks, `POST /index`, signals | itself | `AsyncioProofs` |

`StageWorker` is the detailed worker; `Pipeline` uses its outside view: the outcome of a
message is published, then its offset committed, with a crash or a second worker possible
at every point. `Projection` in turn sees the stages as the source of events that `Pipeline`
shows them to be (`StageRuns`), and `WsStream` sees the projector as one atomic step per
event, in the order of each partition, which is what `Projection` establishes. `Documents`,
`VectorStore` and `Replay` open steps that `Pipeline` takes as one: `SaveText` there is the
promise `AtomicSave`, which `Documents` refines; `Upsert` there ends when Qdrant has accepted
the batch (`wait=False`), and `VectorStore` shows when it is applied; the replay there is one
step, which `Replay` splits.

### StageWorker
`pc[w]` is the place in `run_stage` / `_process`: `poll`, `handle`, the two sends of
`_emit_all` (`send_out`, `send_event`) or of `_to_dlq` (`send_dlq`, `send_failed`), `flush`,
`commit`, the `finally` block (`closing`), or a dead process (`down`). `queue[w]` is
librdkafka's local queue, `position[w]` the consumer's, `attempt[w]` the counter of
`_handle_with_retries`. The actions are the steps of the loop and its exceptions:
`SendRaises` (produce raises: into the DLQ from `_emit_all`, out of the loop from
`_to_dlq`), `FlushTimeout`, `CommitFenced`, `CommitTimeout` (applied or not), `Stop`. The
environment is external: `Deliver` and `Refuse` (the broker, with `_on_delivery`), `Crash`,
`Restart`, `Assign`, `Rebalance`. A rebalance may take the partition from a worker in the
middle of a message, which then runs on as a zombie until its commit is refused.

### Pipeline
One queue per stage and key, `status` / `chunks` for the tables, and `accepted` for what
Qdrant has accepted and not deleted since; no property here reads it as searchable. One action
per call: `SaveText`, `Check`, `CountChunks`, `SaveChunks`, `MarkChunked`, `Wipe`, `Upsert`
(one per batch), `MarkIndexed`, then `Publish` and `Commit` of the worker. A message is the
request it belongs to; texts are documents, because rows are deduplicated by `content_hash`,
so two urls can share one. `HandlerRaises` is any exception of a handler and `SaveChunks`
the one of `uq_chunks_content_index`. `raced` (partitions whose head two workers held) and
`unmarked` (documents of which an attempt of chunk stopped between `save_chunks` and
`set_status`) are history variables: properties name their exceptions with them.

### Projection
`Record` / `Insert` / `Commit` are the select, insert and offset commit of a projector; the
select locks an existing row, so `Write` is one step, while a missing row is not locked and
two transactions can insert it. `FindRow` / `InsertRow` are `create_request`. The document
may be deleted (`DeleteDocument`), which sets `content_id` to null and makes later events
violate the foreign key. `Recorded` looks for an event id in the row's history, as the code
does, so an id that `Trim` cut is recorded again. Two history variables keep what the row
forgets: `timeline`, the ids in the order they were first recorded in, and `revived`, the ids
recorded again.

### Cdc
`Poll`, `Flush`, `DeletePoints`, `Commit` are the loop; `DeleteFails` may leave some
collections done and, after the last attempt, goes to the `finally` block, which flushes
once more; what fails there ends the process. `Targets` is the cached or the fresh list of
collections. `EmbedLoad` / `EmbedUpsert` are the two ends of `index_document`, far apart in
time; `SweepScroll` / `SweepLookUp` / `SweepDelete` one batch of `sweep_orphans`.

### WsStream
asyncio runs a step to its next `await`, so the actions are those segments: `Pump` (buffer
and all queues at once), `Connect` (accept, subscribe with replay), `LoadSnapshot`,
`SendSnapshot`, `Take` (the pending task), `Heartbeat`, `Forward`, `Disconnect`.
`PumpFails` loses what is published until `PumpReconnects`, since the new group starts at
the end. `lost`, `gap` and `faded` are history variables that name what the design gives
up: an overflowing queue, a disconnected pump, an evicted buffer.

### Documents
PostgreSQL in READ COMMITTED: a row is `none`, `uncommitted`, `live` or `deleted`, a
statement sees live rows, and the insert of a `content_hash` that somebody else has inserted
waits for the outcome (`KeyFree`). `Select`, `Insert`, `Conflict`, `SelectAgain` and `Commit`
are the statements of `save_text`; the second select runs in a transaction of its own, and
if the document was deleted meanwhile it finds nothing and `str(existing.id)` raises.
`Chunk`, `CountChunks`, `LoadText`, `SaveChunks`, `MarkChunked`, `Embed`, `LoadChunks`,
`MarkIndexed` carry the id on, because what the race hands out is an id that later stages rely
on. `splits` says whether the text has any chunks: for an empty one `save_chunks` inserts
nothing and `index_document` returns 0. `MarkChunked` overwrites `indexed`. `Crash` rolls
back and redelivers; `Delete` is the cascade.

### VectorStore
The server has an ordered log of accepted operations (`wal`) and the applied `points`;
`Apply` moves the head of the one into the other. A worker's handler is `CollectionExists`,
`CreateCollection` or `CreateConflicts`, `CreatePayloadIndex`, then for a forced message
`Delete` and `DeleteDone` (wait=True), and `Upsert` per batch (wait=False), `MarkIndexed`,
`Commit`. embed has one attempt, so every exception goes to the DLQ (`ToDlq`). `torn` is a
history variable: the documents of which a wipe was cut short.

### Search
`Prefetches`, `Fusions`, `Candidates` are the three stages of a query. A score is any number
per point; a ranking is any order the scores allow, so ties may fall either way. Reciprocal
ranks are compared as exact integers (numerators over a common denominator), which is the
sum that Qdrant makes of them with a small `K`. `Answer` records a query and its page.

### Replay
`run[o]` is one run of the command: `poll`, `send` (put back and flush), `commit`, with the
record in its hands. `index.dlq` has partitions (`TOPIC_PARTITIONS`, 6 by default,
`admin.py:30-33`) and its records are keyed, so `dlq[p]` is one sequence per partition, and a
run takes the head of any partition it owns. Runs share the consumer group
`cater.dlq.replay`: one that starts gets the partitions nobody reads (`Launch`, `Assign`) and
takes others over (`TakeOver`). A letter is good, bad (its stage fails on it again), empty (no
`raw`, it is only committed) or garbled (`json.loads` raises and the run ends with all its
partitions, `PollGarbled`). `Arrives` is a message that reaches its stage, or the DLQ at once
when it is malformed. `PutBackFails` is the flush that times out, `PutBackRefused` the record
that the broker refuses, `CommitFails` the commit whose answer is lost.

### Api
`phase[h]` is the life of a process (API, or a projector of its own), `task[t]` the place of
a coroutine at its awaits. `Serve` is the lifespan up to its yield, `Signal`, `Wake` and
`Stopped` the shutdown: the API sets the event and cancels in one step, `_run_projector`
cancels when its main coroutine wakes up. `StartConsumer` differs for pump and projector: the
projector's `consumer.start()` is outside its `try`. `Send` / `Insert` are the awaits of
`POST /index`.

## 3. Runs

| run | instance | shows | states |
|---|---|---|---|
| `StageWorker` | 2 workers, 3 messages, one malformed, 2 attempts, 2 faults | `NoSilentLoss`, `InOrder`, `RedeliveryNeedsFault`, `OffsetMovesByOne`, `PartitionDrains`, refinement of `AtLeastOnce` | 370 000 |
| `Pipeline` | 2 requests by two urls for one text of 2 batches, one of them forced, 2 workers for chunk and for embed, 1 take-over, 1 crash or exception, 1 replay | `RequestsConserved`, `EventsFollowStore`, `IndexedIsAccepted`, `SkippedWasAccepted`, `StatusRegressesByRaceOnly`, `EveryRequestEnds` | 589 000 |
| `Projection` | 2 projectors, 3 events, a history of 2, 1 fault | `HistoryIsTheTimeline`, `CommittedIsRecorded`, `ProgressConverges`, `IndexedStays`, `EventsAreProjected` | 114 000 |
| `Cdc` | 2 chunks, 2 collections, batches of 2, 2 attempts, 2 faults | `OrphansHaveAnEvent`, `LivePointsStay`, `OrphansGoAway` | 540 000 |
| `WsStream` | 1 client, 4 events in 2 partitions, buffer and queue of 2, 2 faults | `NoDuplicates`, `NothingSlipsThrough`, `StreamInOrder`, `StreamEnds` | 148 000 |
| `Documents` | 2 workers, 3 calls for one text, 3 ids, a text with or without chunks, 2 faults (crash, rebalance, deletion) | `FailsByFaultOnly`, `IndexedHasPoints`, `SaveTextIsAtomic` (refinement of `AtomicSave`) | 106 000 |
| `VectorStore` | 2 workers, 2 documents of 2 batches, a forced message behind an ordinary one, 1 fault | `RaceFailsOncePerWorker`, `IndexedBecomesSearchable` | 104 000 |
| `Search` | 3 points, every strict order and a tie for each of three scores, limits 1 to 3 | `RerankIsExact`, `LargerLimitExtends` | 188 000 |
| `Replay` | 2 operators, 2 partitions, an empty and a good letter, a bad and a garbled one at any time, `--limit 2`, 3 faults | `LettersConserved`, `RunEnds`, `ReachableLettersPutBack` | 97 000 |
| `Api` | API and projector process, 1 request, 2 outages | `AnsweredIsAccepted`, `TasksComeBack`, `StopEnds` | 45 000 |

`TypeOK` is checked in `Pipeline` and `WsStream`; it is a theorem for every module with
state except `Search`, whose inductive invariant holds its types.

Two more runs end in a counterexample, because the code does not do what its documents say
(findings in `PROJECT.json`, with the lines). `StageWorkerRefused` refutes `NoLostWork`: a
record that the broker refuses for good is logged by `_on_delivery` and no longer counted by
`flush()`, so the offset is committed and the outcome is lost. `PipelineDisagree` refutes
`StatusesAgree`, which says with README 154-156 that `content.status` and the events never
disagree: when an attempt of chunk stops between `save_chunks` and `set_status`, the retry
reuses the chunks, publishes `chunked` and leaves the status at `fetched`.

Why the bounds are enough. A race needs two workers and the message after the disputed one,
so three messages and two workers show a zombie that is one behind; two faults allow a crash
on top of a rebalance. Two upsert batches separate "some" from "all" of them, two urls with
one text meet in one document partition, where the forced request deletes what the other has
written. A history of two is overrun by three events, and a redelivery then records one again. The
CDC batch of two has a full and a partial flush, and two collections give a half-done
delete. In `WsStream` four events are the shortest timeline with two partitions and two
ordered non-final events in one of them; buffer and queue of two overflow. Three calls of
`save_text` are a winner, a loser and a caller after a deletion, each with an id of its own
if need be; two faults are a deletion and a crash. In `VectorStore` two workers meet at the
new collection with documents of their own, and the forced message shows a second pass over
an indexed document. Three points and limits up to three put every limit below, at and
above the number of candidates. In `Replay` a limit of two is reached while a bad letter
comes back again and again; two partitions show a run that is ended by a letter of the one
before it has read the other, and three faults a take-over, a crash and a broker error. In `Api` one call suffices,
since calls share only the producer; two outages are a broker that is down and a crash or a
failing transaction meanwhile. Fault counters bound the environment only; `faults`,
`replays`, `MaxEvents`, `MaxCalls`, `MaxOutages` appear in the guards of the actions they
limit. `Documents` stops when its calls and faults are used up, so its run does not check
for deadlock; every other run does. Instances with two WebSocket clients (203 000 states
with three events and one fault) were checked as well and show nothing new, since clients
share only the dispatcher.

`Pipeline` merges nothing into partitions that the partitioner may merge: it gives each key
its own, which orders least. `MCPipeline` has a single fetch worker, whose handler is one
transaction; its races are in `Documents`.

## 4. What the properties except

Several properties hold with an exception, and each exception is behaviour of this code that
a reader should know of:

* `_already_indexed` looks at the document and not at the collection, so a request for a
  second collection is answered `skipped`; `SkippedWasAccepted` speaks of requests for one
  collection.
* A forced reindex deletes points first. If it fails in between, it goes to the DLQ and
  `content.status` stays `indexed` with points missing (`Reindexing` in `Pipeline`, `torn` in
  `VectorStore`).
* Two workers that hold an embed message of one document at the same time (a take-over) can
  wipe each other's points; `IndexedIsAccepted` and `SkippedWasAccepted` leave forced requests
  out of which that is true (`raced`), and those that wait or lie in the DLQ.
* `content.status` moves back when two workers hold the same chunk message, or for a text
  without chunks (`StatusRegressesByRaceOnly`).
* An attempt of chunk that stops between `save_chunks` and `set_status` leaves
  `content.status` at `fetched` while the next one publishes `chunked`. `StatusesAgree` is
  refuted by it; `EventsFollowStore` excepts exactly the documents of such attempts
  (`unmarked`, and `Marking` while one is under way).
* `record_status_event` says that repeating an `event_id` changes nothing
  (`storage.py:156`). It recognises an event by the history, which `storage.py:183` cuts to
  64 entries: an event that has been cut is recorded again, and the history changes.
  `HistoryIsTheTimeline` demands the exact timeline until that happens (`revived`), and after
  it that no event is in the history twice.
* `skipped` has no rank, so a late progress event takes a finished request back;
  `IndexedStays` is stated for `indexed`, and `failed` does override it.
* An event of a deleted document violates the foreign key at every attempt and stops its
  partition of the projection (`EventsAreProjected`, which also takes the broker to be
  reachable when a projector reconnects).
* embed upserts chunks that were deleted while it computed; only a sweep removes such points
  (`OrphansHaveAnEvent`). For a document deleted before embed loads it, no chunk is found
  and the request is reported indexed, as it is for an empty text (`IndexedHasPoints`).
* The upsert is not awaited, so `indexed` may be ahead of the search
  (`IndexedBecomesSearchable` is an eventuality and not an invariant). What holds at the time
  of the event is that Qdrant has accepted every batch (`IndexedIsAccepted`).
* The first embed workers that meet a new collection together may each lose a message to the
  DLQ (`RaceFailsOncePerWorker` bounds how many); a crash between the creation and its
  payload index leaves the collection without one (`IndexMissingByFaultOnly`).
* A dead letter whose body is not JSON ends every replay that reaches it: those behind it in
  its partition are never reached, and those of other partitions only if a run happens to
  read them first. A letter that fails each time can spend the limit of every run in the same
  way (`Starved` in `ReachableLettersPutBack`).
* A projector that meets an unreachable broker in `consumer.start()` ends for good while its
  process goes on (`TasksComeBack`).
* Full queues, evicted buffers and a disconnected pump drop events for a connection
  (`NothingSlipsThrough`, `StreamEnds`). The last event of a request is a final one there;
  progress recorded after `skipped` is not modelled in `WsStream`.
* `StopEnds` takes `consumer.stop()` and `producer.stop()` to return.

## 5. Fairness

Weak fairness only, and for what runs by itself: a worker process in its loop, the broker
acknowledging, the coordinator assigning an orphaned partition, the supervisor restarting a
dead process ("the supervisor restarts the process and the events are replayed",
`cdc.py:79-81`; "in production each stage is a separate process/pod", `worker.py:189`), the
API finishing a call it has begun, the pump reconnecting after its two seconds, Qdrant
applying its log, coroutines whose await is over, a broker that comes back. Faults, clients,
signals and the deletion of rows are never fair: they may stay away for ever. `StopEnds`
needs no event of a topic. Operators are fair in `Replay` only (`PersistentSpec`): the
property is about letters that replays in plenty do or do not reach. No run uses strong
fairness.

## 6. What is proved

`tlapm` on the eight modules named `*Proofs.tla` proves every invariant, action property and
refinement that the runs check, for every value of the constants, under the named
assumptions of the modules: a worker is not `NoWorker`, an operator not `NoOperator`;
counts, limits and bounds are naturals, positive where a loop needs it; malformed offsets
are offsets; a worker belongs to a stage and its attempts are positive, a request has a
document, a collection and a number of batches (`Pipeline`); finitely many workers and at
least one in `VectorStore`, since its bound counts them; a request has no more events than
the row's history and a connection's memory hold (`WsStream`; 64 and 256 in the code);
a score is a natural per point, the constant of the fusion positive (`Search`); outages are
bounded (`Api`); every message has a partition (`Replay`).
`AsyncioProofs` and `QdrantProofs` each extend two modules that share no state, which is why
the specifications of the second ones are named `ApiSpec` and `SearchSpec`.

* **Workers** (`Inductive` first). `NoSilentLoss` is not inductive: that the next commit is
  covered depends on what the committing worker has sent, and on which message it commits.
  The invariant adds `SendProgress` (the records of a worker are where its `pc` says),
  `OwnerInSync` (the holder of the partition is at the message after the offset) and
  `NotAhead` (zombies lag, they never lead). From it follow `TypeCorrect`,
  `NothingLostSilently`, `RedeliveriesBounded`, `FirstOutcomesInOrder`, `OffsetOrder`, and
  `Refinement`: each step of the workers is a `Settle`, an `Acknowledge` or a stutter of
  `AtLeastOnce`.
* **Pipeline.** One inductive invariant in four groups, each proved to be kept by every
  action under the groups before it. *Work* (`TypeOK`, `OwnerHasHead`, `ZombiesRaced`,
  `QueuedByKey`, `PointsFit`): the holder of a partition has its head in hand, a worker that
  has a message without the partition has raced for it. *Requests* (`OutcomeBeforeCommit`):
  before an offset passes a message, a later stage has it or its stream has ended, which is
  what `RequestsConserved` lacks to be inductive. *Rows* (`ChunksWhole`, `RowBeforeEvent`,
  `ChunkedIsMarked`, `FirstChunking`): chunks are saved all at once and never change, a
  message is passed on after its row exists, a document that has chunks has its status, or
  is being marked, or an attempt stopped before it was (`unmarked`), and nothing behind chunk
  touches a document before it is marked. From it `EventsComeAfterRows` and
  `RegressNeedsRace`. *Upserts* (`OnlySubmitted`, `UpsertsStay`, `IndexedMended`,
  `StatusMended`, `SkipMended`, `SkippedMended`): the batches a worker has counted stay
  accepted, and a document that was said to be indexed has all its batches accepted, or a
  forced message that will upsert them again waits or is dead, or a race disturbs it
  (`Mended`). From it `IndexedMeansAccepted` and `SkippedMeansAccepted`.
* **Projector.** `CommittedIsRecorded` needs `WrittenIsRecorded` (an instance about to
  commit has its event in the row) and `OwnerReadsNext` (if it holds the partition, that
  event is the one after the offset). `IndexedNotRolledBack` is the fact that only terminal
  statuses supersede `indexed`, carried to every step that writes the row. `HistoryIsExact`
  needs `HistoryIsApplied` and `NothingBeforeRow` (the history is made of applied events,
  and without a row there are none). As long as nothing was recorded again, it follows from
  the lemma `TrimAppend`: appending to the cut history and cutting it gives the same as
  cutting the whole timeline. An
  event that is recorded again is a count: the history has no event twice and lacks this one,
  and such a list is shorter than the timeline it is drawn from, so something was cut and the
  history is full and stays so. `ProgressIsReached` needs
  `AtTheFurthest` (the row's status is one of the applied events' and none of them is ahead
  of it) and that what is in a partition or in hand was published.
* **CDC sink.** `OrphansHaveAnEvent` is not inductive: that a commit passes the event of no
  orphan depends on what was read and deleted before it. The invariant adds
  `ReadIsCollected` (an id between the offset and the read position is pending until its
  points are deleted), `CommitCovers` (a commit under way leaves no orphan behind the read
  position) and `GoneIds` (the log, the pending batch and the ids a sweep has looked up are
  deleted chunks; an embed worker and a point know chunks that exist or existed). From it
  follow `TypeCorrect`, `NoDeleteLost` and `OnlyOrphansDeleted` (`LivePointsStay`).
* **Documents.** `SaveTextIsAtomic` is a refinement: a step of `save_text` that returns maps
  to `Find`, `Create` or `Raise` of `AtomicSave`, a deletion to `Delete`, the first step to
  `Call` and the others to a stutter. It needs `OneRow` (one uncommitted or live row, by the
  unique index) and `IdsInHand` (an insert's id is its own uncommitted row). `FailsByFault`
  needs `FaultFree` (without a fault a worker that chunks a document is alone with it, and
  the loser of an insert finds the winner's) and `IndexedIsTrue` needs `ReadyHasChunks`
  (what chunk passes on has chunks, or an empty text, or was deleted).
  `OneDocument` and `TextIsThere` follow from the same invariant.
* **Qdrant.** `RaceBounded` counts: `RacersCount` says that the messages in the DLQ and the
  workers that have seen no collection and can still lose the race add up to no more than
  the bound; the argument counts workers, hence their finite set.
  `IndexKept` is the fact that a collection without its payload index needs a fault.
* **Search.** The invariant says that the last page is one the collection still gives and
  that the collection is finite. The theorems then are about lists: a list that has each
  member of a finite set once has all of them (`SeqsShape`, by counting), so prefetches and
  fusion with limits that cover the collection lose nothing (`RerankFindsTheBest`), and
  every page is cut from a list that does not depend on `limit` (`PageShape`,
  `LimitOnlyCuts`).
* **Replay.** `LettersKept` needs `Placed` (a letter is in the partition of its key, so what
  one partition loses no other had), `OwnersUp`, `InHand` and `HoldsHead` (a run that has a
  partition holds its head, so the commit removes that letter and no other) and
  `BackBeforeCommit` (what it is about to commit is in its stage's topic, handled, dead again,
  refused, or has no body).
* **Stream.** None of its three properties is inductive: what a client gets depends on its
  queue, the buffer and the row. `RowInOrder` says that the history is in order and holds a
  prefix of each partition, `BufferInOrder` and `Received` that buffer and queue are in order
  and in front of every event the pump may still receive (`Coming`). `Following` ties a
  connection to them: the ids it remembers are exactly what its client has (`SeenIsSent`),
  of a partition the client has nothing that is ahead of an event still to come unless it
  has that event too (`NotBehind`), and every event the pump has passed is waiting, seen,
  dropped by the queue or evicted. An unseen event is therefore behind everything the client
  has, which gives `StreamNeverGoesBack` and with it `NothingTwice`; `NothingIsMissed` is the
  last part with an empty queue.
* **API.** `AnsweredOnlyAccepted` needs `SentBeforeInserted`: who inserts has been accepted.

Each proof has one step per action and below it one per conjunct the action can disturb.

## 7. What is only model-checked

Liveness, which the prover does not treat: `PartitionDrains`, `EveryRequestEnds`,
`EventsAreProjected`, `OrphansGoAway`, `StreamEnds`, `RunEnds`, `ReachableLettersPutBack`,
`TasksComeBack`, `StopEnds`, `IndexedBecomesSearchable`. Beyond the instances of section 3
they rest on the model checker alone.

## 8. Plan

Done, in this order: `StageWorker` with its promise and proofs, `Pipeline`, `StatusOrder`
and `Projection`, `Cdc`, `WsStream`; then `Documents` with its promise, `VectorStore`,
`Replay`, `Api` and `Search`; then the proofs of every safety property. Next:

1. The steps that liveness rests on and that are safety: which action is enabled when a
   partition, a call or a connection has work left, as invariants with their proofs.
2. `WsStream`: an abstract "exactly once, in order" feed that a connection implements while
   nothing is dropped, and several requests sharing the dispatcher.
3. `ensure_topics` with two processes that start together, and `run_stages`.

## 9. Not modelled

* Numeric content: embeddings and text splitting. Scores and the number of batches are
  inputs; Qdrant's own constant of rank fusion is a parameter.
* Kafka, PostgreSQL, Qdrant and Debezium themselves: a topic partition is a sequence, a
  transaction a step (its statements where `Documents` and `Projection` need them), an
  accepted operation of Qdrant is applied in order, a deletion is in the CDC topic at once.
* `ensure_topics`, which lists the topics and creates the missing ones once before a stage
  starts, and `run_stages`, the several-stages-in-one-process mode for local runs, where the
  thread of a stage that died stays dead while the others keep the process.
* Configuration, message schemas, CLI parsing, logging; the `attempt` counter of a replayed
  message, which is written and read by nothing.
* Several requests that share one dispatcher: the eviction of buffers is modelled for one
  (`faded`), the order among several is not.
* `GET /index/{task_id}`, which reads a Celery backend whose module is not in the
  repository; `conn.py` and `realtime/listener.py`, which nothing starts (README 167-169).
* More than two of the six partitions of `index.dlq` in the `Replay` run (its theorems are for
  any number); more than one partition of the CDC topic; engine and session factories; migrations, of
  which only the constraints are used.

## 10. Running

    tlc -workers 2 -config StageWorker.cfg MCStageWorker
    tlapm StageWorkerProofs.tla   # PipelineProofs takes about two minutes

`PROJECT.json` lists each run with its module and configuration, the lines of code behind
every definition, the hazards and the defects (operators commented `DEFECT`) with which the
properties have been shown to fail.
