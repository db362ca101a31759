-------------------------------- MODULE Cdc --------------------------------
(* The CDC sink: src/kafka_service/cdc.py.  Deleting a chunk row puts a      *)
(* delete event into cater.public.chunks (Debezium, external); run_cdc_sync *)
(* collects the ids and deletes the points from every Qdrant collection;    *)
(* sweep_orphans compares a collection with the chunk table.  They run      *)
(* against the embed stage, which loads chunk rows and upserts points later. *)
(* A chunk id is a fresh uuid: a deleted chunk never comes back.            *)
EXTENDS Naturals, Sequences, FiniteSets

CONSTANTS
  Chunks,            \* chunk ids, which are the point ids
  Colls,             \* Qdrant collections that may be created
  CDC_DELETE_BATCH,  \* ids collected before a flush is forced
  Attempts,          \* attempts of _delete_with_retries
  MaxFaults          \* bound on crashes, failed deletes, truncates, sweeps

ASSUME BatchAssumption    == CDC_DELETE_BATCH \in Nat \ {0}
ASSUME AttemptsAssumption == Attempts \in Nat \ {0}

NoCache == {}

VARIABLES
  rows,       \* live rows of the chunk table
  gone,       \* deleted chunk ids
  log,        \* the topic: delete events as <<id>>, events without an id as <<>>
  committed,  \* the group's offset
  next,       \* read position of the consumer
  pending,    \* ids collected and not deleted yet
  sync,       \* where run_cdc_sync is
  closing,    \* it is in its finally block
  tries,      \* attempts of _delete_with_retries left
  colls,      \* existing collections
  cache,      \* the cached collection list (NoCache when there is none)
  points,     \* <<chunk, collection>> of the points in Qdrant
  embed,      \* embed[k]: collection an embed worker upserts k to, having loaded it
  sweep,      \* the sweep: its collection, and the ids of its batch
  missed,     \* points that a delete event may fail to reach: upserted after
              \*   the row went, in a collection the cache did not know, or
              \*   truncated (history variable)
  faults

vars == <<rows, gone, log, committed, next, pending, sync, closing, tries, colls, cache,
          points, embed, sweep, missed, faults>>

table    == <<rows, gone, log>>
consumer == <<committed, next, pending, sync, closing, tries, cache>>
others   == <<table, colls, embed, sweep>>

NoColl == "none"
Idle   == [at |-> "idle"]

TypeOK ==
  /\ rows \subseteq Chunks /\ gone \subseteq Chunks \ rows
  /\ log \in Seq({<<>>} \union {<<k>> : k \in Chunks})
  /\ next \in 0..Len(log) /\ committed \in 0..Len(log)
  /\ pending \in Seq(Chunks) /\ Len(pending) <= CDC_DELETE_BATCH
  /\ sync \in {"poll", "delete", "commit", "down"} /\ closing \in BOOLEAN
  /\ tries \in 1..Attempts
  /\ colls \subseteq Colls /\ cache \subseteq colls
  /\ points \subseteq Chunks \X colls
  /\ embed \in [Chunks -> Colls \union {NoColl}]
  /\ sweep.at \in {"idle", "scrolled", "checked"}
  /\ missed \subseteq Chunks \X Colls

Init ==
  /\ rows = {} /\ gone = {} /\ log = <<>>
  /\ committed = 0 /\ next = 0 /\ pending = <<>>
  /\ sync = "poll" /\ closing = FALSE /\ tries = Attempts
  /\ colls = {} /\ cache = NoCache
  /\ points = {} /\ missed = {}
  /\ embed = [k \in Chunks |-> NoColl]
  /\ sweep = Idle
  /\ faults = 0

Fault == faults < MaxFaults /\ faults' = faults + 1

------------------------------------------------------------------------------
(* The chunk table and its WAL. *)

SaveChunk(k) ==
  /\ k \notin rows \union gone
  /\ rows' = rows \union {k}
  /\ UNCHANGED <<gone, log, consumer, colls, points, embed, sweep, missed, faults>>

(* A row is deleted, alone or with its document. *)
DeleteChunk(k) ==
  /\ k \in rows
  /\ rows' = rows \ {k} /\ gone' = gone \union {k}
  /\ log' = Append(log, <<k>>)
  /\ UNCHANGED <<consumer, colls, points, embed, sweep, missed, faults>>

(* TRUNCATE carries no row ids. *)
Truncate ==
  /\ rows # {} /\ Fault
  /\ rows' = {} /\ gone' = gone \union rows
  /\ log' = Append(log, <<>>)
  /\ missed' = missed \union (rows \X Colls)
  /\ UNCHANGED <<consumer, colls, points, embed, sweep>>

------------------------------------------------------------------------------
(* index_document: ensure_collection, _load_chunks, the models, qc.upsert. *)

EmbedLoad(k, c) ==
  /\ embed[k] = NoColl /\ k \in rows
  /\ colls' = colls \union {c}
  /\ embed' = [embed EXCEPT ![k] = c]
  /\ UNCHANGED <<table, consumer, points, sweep, missed, faults>>

(* The rows may have been deleted since. *)
EmbedUpsert(k) ==
  /\ embed[k] # NoColl
  /\ points' = points \union {<<k, embed[k]>>}
  /\ missed' = IF k \in rows THEN missed ELSE missed \union {<<k, embed[k]>>}
  /\ embed' = [embed EXCEPT ![k] = NoColl]
  /\ UNCHANGED <<table, consumer, colls, sweep, faults>>

------------------------------------------------------------------------------
(* run_cdc_sync. *)

(* DEFECT: the offset moves as soon as a message is read. *)
PollCommitsFirst ==
  /\ sync = "poll" /\ next < Len(log) /\ Len(pending) < CDC_DELETE_BATCH
  /\ next' = next + 1 /\ committed' = next + 1
  /\ pending' = pending \o log[next + 1]
  /\ UNCHANGED <<others, sync, closing, tries, cache, points, missed, faults>>

(* A message: an event without an id (insert, update, truncate, tombstone,  *)
(* broken JSON) only moves the position.                                    *)
Poll ==
  /\ sync = "poll" /\ next < Len(log) /\ Len(pending) < CDC_DELETE_BATCH
  /\ next' = next + 1
  /\ pending' = pending \o log[next + 1]
  /\ UNCHANGED <<others, committed, sync, closing, tries, cache, points, missed, faults>>

FlushFrom ==
  /\ sync' = IF pending = <<>> THEN "commit" ELSE "delete"
  /\ tries' = Attempts
  /\ UNCHANGED <<others, committed, next, pending, cache, points, missed>>

(* DEFECT: a flush waits for a full batch, the deadline is not looked at. *)
FlushFullOnly ==
  /\ sync = "poll" /\ Len(pending) >= CDC_DELETE_BATCH
  /\ FlushFrom
  /\ UNCHANGED <<closing, faults>>

(* flush(), when the batch is full or the deadline has passed. *)
Flush ==
  /\ sync = "poll" /\ next > committed
  /\ FlushFrom
  /\ UNCHANGED <<closing, faults>>

(* The stop event: the finally block flushes once more. *)
Stop ==
  /\ sync = "poll" /\ Fault
  /\ closing' = TRUE
  /\ FlushFrom

(* _target_collections: the cached list while it is fresh. *)
Targets == IF cache = NoCache THEN {colls} ELSE {cache, colls}

Collected == {pending[i] : i \in DOMAIN pending}

(* _delete_points succeeds on all targets; flush goes on to the commit. *)
DeletePoints ==
  /\ sync = "delete"
  /\ \E targets \in Targets :
       /\ cache' = targets
       /\ points' = points \ (Collected \X targets)
       /\ missed' = missed \union (Collected \X (colls \ targets))
  /\ pending' = <<>> /\ sync' = "commit" /\ tries' = Attempts
  /\ UNCHANGED <<others, committed, next, closing, faults>>

(* The process is gone, and what it held in memory with it. *)
Down == /\ sync' = "down" /\ closing' = FALSE /\ tries' = Attempts
        /\ next' = committed' /\ pending' = <<>> /\ cache' = NoCache

(* A failure of flush: the finally block flushes again, and gives up at a   *)
(* second failure.                                                          *)
FlushFails(list) == IF closing THEN Down
                               ELSE /\ closing' = TRUE /\ tries' = Attempts
                                    /\ cache' = list
                                    /\ UNCHANGED <<sync, next, pending>>

(* A delete fails, with some of the collections done; the last failure is    *)
(* raised.                                                                  *)
DeleteFails ==
  /\ sync = "delete" /\ Fault
  /\ UNCHANGED committed
  /\ \E list \in {cache} \union Targets :
       /\ \E done \in SUBSET list : points' = points \ (Collected \X done)
       /\ IF tries > 1 THEN /\ tries' = tries - 1 /\ cache' = list
                            /\ UNCHANGED <<sync, closing, next, pending>>
                       ELSE FlushFails(list)
  /\ UNCHANGED <<others, missed>>

(* The commit of the last message's offset. *)
Commit ==
  /\ sync = "commit"
  /\ committed' = next
  /\ IF closing THEN Down
                ELSE sync' = "poll" /\ UNCHANGED <<closing, tries, next, pending, cache>>
  /\ UNCHANGED <<others, points, missed, faults>>

CommitFails ==
  /\ sync = "commit" /\ Fault
  /\ UNCHANGED committed
  /\ FlushFails(cache)
  /\ UNCHANGED <<others, points, missed>>

Crash ==
  /\ sync # "down" /\ Fault
  /\ UNCHANGED committed
  /\ Down
  /\ UNCHANGED <<others, points, missed>>

(* The supervisor starts a new process at the committed offset. *)
Restart ==
  /\ sync = "down"
  /\ sync' = "poll"
  /\ UNCHANGED <<others, committed, next, pending, closing, tries, cache, points,
                 missed, faults>>

------------------------------------------------------------------------------
(* sweep_orphans, one batch: scroll the ids, look them up in the table,     *)
(* delete those that are not there.                                         *)

SweepScroll(c) ==
  /\ sweep = Idle /\ c \in colls /\ Fault
  /\ sweep' = [at |-> "scrolled", c |-> c, ids |-> {k \in Chunks : <<k, c>> \in points}]
  /\ UNCHANGED <<table, consumer, colls, points, embed, missed>>

(* DEFECT: the ids of the table do not compare equal to those of Qdrant. *)
SweepLookUpMismatch ==
  /\ sweep.at = "scrolled"
  /\ sweep' = [sweep EXCEPT !.at = "checked"]
  /\ UNCHANGED <<table, consumer, colls, points, embed, missed, faults>>

(* existing_chunk_ids *)
SweepLookUp ==
  /\ sweep.at = "scrolled"
  /\ sweep' = [sweep EXCEPT !.at = "checked", !.ids = @ \ rows]
  /\ UNCHANGED <<table, consumer, colls, points, embed, missed, faults>>

SweepDelete ==
  /\ sweep.at = "checked"
  /\ points' = points \ (sweep.ids \X {sweep.c})
  /\ missed' = missed \ (sweep.ids \X {sweep.c})
  /\ sweep' = Idle
  /\ UNCHANGED <<table, consumer, colls, embed, faults>>

------------------------------------------------------------------------------
CdcStep == Poll \/ Flush \/ DeletePoints \/ Commit

Embedder == \E k \in Chunks : EmbedUpsert(k) \/ \E c \in Colls : EmbedLoad(k, c)

Quiet == sync = "poll" /\ committed = Len(log) /\ UNCHANGED vars

Next == \/ \E k \in Chunks : SaveChunk(k) \/ DeleteChunk(k)
        \/ Truncate \/ Embedder \/ CdcStep \/ Restart
        \/ DeleteFails \/ CommitFails \/ Stop \/ Crash
        \/ SweepLookUp \/ SweepDelete \/ \E c \in Colls : SweepScroll(c)
        \/ Quiet

Spec == Init /\ [][Next]_vars

(* The CDC process keeps running and is restarted when it dies. *)
FairSpec == Spec /\ WF_vars(CdcStep) /\ WF_vars(Restart)

------------------------------------------------------------------------------
Orphans == {q \in points : q[1] \in gone}

(* "Delete in Qdrant first, move the offset second - otherwise the delete is *)
(* lost": an orphaned point still has its delete event ahead of the offset,  *)
(* whatever crashed or failed between the two, or is one CDC cannot see:     *)
(* truncated, in a collection it did not know of, or upserted after the      *)
(* deletion of its chunk (also where the delete event happens to be ahead    *)
(* still).                                                                   *)
OrphansHaveAnEvent ==
  \A q \in Orphans :
    q \in missed \/ \E i \in (committed + 1)..Len(log) : log[i] = <<q[1]>>

(* Neither the CDC sink nor a sweep ever deletes the point of a live chunk,  *)
(* however their steps fall between those of save_chunks and embed.         *)
LivePointsStay ==
  [][\A q \in points \ points' : q[1] \notin rows]_vars

(* Qdrant catches up with the table through the log: every orphan that has  *)
(* an event goes away.                                                      *)
OrphansGoAway ==
  \A k \in Chunks : \A c \in Colls :
    <<k, c>> \in Orphans ~> (<<k, c>> \notin Orphans \/ <<k, c>> \in missed)
=============================================================================
