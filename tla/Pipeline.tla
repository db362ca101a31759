------------------------------ MODULE Pipeline ------------------------------
(* The indexing pipeline: the handlers of src/kafka_service/stages.py with  *)
(* the storage.py and embedder/indexer.py calls they make, composed by the   *)
(* topics index.requests -> content.fetched -> chunks.ready.  A handler is   *)
(* split at its database and Qdrant calls; the worker around it is the one  *)
(* of StageWorker seen from outside: outcome published, then offset          *)
(* committed, a crash or a rebalance possible at any point.                  *)
EXTENDS Naturals, Sequences

CONSTANTS
  Requests,     \* submitted indexing requests
  Urls, Docs, Colls,
  UrlOf,        \* UrlOf[r]: the request's url, the key in index.requests
  DocOf,        \* DocOf[r]: the document with the text at that url; documents
                \*   are deduplicated by content_hash, so two urls may share one
  CollOf,       \* CollOf[r]: the request's collection (or the default one)
  ForceOf,      \* ForceOf[r]: the request's force flag
  BatchesOf,    \* BatchesOf[d]: upsert batches of its chunks, 0 for empty text
  Workers,      \* worker processes <<stage, number>>
  MaxAttempts,  \* MaxAttempts[s]: Stage.max_attempts
  MaxFaults,    \* bounds: MaxFaults["takeover"] on rebalances, MaxFaults["stop"]
                \*   on crashes and raised exceptions
  MaxReplays    \* bound on DLQ replays

Stages == {"fetch", "chunk", "embed"}
FaultKinds == {"takeover", "stop"}

ASSUME RequestsAssumption ==
  /\ UrlOf \in [Requests -> Urls] /\ DocOf \in [Requests -> Docs]
  /\ CollOf \in [Requests -> Colls] /\ ForceOf \in [Requests -> BOOLEAN]
  /\ BatchesOf \in [Docs -> Nat]
ASSUME WorkersAssumption ==
  /\ Workers \subseteq Stages \X Nat
  /\ MaxAttempts \in [Stages -> Nat \ {0}] /\ MaxFaults \in [FaultKinds -> Nat]

NextStage == [fetch |-> "chunk", chunk |-> "embed"]

(* One partition per key; the partitioner may merge keys, which only orders *)
(* more.                                                                     *)
Partitions == ({"fetch"} \X Urls) \union ({"chunk", "embed"} \X Docs)
Key(s, r)  == IF s = "fetch" THEN UrlOf[r] ELSE DocOf[r]

NoWorker == <<"none", 0>>

Idle == [at |-> "idle"]

VARIABLES
  queue,      \* queue[p]: the uncommitted messages of partition p, as requests
  owner,      \* owner[p]: the worker that holds p while its head is processed
  job,        \* job[w]: the message worker w processes and where it is in it
  status,     \* status[d]: content.status, "none" when there is no row
  chunks,     \* chunks[d]: upsert batches worth of chunk rows of d
  accepted,   \* <<d, c, b>>: Qdrant has accepted the upsert of batch b of d into
              \*   collection c and no deletion of d after it; wait=False, so the
              \*   batch can be found once Qdrant has applied its log (VectorStore)
  submitted,  \* requests put into index.requests
  events,     \* events[r]: <<stage, status>> pairs published to index.events
  dlq,        \* <<stage, r>>: index.dlq records not replayed yet
  raced,      \* partitions whose head was taken over while it was processed
  unmarked,   \* documents whose chunk attempt stopped between save_chunks and
              \*   set_status; read by properties only, like raced
  faults, replays

vars == <<queue, owner, job, status, chunks, accepted, submitted, events, dlq,
          raced, unmarked, faults, replays>>

bus    == <<queue, events, dlq>>
store  == <<status, chunks, accepted>>
budget == <<raced, unmarked, faults, replays>>

Rank == [none |-> 0, fetched |-> 1, chunked |-> 2, indexed |-> 3]

Results == {"next", "skipped", "indexed", "failed"}
Points  == {"save_text", "check", "count", "save_chunks", "wipe", "upsert",
            "mark", "publish", "commit"}
Jobs(w) == [at : Points, req : Requests, try : 1..MaxAttempts[w[1]], batch : Nat,
            result : Results \union {"none"}]

TypeOK ==
  /\ queue     \in [Partitions -> Seq(Requests)]
  /\ owner     \in [Partitions -> Workers \union {NoWorker}]
  /\ DOMAIN job = Workers
  /\ \A w \in Workers : job[w] \in Jobs(w) \union {Idle}
  /\ status    \in [Docs -> DOMAIN Rank]
  /\ chunks    \in [Docs -> Nat]
  /\ accepted  \subseteq Docs \X Colls \X Nat
  /\ submitted \subseteq Requests
  /\ events    \in [Requests -> SUBSET (Stages \X (DOMAIN Rank \union Results))]
  /\ dlq       \subseteq Stages \X Requests
  /\ raced     \subseteq Partitions
  /\ unmarked  \subseteq Docs
  /\ faults    \in [FaultKinds -> Nat]

Init ==
  /\ queue  = [p \in Partitions |-> <<>>]
  /\ owner  = [p \in Partitions |-> NoWorker]
  /\ job    = [w \in Workers |-> Idle]
  /\ status = [d \in Docs |-> "none"]
  /\ chunks = [d \in Docs |-> 0]
  /\ accepted = {} /\ submitted = {} /\ dlq = {}
  /\ raced = {} /\ unmarked = {}
  /\ events = [r \in Requests |-> {}]
  /\ faults = [k \in FaultKinds |-> 0] /\ replays = 0

Fault(kind) == /\ faults[kind] < MaxFaults[kind]
               /\ faults' = [faults EXCEPT ![kind] = @ + 1]
               /\ UNCHANGED replays

Busy(w)   == job[w] # Idle
Part(w)   == <<w[1], Key(w[1], job[w].req)>>
Doc(w)    == DocOf[job[w].req]
Coll(w)   == CollOf[job[w].req]
Forced(w) == ForceOf[job[w].req]
Zombie(w) == Busy(w) /\ owner[Part(w)] # w

At(w, stage, point) == w[1] = stage /\ job[w].at = point
(* A worker has saved the chunks of d and not yet set its status.           *)
Marking(d) == \E w \in Workers : Busy(w) /\ At(w, "chunk", "mark") /\ Doc(w) = d

Goto(w, point)      == job' = [job EXCEPT ![w].at = point]
Finish(w, result)   == job' = [job EXCEPT ![w].at = "publish", ![w].result = result]

Entry(stage) == IF stage = "fetch" THEN "save_text" ELSE "check"

------------------------------------------------------------------------------
(* The worker around the handlers. *)

(* Idle workers of a stage are alike, the first of them takes the message.  *)
Start(w, p) ==
  /\ \A v \in Workers : v[1] = w[1] /\ v[2] < w[2] => Busy(v)
  /\ job' = [job EXCEPT ![w] = [at |-> Entry(w[1]), req |-> Head(queue[p]),
                                try |-> 1, batch |-> 0, result |-> "none"]]
  /\ owner' = [owner EXCEPT ![p] = w]
  /\ UNCHANGED <<bus, store, submitted>>

Take(w) ==
  /\ ~Busy(w)
  /\ \E p \in Partitions : /\ p[1] = w[1] /\ queue[p] # <<>>
                           /\ owner[p] = NoWorker
                           /\ Start(w, p)
  /\ UNCHANGED budget

(* A rebalance while the head of p is being processed: both workers now     *)
(* process it.                                                              *)
TakeOver(w) ==
  /\ ~Busy(w)
  /\ \E p \in Partitions : /\ p[1] = w[1] /\ queue[p] # <<>>
                           /\ owner[p] \notin {NoWorker, w}
                           /\ Start(w, p)
                           /\ raced' = raced \union {p}
  /\ Fault("takeover")
  /\ UNCHANGED unmarked

(* DEFECT: one attempt too many. *)
RaiseOffByOne(w) ==
  IF job[w].try <= MaxAttempts[w[1]]
    THEN job' = [job EXCEPT ![w].at = Entry(w[1]), ![w].try = @ + 1, ![w].batch = 0]
    ELSE Finish(w, "failed")

(* DEFECT: a message that cannot be handled is dropped, not sent to the DLQ. *)
RaiseDropped(w) ==
  IF job[w].try < MaxAttempts[w[1]]
    THEN job' = [job EXCEPT ![w].at = Entry(w[1]), ![w].try = @ + 1, ![w].batch = 0]
    ELSE Goto(w, "commit")

(* _handle_with_retries: from the top again, or the DLQ. *)
Raise(w) ==
  IF job[w].try < MaxAttempts[w[1]]
    THEN job' = [job EXCEPT ![w].at = Entry(w[1]), ![w].try = @ + 1, ![w].batch = 0]
    ELSE Finish(w, "failed")

(* What w leaves behind when its attempt stops where it is.                 *)
Unmark(w) == unmarked' = IF At(w, "chunk", "mark") THEN unmarked \union {Doc(w)} ELSE unmarked

HandlerRaises(w) ==
  /\ Busy(w) /\ job[w].at \notin {"publish", "commit"}
  /\ Raise(w)
  /\ Unmark(w)
  /\ Fault("stop")
  /\ UNCHANGED <<bus, owner, store, submitted, raced>>

Word(stage, result) ==
  IF result = "next" THEN IF stage = "fetch" THEN "fetched" ELSE "chunked"
                     ELSE result

(* DEFECT: _to_dlq without the failed event. *)
PublishNoFailedEvent(w) ==
  /\ job[w].at = "publish"
  /\ LET s == w[1]
         r == job[w].req
         result == job[w].result
     IN /\ events' = IF result = "failed" THEN events
                      ELSE [events EXCEPT ![r] = @ \union {<<s, Word(s, result)>>}]
        /\ queue' = IF result = "next"
                      THEN [queue EXCEPT ![<<NextStage[s], DocOf[r]>>] = Append(@, r)]
                      ELSE queue
        /\ dlq' = IF result = "failed" THEN dlq \union {<<s, r>>} ELSE dlq
  /\ Goto(w, "commit")
  /\ UNCHANGED <<owner, store, submitted, budget>>

(* The emits of the result are on the broker. *)
Publish(w) ==
  /\ job[w].at = "publish"
  /\ LET s == w[1]
         r == job[w].req
         result == job[w].result
     IN /\ events' = [events EXCEPT ![r] = @ \union {<<s, Word(s, result)>>}]
        /\ queue' = IF result = "next"
                      THEN [queue EXCEPT ![<<NextStage[s], DocOf[r]>>] = Append(@, r)]
                      ELSE queue
        /\ dlq' = IF result = "failed" THEN dlq \union {<<s, r>>} ELSE dlq
  /\ Goto(w, "commit")
  /\ UNCHANGED <<owner, store, submitted, budget>>

(* The commit; a worker that lost the partition dies of it and is restarted. *)
Commit(w) ==
  /\ job[w].at = "commit"
  /\ IF Zombie(w)
       THEN UNCHANGED <<queue, owner>>
       ELSE /\ queue' = [queue EXCEPT ![Part(w)] = Tail(@)]
            /\ owner' = [owner EXCEPT ![Part(w)] = NoWorker]
  /\ job' = [job EXCEPT ![w] = Idle]
  /\ UNCHANGED <<events, dlq, store, submitted, budget>>

Crash(w) ==
  /\ Busy(w)
  /\ job' = [job EXCEPT ![w] = Idle]
  /\ owner' = IF Zombie(w) THEN owner ELSE [owner EXCEPT ![Part(w)] = NoWorker]
  /\ Unmark(w)
  /\ Fault("stop")
  /\ UNCHANGED <<bus, store, submitted, raced>>

------------------------------------------------------------------------------
(* fetch: handle_index_request. *)

(* save_text, one transaction: the row with this content_hash, or a new one *)
(* with status 'fetched'.  A loser of the insert race reads the winner's.   *)
SaveText(w) ==
  /\ At(w, "fetch", "save_text")
  /\ status' = [status EXCEPT ![Doc(w)] = IF @ = "none" THEN "fetched" ELSE @]
  /\ Finish(w, "next")
  /\ UNCHANGED <<bus, owner, chunks, accepted, submitted, budget>>

(* DEFECT: a document that has chunks counts as indexed. *)
CheckChunkedIsEnough(w) ==
  /\ job[w].at = "check"
  /\ IF ~Forced(w) /\ status[Doc(w)] \in {"chunked", "indexed"} /\ w[1] = "chunk"
       THEN Finish(w, "skipped")
       ELSE Goto(w, IF w[1] = "chunk" THEN "count" ELSE IF Forced(w) THEN "wipe" ELSE "upsert")
  /\ UNCHANGED <<bus, owner, store, submitted, budget>>

(* The first step of chunk and embed: an indexed document is skipped unless *)
(* force is set.                                                            *)
Check(w) ==
  /\ job[w].at = "check"
  /\ IF ~Forced(w) /\ status[Doc(w)] = "indexed"
       THEN Finish(w, "skipped")
       ELSE Goto(w, IF w[1] = "chunk" THEN "count" ELSE IF Forced(w) THEN "wipe" ELSE "upsert")
  /\ UNCHANGED <<bus, owner, store, submitted, budget>>

------------------------------------------------------------------------------
(* chunk: handle_content_fetched. *)

(* DEFECT: is_new = False is taken to mean that the chunks exist. *)
CountChunksTrustsRow(w) ==
  /\ At(w, "chunk", "count")
  /\ IF status[Doc(w)] # "none" THEN Finish(w, "next") ELSE Goto(w, "save_chunks")
  /\ UNCHANGED <<bus, owner, store, submitted, budget>>

(* DEFECT: set_status(CHUNKED) on the reuse path too. *)
CountChunksThenMark(w) ==
  /\ At(w, "chunk", "count")
  /\ Goto(w, IF chunks[Doc(w)] > 0 THEN "mark" ELSE "save_chunks")
  /\ UNCHANGED <<bus, owner, store, submitted, budget>>

(* Existing chunks are reused, and the status is left alone. *)
CountChunks(w) ==
  /\ At(w, "chunk", "count")
  /\ IF chunks[Doc(w)] > 0 THEN Finish(w, "next") ELSE Goto(w, "save_chunks")
  /\ UNCHANGED <<bus, owner, store, submitted, budget>>

(* save_chunks, one transaction; uq_chunks_content_index rejects a second   *)
(* set of rows.                                                             *)
SaveChunks(w) ==
  /\ At(w, "chunk", "save_chunks")
  /\ IF chunks[Doc(w)] > 0
       THEN Raise(w) /\ UNCHANGED chunks
       ELSE /\ chunks' = [chunks EXCEPT ![Doc(w)] = BatchesOf[Doc(w)]]
            /\ Goto(w, "mark")
  /\ UNCHANGED <<bus, owner, status, accepted, submitted, budget>>

MarkChunked(w) ==
  /\ At(w, "chunk", "mark")
  /\ status' = [status EXCEPT ![Doc(w)] = "chunked"]
  /\ Finish(w, "next")
  /\ UNCHANGED <<bus, owner, chunks, accepted, submitted, budget>>

------------------------------------------------------------------------------
(* embed: handle_chunks_ready. *)

(* reindex_document first deletes the document's points in the collection.  *)
Wipe(w) ==
  /\ At(w, "embed", "wipe")
  /\ accepted' = {q \in accepted : ~(q[1] = Doc(w) /\ q[2] = Coll(w))}
  /\ Goto(w, "upsert")
  /\ UNCHANGED <<bus, owner, status, chunks, submitted, budget>>

(* DEFECT: the last, partial batch is not upserted. *)
UpsertNoTail(w) ==
  /\ At(w, "embed", "upsert")
  /\ LET b == job[w].batch + 1
     IN IF b >= chunks[Doc(w)]
          THEN Goto(w, "mark") /\ UNCHANGED accepted
          ELSE /\ accepted' = accepted \union {<<Doc(w), Coll(w), b>>}
               /\ job' = [job EXCEPT ![w].batch = b]
  /\ UNCHANGED <<bus, owner, status, chunks, submitted, budget>>

(* index_document: one upsert per batch of chunks, none for no chunks. *)
Upsert(w) ==
  /\ At(w, "embed", "upsert")
  /\ IF chunks[Doc(w)] = 0
       THEN Goto(w, "mark") /\ UNCHANGED accepted
       ELSE LET b == job[w].batch + 1
            IN /\ accepted' = accepted \union {<<Doc(w), Coll(w), b>>}
               /\ job' = [job EXCEPT ![w].batch = b,
                            ![w].at = IF b = chunks[Doc(w)] THEN "mark" ELSE @]
  /\ UNCHANGED <<bus, owner, status, chunks, submitted, budget>>

MarkIndexed(w) ==
  /\ At(w, "embed", "mark")
  /\ status' = [status EXCEPT ![Doc(w)] = "indexed"]
  /\ Finish(w, "indexed")
  /\ UNCHANGED <<bus, owner, chunks, accepted, submitted, budget>>

------------------------------------------------------------------------------
(* The ends of the pipeline: POST /index (or the CLI) and the DLQ replay. *)

Submit(r) ==
  /\ r \notin submitted
  /\ submitted' = submitted \union {r}
  /\ queue' = [queue EXCEPT ![<<"fetch", UrlOf[r]>>] = Append(@, r)]
  /\ UNCHANGED <<owner, job, store, events, dlq, budget>>

(* _replay: back to the topic the message failed on, then the commit of the *)
(* DLQ record, which a crash may prevent.                                   *)
Replay(e) ==
  /\ e \in dlq
  /\ replays < MaxReplays /\ replays' = replays + 1
  /\ queue' = [queue EXCEPT ![<<e[1], Key(e[1], e[2])>>] = Append(@, e[2])]
  /\ dlq' \in {dlq, dlq \ {e}}
  /\ UNCHANGED <<owner, job, store, submitted, events, raced, unmarked,
                 faults>>

------------------------------------------------------------------------------
Handler(w) == \/ SaveText(w) \/ Check(w) \/ CountChunks(w) \/ SaveChunks(w)
              \/ MarkChunked(w) \/ Wipe(w) \/ Upsert(w) \/ MarkIndexed(w)

Advance(w) == Handler(w) \/ Publish(w) \/ Commit(w)

Done == /\ submitted = Requests
        /\ \A w \in Workers : ~Busy(w)
        /\ \A p \in Partitions : queue[p] = <<>>

(* Nothing is left to do: the workers poll empty topics. *)
Quiet == Done /\ UNCHANGED vars

Next == \/ \E w \in Workers : \/ Take(w) \/ Advance(w) \/ TakeOver(w)
                              \/ HandlerRaises(w) \/ Crash(w)
        \/ \E r \in Requests : Submit(r)
        \/ \E e \in dlq : Replay(e)
        \/ Quiet

Spec == Init /\ [][Next]_vars

(* A worker process keeps polling and processing.  Neither clients, nor     *)
(* operators who replay, nor faults are fair.                               *)
FairSpec == Spec /\ \A w \in Workers : WF_vars(Advance(w) \/ Take(w))

------------------------------------------------------------------------------
(* Properties. *)

Final == {"indexed", "skipped", "failed"}
Ended(r) == \E e \in events[r] : e[2] \in Final
InQueue(r, p) == \E i \in DOMAIN queue[p] : queue[p][i] = r
Says(r, word) == \E e \in events[r] : e[2] = word
AllAccepted(d, c) == \A b \in 1..BatchesOf[d] : <<d, c, b>> \in accepted

(* No submitted request ever disappears: it waits in a topic, or its status *)
(* stream has ended (and stays ended while a replay is under way).  Every   *)
(* outcome reaches the broker here; what a refused one costs is             *)
(* StageWorker's NoLostWork.                                                *)
RequestsConserved ==
  \A r \in submitted :
    Ended(r) \/ \E p \in Partitions : InQueue(r, p)

(* A status event is published only after the database reached that state:  *)
(* whoever reads "fetched" finds the row, whoever reads "chunked" finds the *)
(* chunks, and content.status as far, except while a worker is between       *)
(* save_chunks and set_status with the document and where an attempt stopped *)
(* there: the retry reuses the chunks and does not set it (stages.py:159).   *)
EventsFollowStore ==
  \A r \in Requests :
    LET d == DocOf[r]
    IN /\ Says(r, "fetched") => status[d] # "none"
       /\ Says(r, "chunked") =>
            /\ chunks[d] = BatchesOf[d]
            /\ Rank[status[d]] >= Rank["chunked"] \/ Marking(d) \/ d \in unmarked

(* "GET /index/{doc_id} via storage.load_content_status and the WS never    *)
(* disagree" (kafka_service/README.md:154-156): once nobody works on a       *)
(* document any more, its status is as far as the events of its requests.    *)
StatusesAgree ==
  \A r \in Requests :
    LET d == DocOf[r]
    IN /\ Says(r, "chunked")
       /\ ~ \E w \in Workers : Busy(w) /\ Doc(w) = d
       => Rank[status[d]] >= Rank["chunked"]

OneCollection(d) == \A q, r \in Requests : DocOf[q] = d /\ DocOf[r] = d => CollOf[q] = CollOf[r]

(* A forced request will delete, or has deleted, the points of d in c and   *)
(* may yet be put in their place: its message waits or is processed in       *)
(* embed, or lies in the DLQ, or two workers have held one of the partition. *)
Reindexing(d, c) ==
  \E q \in submitted :
    /\ DocOf[q] = d /\ CollOf[q] = c /\ ForceOf[q]
    /\ \/ <<"embed", q>> \in dlq \/ <<"embed", d>> \in raced
       \/ InQueue(q, <<"embed", d>>)

(* "indexed - the document is in Qdrant" (events.py), as far as the stages   *)
(* can make it true: all batches of the document are accepted for the        *)
(* collection of every request reported indexed, whatever crashed, was taken *)
(* over or retried, unless a forced request is at it again; and they are all *)
(* there once that request is through, a crash between its deletion and its  *)
(* upserts included.                                                          *)
IndexedIsAccepted ==
  \A r \in Requests :
    LET d == DocOf[r] IN
    Says(r, "indexed") => AllAccepted(d, CollOf[r]) \/ Reindexing(d, CollOf[r])

(* "skipped - it was already indexed": all batches are accepted for the      *)
(* request's collection, too, if its document goes to that one only.         *)
SkippedWasAccepted ==
  \A r \in Requests :
    LET d == DocOf[r] IN
    Says(r, "skipped") /\ OneCollection(d)
      => AllAccepted(d, CollOf[r]) \/ Reindexing(d, CollOf[r])

(* content.status moves back only if two workers had the document's chunk    *)
(* message at the same time (one saves the chunks, the other reuses them     *)
(* and runs ahead), or for a text without chunks.                            *)
StatusRegressesByRaceOnly ==
  [][\A d \in Docs : Rank[status'[d]] < Rank[status[d]] =>
       BatchesOf[d] = 0 \/ <<"chunk", d>> \in raced]_vars

(* Every request reaches a terminal status event: over and over all that    *)
(* have been submitted have one, and an event is never taken back.           *)
EveryRequestEnds == []<>(\A r \in submitted : Ended(r))
=============================================================================
