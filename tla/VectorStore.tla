----------------------------- MODULE VectorStore -----------------------------
(* embed's calls to Qdrant (embedder/qdrant.py, embedder/indexer.py) seen    *)
(* from the server: the collection is checked and then created by several    *)
(* workers, upserts are accepted (wait=False) and applied later, a forced    *)
(* reindex waits for its delete.                                            *)
EXTENDS Naturals, Sequences, FiniteSets

CONSTANTS
  Workers, NoWorker,
  Docs,
  Requests,   \* Requests[d]: the messages in the partition of d, "plain" or "forced"
  Batches,    \* upsert batches of a document
  MaxFaults   \* bound on crashes, rebalances and calls that raise

ASSUME WorkersAssumption == IsFiniteSet(Workers) /\ Workers # {} /\ NoWorker \notin Workers
ASSUME BatchesAssumption == Batches \in Nat \ {0} /\ MaxFaults \in Nat
ASSUME RequestsAssumption == Requests \in [Docs -> Seq({"plain", "forced"})]

VARIABLES
  exists,    \* the collection
  hasIndex,  \* its payload index on content_id
  wal,       \* accepted and not yet applied: [op, doc, batch, by]
  points,    \* applied: [doc, batch]
  queue,     \* queue[d]: chunks.ready of d from the committed offset on
  owner,     \* owner[d]: the worker that holds the partition of d
  pc,        \* pc[w]: the next call of the handler
  job,       \* job[w]: [doc, kind] of the message in hand
  batch,     \* batch[w]: the next batch
  status,    \* status[d]: content.status
  failed,    \* how many messages went to the DLQ
  torn,      \* documents of which a wipe was cut short (history variable)
  faults

vars == <<exists, hasIndex, wal, points, queue, owner, pc, job, batch, status,
          failed, torn, faults>>
server == <<exists, hasIndex, wal, points>>
rest   == <<queue, owner, job, status, failed, torn>>

Kinds == {"plain", "forced"}
NoJob == [doc |-> "none", kind |-> "plain"]
Ops   == [op : {"delete"}, doc : Docs, batch : {0}, by : Workers]
         \union [op : {"upsert"}, doc : Docs, batch : 1..Batches, by : Workers]

TypeOK ==
  /\ exists \in BOOLEAN /\ hasIndex \in BOOLEAN
  /\ wal \in Seq(Ops) /\ points \subseteq [doc : Docs, batch : 1..Batches]
  /\ queue \in [Docs -> Seq(Kinds)] /\ owner \in [Docs -> Workers \union {NoWorker}]
  /\ pc \in [Workers -> {"idle", "exists", "create", "index", "delete", "wait",
                         "upsert", "mark", "commit"}]
  /\ job \in [Workers -> [doc : Docs, kind : Kinds] \union {NoJob}]
  /\ batch \in [Workers -> 1..Batches + 1]
  /\ status \in [Docs -> {"chunked", "indexed"}]
  /\ failed \in Nat /\ torn \subseteq Docs /\ faults \in 0..MaxFaults

Init ==
  /\ exists = FALSE /\ hasIndex = FALSE /\ wal = <<>> /\ points = {}
  /\ queue = Requests /\ owner = [d \in Docs |-> NoWorker]
  /\ pc = [w \in Workers |-> "idle"] /\ job = [w \in Workers |-> NoJob]
  /\ batch = [w \in Workers |-> 1]
  /\ status = [d \in Docs |-> "chunked"]
  /\ failed = 0 /\ torn = {} /\ faults = 0

Fault == faults < MaxFaults /\ faults' = faults + 1
Goes(w, to) == pc' = [pc EXCEPT ![w] = to]
Owns(w) == owner[job[w].doc] = w

------------------------------------------------------------------------------
(* The worker around the handler. *)

(* The next message of a document, from a partition without a holder or, in  *)
(* a rebalance, from one that still works on it.                            *)
Take(w, d) ==
  /\ pc[w] = "idle" /\ queue[d] # <<>>
  /\ \/ owner[d] = NoWorker /\ UNCHANGED faults
     \/ owner[d] \notin {w, NoWorker} /\ Fault
  /\ owner' = [owner EXCEPT ![d] = w]
  /\ job' = [job EXCEPT ![w] = [doc |-> d, kind |-> Head(queue[d])]]
  /\ batch' = [batch EXCEPT ![w] = 1]
  /\ IF Head(queue[d]) = "plain" /\ status[d] = "indexed"
       THEN Goes(w, "commit")   \* skipped
       ELSE Goes(w, "exists")
  /\ UNCHANGED <<server, queue, status, failed, torn>>

Release(w) ==
  /\ Goes(w, "idle")
  /\ job' = [job EXCEPT ![w] = NoJob]
  /\ owner' = IF Owns(w) THEN [owner EXCEPT ![job[w].doc] = NoWorker] ELSE owner

(* The offset of a worker that lost the partition is refused. *)
Commit(w) ==
  /\ pc[w] = "commit"
  /\ queue' = IF Owns(w) THEN [queue EXCEPT ![job[w].doc] = Tail(@)] ELSE queue
  /\ Release(w)
  /\ UNCHANGED <<server, batch, status, failed, torn, faults>>

(* Has w asked for the deletion of the points and not put all of them back? *)
Wiping(w) == job[w].kind = "forced" /\ pc[w] \in {"wait", "upsert"}

(* One attempt: whatever a call raises sends the message to the DLQ. *)
ToDlq(w) ==
  /\ Goes(w, "commit")
  /\ failed' = failed + 1
  /\ torn' = IF Wiping(w) THEN torn \union {job[w].doc} ELSE torn
  /\ UNCHANGED <<queue, owner, job, batch, status>>

CallRaises(w) ==
  /\ pc[w] \notin {"idle", "commit"} /\ Fault /\ ToDlq(w)
  /\ UNCHANGED server

Crash(w) ==
  /\ pc[w] # "idle" /\ Fault /\ Release(w)
  /\ torn' = IF Wiping(w) THEN torn \union {job[w].doc} ELSE torn
  /\ UNCHANGED <<server, queue, batch, status, failed>>

------------------------------------------------------------------------------
(* ensure_collection *)

Work(w) == IF job[w].kind = "forced" THEN "delete" ELSE "upsert"

(* DEFECT: the collection is created without looking. *)
ExistsUnchecked(w) ==
  /\ pc[w] = "exists" /\ Goes(w, "create")
  /\ UNCHANGED <<server, rest, batch, faults>>

CollectionExists(w) ==
  /\ pc[w] = "exists"
  /\ Goes(w, IF exists THEN Work(w) ELSE "create")
  /\ UNCHANGED <<server, rest, batch, faults>>

CreateCollection(w) ==
  /\ pc[w] = "create" /\ ~exists
  /\ exists' = TRUE /\ Goes(w, "index")
  /\ UNCHANGED <<hasIndex, wal, points, rest, batch, faults>>

(* Another worker was faster: create_collection raises. *)
CreateConflicts(w) ==
  /\ pc[w] = "create" /\ exists /\ ToDlq(w)
  /\ UNCHANGED <<server, faults>>

CreatePayloadIndex(w) ==
  /\ pc[w] = "index"
  /\ hasIndex' = TRUE /\ Goes(w, Work(w))
  /\ UNCHANGED <<exists, wal, points, rest, batch, faults>>

------------------------------------------------------------------------------
(* index_document, reindex_document *)

Op(w, op, b) == [op |-> op, doc |-> job[w].doc, batch |-> b, by |-> w]

Delete(w) ==
  /\ pc[w] = "delete"
  /\ wal' = Append(wal, Op(w, "delete", 0)) /\ Goes(w, "wait")
  /\ torn' = torn \ {job[w].doc}   \* this wipe starts the document afresh
  /\ UNCHANGED <<exists, hasIndex, points, queue, owner, job, status, failed, batch, faults>>

(* wait=True: the answer comes when the delete has been applied. *)
DeleteDone(w) ==
  /\ pc[w] = "wait" /\ \A i \in DOMAIN wal : wal[i] # Op(w, "delete", 0)
  /\ Goes(w, "upsert")
  /\ UNCHANGED <<server, rest, batch, faults>>

(* DEFECT: the last batch is only sent when it is full (here: never). *)
UpsertNoTail(w) ==
  /\ pc[w] = "upsert"
  /\ IF batch[w] = Batches
       THEN Goes(w, "mark") /\ UNCHANGED <<wal, batch>>
       ELSE /\ wal' = Append(wal, Op(w, "upsert", batch[w]))
            /\ batch' = [batch EXCEPT ![w] = @ + 1]
            /\ UNCHANGED pc
  /\ UNCHANGED <<exists, hasIndex, points, rest, faults>>

(* wait=False: the batch is accepted. *)
Upsert(w) ==
  /\ pc[w] = "upsert"
  /\ wal' = Append(wal, Op(w, "upsert", batch[w]))
  /\ batch' = [batch EXCEPT ![w] = @ + 1]
  /\ Goes(w, IF batch[w] = Batches THEN "mark" ELSE "upsert")
  /\ UNCHANGED <<exists, hasIndex, points, rest, faults>>

(* set_status(INDEXED), and the `indexed` event behind it. *)
MarkIndexed(w) ==
  /\ pc[w] = "mark"
  /\ status' = [status EXCEPT ![job[w].doc] = "indexed"]
  /\ Goes(w, "commit")
  /\ UNCHANGED <<server, queue, owner, job, batch, failed, torn, faults>>

(* What an operation makes of the points. *)
Applied(o, ps) ==
  IF o.op = "upsert" THEN ps \union {[doc |-> o.doc, batch |-> o.batch]}
                     ELSE {p \in ps : p.doc # o.doc}

(* Qdrant works through its log in order. *)
Apply ==
  /\ wal # <<>>
  /\ points' = Applied(Head(wal), points) /\ wal' = Tail(wal)
  /\ UNCHANGED <<exists, hasIndex, rest, pc, batch, faults>>

------------------------------------------------------------------------------
Step(w) == \/ CollectionExists(w) \/ CreateCollection(w) \/ CreateConflicts(w)
           \/ CreatePayloadIndex(w) \/ Delete(w) \/ DeleteDone(w) \/ Upsert(w)
           \/ MarkIndexed(w) \/ Commit(w)

Done == /\ \A w \in Workers : pc[w] = "idle"
        /\ \A d \in Docs : queue[d] = <<>>
        /\ wal = <<>> /\ UNCHANGED vars

Next == \/ \E w \in Workers : \/ Step(w) \/ CallRaises(w) \/ Crash(w)
                              \/ \E d \in Docs : Take(w, d)
        \/ Apply \/ Done

Spec == Init /\ [][Next]_vars

(* Workers go on and take what is assigned to them; Qdrant applies its log. *)
FairSpec == /\ Spec /\ WF_vars(Apply)
            /\ \A w \in Workers : WF_vars(Step(w))
            /\ WF_vars(\E w \in Workers, d \in Docs : owner[d] = NoWorker /\ Take(w, d))

------------------------------------------------------------------------------
Whole(d, ps) == \A b \in 1..Batches : [doc |-> d, batch |-> b] \in ps

(* "A Qdrant upsert is keyed by chunk id, so repeating the stage overwrites  *)
(* the points": a document marked indexed is searchable as a whole sooner or *)
(* later, unless a forced reindex of it was torn.                           *)
IndexedBecomesSearchable ==
  \A d \in Docs : status[d] = "indexed" ~> (Whole(d, points) \/ d \in torn)

(* Creating the collection costs at most one message per worker that was not *)
(* the first; every other message in the DLQ has a fault of its own.         *)
RaceFailsOncePerWorker == failed <= (Cardinality(Workers) - 1) + faults

(* The collection lacks its payload index only while its creator works, or   *)
(* after a fault between the two calls: nobody else ever creates it.         *)
IndexMissingByFaultOnly ==
  exists /\ ~hasIndex => faults > 0 \/ \E w \in Workers : pc[w] = "index"
=============================================================================
