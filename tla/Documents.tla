------------------------------ MODULE Documents ------------------------------
(* The rows of one text: save_text in its transactions (storage.py), the     *)
(* schema that serialises them, and what chunk and embed make of a document  *)
(* that is deleted while they have it. READ COMMITTED: a statement sees what *)
(* is committed, an insert waits for the uncommitted row of the same key.    *)
EXTENDS Naturals, FiniteSets

CONSTANTS
  Workers,
  MaxRows,     \* ids that may be used
  MaxCalls,    \* bound on index requests for the text
  MaxFaults    \* bound on crashes, failing statements and deletions

ASSUME BoundsAssumption ==
  MaxRows \in Nat /\ MaxCalls \in 0..MaxRows /\ MaxFaults \in Nat

Ids == 1..MaxRows

VARIABLES
  splits,   \* the text splits into chunks; an empty one makes none
  row,      \* row[i]: "none", "uncommitted", "live", "deleted"
  text,     \* ids with a content_text row
  chunks,   \* ids with chunk rows
  indexed,  \* ids with status `indexed`
  fetched,  \* content.fetched
  ready,    \* chunks.ready
  said,     \* the `indexed` events: [id, found], found if there were chunks
  call,     \* call[w]: [at, id]
  result,   \* result[w]: of the last save_text of w
  calls, failed, deleted, faults

vars == <<splits, row, text, chunks, indexed, fetched, ready, said, call, result,
          calls, failed, deleted, faults>>
tables == <<splits, row, text, chunks, indexed>>
topics == <<fetched, ready, said>>
counters == <<calls, failed, deleted, faults>>

Idle == [at |-> "idle", id |-> 0]
Results == [how : {"none", "found", "new", "error"}, id : 0..MaxRows]
NoResult == [how |-> "none", id |-> 0]
Error    == [how |-> "error", id |-> 0]

Live == {i \in Ids : row[i] = "live"}

(* The foreign keys included: text, chunks and a status belong to a document.*)
TypeOK ==
  /\ splits \in BOOLEAN
  /\ row \in [Ids -> {"none", "uncommitted", "live", "deleted"}]
  /\ text \subseteq Live /\ chunks \subseteq Live /\ indexed \subseteq Live
  /\ fetched \subseteq Ids /\ ready \subseteq Ids
  /\ said \subseteq [id : Ids, found : BOOLEAN]
  /\ call \in [Workers -> [at : {"idle", "select", "insert", "again", "commit", "count",
                                 "load", "save", "mark", "chunks", "index", "empty"},
                           id : 0..MaxRows]]
  /\ result \in [Workers -> Results]
  /\ calls \in 0..MaxCalls /\ failed \in Nat
  /\ faults \in 0..MaxFaults /\ deleted \in 0..faults

Init ==
  /\ splits \in BOOLEAN
  /\ row = [i \in Ids |-> "none"] /\ text = {} /\ chunks = {} /\ indexed = {}
  /\ fetched = {} /\ ready = {} /\ said = {}
  /\ call = [w \in Workers |-> Idle] /\ result = [w \in Workers |-> NoResult]
  /\ calls = 0 /\ failed = 0 /\ deleted = 0 /\ faults = 0

Fault == faults < MaxFaults /\ faults' = faults + 1

Goes(w, at, i) == call' = [call EXCEPT ![w] = [at |-> at, id |-> i]]
At(w, at) == call[w].at = at

------------------------------------------------------------------------------
(* save_text *)

Fetch(w) ==
  /\ At(w, "idle") /\ calls < MaxCalls /\ calls' = calls + 1
  /\ Goes(w, "select", 0) /\ result' = [result EXCEPT ![w] = NoResult]
  /\ UNCHANGED <<tables, topics, failed, deleted, faults>>

Return(w, how, i) ==
  /\ result' = [result EXCEPT ![w] = [how |-> how, id |-> i]]
  /\ fetched' = fetched \union {i}
  /\ call' = [call EXCEPT ![w] = Idle]
  /\ UNCHANGED <<ready, said>>

Select(w) ==
  /\ At(w, "select")
  /\ IF Live # {} THEN \E i \in Live : Return(w, "found", i)
                  ELSE Goes(w, "insert", 0) /\ UNCHANGED <<topics, result>>
  /\ UNCHANGED <<tables, counters>>

(* The unique index on content_hash (a1b2c3d4e5f6) lets one row in, and makes *)
(* the others wait while it is uncommitted.                                 *)
KeyFree == Live = {} /\ \A i \in Ids : row[i] # "uncommitted"

(* db.flush() *)
Insert(w) ==
  /\ At(w, "insert") /\ KeyFree
  /\ \E i \in Ids :
       /\ row[i] = "none" /\ \A j \in 1..i - 1 : row[j] # "none"
       /\ row' = [row EXCEPT ![i] = "uncommitted"] /\ Goes(w, "commit", i)
  /\ UNCHANGED <<splits, text, chunks, indexed, topics, result, counters>>

Raise(w) == failed' = failed + 1 /\ call' = [call EXCEPT ![w] = Idle]

(* DEFECT: IntegrityError is not caught. *)
ConflictRaises(w) ==
  /\ At(w, "insert") /\ Live # {} /\ Raise(w)
  /\ result' = [result EXCEPT ![w] = Error]
  /\ UNCHANGED <<tables, topics, calls, deleted, faults>>

(* IntegrityError: rollback. *)
Conflict(w) ==
  /\ At(w, "insert") /\ Live # {} /\ Goes(w, "again", 0)
  /\ UNCHANGED <<tables, topics, result, counters>>

(* DEFECT: the second select claims the document as new. *)
SelectAgainNew(w) ==
  /\ At(w, "again") /\ Live # {}
  /\ \E i \in Live : Return(w, "new", i)
  /\ UNCHANGED <<tables, counters>>

(* The second select, in a transaction of its own; existing is None when the *)
(* document was deleted meanwhile, and str(existing.id) raises.              *)
SelectAgain(w) ==
  /\ At(w, "again")
  /\ IF Live # {}
       THEN (\E i \in Live : Return(w, "found", i)) /\ UNCHANGED counters
       ELSE /\ Raise(w) /\ result' = [result EXCEPT ![w] = Error]
            /\ UNCHANGED <<topics, calls, deleted, faults>>
  /\ UNCHANGED tables

(* content_text and the commit of both rows. *)
Commit(w) ==
  /\ At(w, "commit")
  /\ row' = [row EXCEPT ![call[w].id] = "live"] /\ text' = text \union {call[w].id}
  /\ Return(w, "new", call[w].id)
  /\ UNCHANGED <<splits, chunks, indexed, counters>>

------------------------------------------------------------------------------
(* handle_content_fetched, handle_chunks_ready *)

(* All messages of a document are in one partition: a second worker handles  *)
(* one of them only after a rebalance.                                      *)
Turn(stage, i) ==
  IF \A w \in Workers : call[w].at \in stage => call[w].id # i
    THEN UNCHANGED faults ELSE Fault

ChunkStage == {"count", "load", "save", "mark"}
EmbedStage == {"chunks", "index", "empty"}

Chunk(w) ==
  /\ At(w, "idle")
  /\ \E i \in fetched :
       /\ fetched' = fetched \ {i} /\ Turn(ChunkStage, i)
       /\ IF i \in Live /\ i \in indexed
            THEN UNCHANGED call    \* skipped
            ELSE Goes(w, "count", i)
  /\ UNCHANGED <<tables, ready, said, result, calls, failed, deleted>>

(* The emits of chunk: the message goes on. *)
PassOn(w) == /\ ready' = ready \union {call[w].id}
             /\ call' = [call EXCEPT ![w] = Idle]

CountChunks(w) ==
  /\ At(w, "count")
  /\ IF call[w].id \in chunks THEN PassOn(w)
                              ELSE Goes(w, "load", call[w].id) /\ UNCHANGED ready
  /\ UNCHANGED <<tables, fetched, said, result, counters>>

(* load_text: None.text raises for a document without a text. *)
LoadText(w) ==
  /\ At(w, "load")
  /\ IF call[w].id \in text THEN Goes(w, "save", call[w].id) /\ UNCHANGED failed
                            ELSE Raise(w)
  /\ UNCHANGED <<tables, topics, result, calls, deleted, faults>>

(* DEFECT: the transaction of save_chunks is not committed. *)
SaveChunksOpen(w) ==
  /\ At(w, "save") /\ Goes(w, "mark", call[w].id)
  /\ UNCHANGED <<tables, topics, result, counters>>

(* save_chunks: the foreign key, or uq_chunks_content_index when another     *)
(* worker was faster; without chunks nothing is inserted.                   *)
SaveChunks(w) ==
  /\ At(w, "save")
  /\ IF splits /\ call[w].id \notin Live \ chunks
       THEN Raise(w) /\ UNCHANGED chunks
       ELSE /\ chunks' = IF splits THEN chunks \union {call[w].id} ELSE chunks
            /\ Goes(w, "mark", call[w].id) /\ UNCHANGED failed
  /\ UNCHANGED <<splits, row, text, indexed, topics, result, calls, deleted, faults>>

(* set_status(CHUNKED), whatever the status was. *)
MarkChunked(w) ==
  /\ At(w, "mark")
  /\ indexed' = indexed \ {call[w].id} /\ PassOn(w)
  /\ UNCHANGED <<splits, row, text, chunks, fetched, said, result, counters>>

Embed(w) ==
  /\ At(w, "idle")
  /\ \E i \in ready :
       /\ ready' = ready \ {i} /\ Turn(EmbedStage, i)
       /\ IF i \in Live /\ i \in indexed
            THEN UNCHANGED call    \* skipped
            ELSE Goes(w, "chunks", i)
  /\ UNCHANGED <<tables, fetched, said, result, calls, failed, deleted>>

(* _load_chunks: without chunks index_document returns 0. *)
LoadChunks(w) ==
  /\ At(w, "chunks")
  /\ Goes(w, IF call[w].id \in chunks THEN "index" ELSE "empty", call[w].id)
  /\ UNCHANGED <<tables, topics, result, counters>>

(* set_status updates the row if there is one; the event is sent in any case.*)
MarkIndexed(w) ==
  /\ At(w, "index") \/ At(w, "empty")
  /\ indexed' = indexed \union ({call[w].id} \intersect Live)
  /\ said' = said \union {[id |-> call[w].id, found |-> At(w, "index")]}
  /\ call' = [call EXCEPT ![w] = Idle]
  /\ UNCHANGED <<splits, row, text, chunks, fetched, ready, result, counters>>

------------------------------------------------------------------------------
(* A worker dies, or a statement of it fails: the transaction is rolled back *)
(* and the message of chunk or embed comes again.                           *)
Crash(w) ==
  /\ ~At(w, "idle") /\ Fault
  /\ row' = [i \in Ids |-> IF i = call[w].id /\ row[i] = "uncommitted" THEN "none" ELSE row[i]]
  /\ fetched' = IF call[w].at \in ChunkStage
                  THEN fetched \union {call[w].id} ELSE fetched
  /\ ready' = IF call[w].at \in EmbedStage
                THEN ready \union {call[w].id} ELSE ready
  /\ result' = IF call[w].at \in {"select", "insert", "again", "commit"}
                 THEN [result EXCEPT ![w] = Error] ELSE result
  /\ call' = [call EXCEPT ![w] = Idle]
  /\ UNCHANGED <<splits, text, chunks, indexed, said, calls, failed, deleted>>

(* Somebody deletes the document; content_text and chunks go with it. *)
Delete(i) ==
  /\ i \in Live /\ Fault /\ deleted' = deleted + 1
  /\ row' = [row EXCEPT ![i] = "deleted"]
  /\ text' = text \ {i} /\ chunks' = chunks \ {i} /\ indexed' = indexed \ {i}
  /\ UNCHANGED <<splits, topics, call, result, calls, failed>>

SaveStep(w) == \/ Select(w) \/ Insert(w) \/ Conflict(w) \/ SelectAgain(w) \/ Commit(w)
Step(w) == \/ SaveStep(w) \/ CountChunks(w) \/ LoadText(w) \/ SaveChunks(w) \/ MarkChunked(w)
           \/ LoadChunks(w) \/ MarkIndexed(w)

Next == \/ \E w \in Workers : Fetch(w) \/ Chunk(w) \/ Embed(w) \/ Step(w) \/ Crash(w)
        \/ \E i \in Ids : Delete(i)

Spec == Init /\ [][Next]_vars

------------------------------------------------------------------------------
(* save_text is atomic: concurrent calls for a text, crashes and deletions   *)
(* included, return what calls one after the other would have returned.      *)
Promise == INSTANCE AtomicSave WITH
  doc  <- IF Live = {} THEN 0 ELSE CHOOSE i \in Live : TRUE,
  used <- {i \in Ids : row[i] \in {"live", "deleted"}}

SaveTextIsAtomic == Promise!Spec

(* "deduplicated by content_hash": two workers that find no document do not  *)
(* make two.                                                                *)
OneDocumentPerText == Cardinality({i \in Ids : row[i] \in {"uncommitted", "live"}}) <= 1

(* A document that can be found has its text: a worker that gets the id from *)
(* somebody else's call can load it at once.                                *)
DocumentHasText == Live \subseteq text

(* Nothing fails by itself: the loser of an insert returns the winner's      *)
(* document, and chunk finds the text of every document it is told of. It    *)
(* takes a deletion or a second worker on the same document.                 *)
FailsByFaultOnly == failed > 0 => faults > 0

(* "indexed - the document is in Qdrant": whoever says so has seen chunks of *)
(* the document, unless its text is empty (index_document returns 0 and the  *)
(* event is sent) or it was deleted after chunk had passed it on.            *)
IndexedHasPoints == \A e \in said : e.found \/ ~splits \/ row[e.id] = "deleted"
=============================================================================
