-------------------------- MODULE DocumentsProofs --------------------------
(* Theorems about Documents, for every number of workers, rows, calls and   *)
(* faults.                                                                  *)
EXTENDS Documents, FiniteSetTheorems, TLAPS

USE BoundsAssumption

Committed == {"live", "deleted"}

(* The unique index: one row holds the key, committed or not. *)
OneRow ==
  \A i, j \in Ids : row[i] \in {"uncommitted", "live"} /\ row[j] \in {"uncommitted", "live"} => i = j

(* The row a worker is about to commit is its own, and every id that has    *)
(* left a transaction is the id of a committed row.                         *)
IdsInHand ==
  /\ \A w \in Workers : call[w].at \in {"idle", "select", "insert", "again"} => call[w].id = 0
  /\ \A w \in Workers : At(w, "commit") =>
       call[w].id \in Ids /\ row[call[w].id] = "uncommitted"
  /\ \A v, w \in Workers : At(v, "commit") /\ At(w, "commit") => v = w
  /\ \A w \in Workers : call[w].at \in ChunkStage \union EmbedStage =>
       call[w].id \in Ids /\ row[call[w].id] \in Committed
  /\ \A i \in fetched \union ready : row[i] \in Committed

(* A call that has not returned has no result. *)
NoEarlyResult ==
  \A w \in Workers : call[w].at \in {"select", "insert", "again", "commit"} => result[w] = NoResult

(* What keeps every call from failing as long as nothing has gone wrong:    *)
(* no document is deleted, and one worker at most chunks a document.        *)
FaultFree ==
  faults = 0 =>
    /\ failed = 0
    /\ \A i \in Ids : row[i] # "deleted"
    /\ \A w \in Workers : At(w, "again") => Live # {}
    /\ \A w \in Workers : call[w].at \in {"load", "save"} => call[w].id \notin chunks
    /\ \A v, w \in Workers : call[v].at \in ChunkStage /\ call[w].at \in ChunkStage
                               /\ call[v].id = call[w].id => v = w

(* What chunk passes on to embed has chunks, or has been deleted since,      *)
(* unless the text makes none.                                              *)
ReadyHasChunks ==
  /\ \A i \in ready : i \in chunks \/ ~splits \/ row[i] = "deleted"
  /\ \A w \in Workers : call[w].at \in {"mark", "chunks", "index"} =>
       call[w].id \in chunks \/ ~splits \/ row[call[w].id] = "deleted"
  /\ \A w \in Workers : At(w, "empty") => ~splits \/ row[call[w].id] = "deleted"

(* The inductive invariant.  OneDocumentPerText is not inductive: that a     *)
(* rollback or a commit leaves one row depends on whose row it is            *)
(* (IdsInHand).  FaultFree carries FailsByFaultOnly.                        *)
IInv == TypeOK /\ OneRow /\ IdsInHand /\ NoEarlyResult /\ FaultFree /\ DocumentHasText
        /\ ReadyHasChunks /\ IndexedHasPoints

LEMMA InitInductive == Init => IInv
BY DEF Init, IInv, TypeOK, OneRow, IdsInHand, NoEarlyResult, FaultFree, DocumentHasText,
       ReadyHasChunks, IndexedHasPoints, Live, Ids, Idle, Results, NoResult, At, ChunkStage, EmbedStage, Committed

(* A worker goes to another point of its call and the tables stay.         *)
Moves(w, at, i) ==
  /\ i \in 0..MaxRows
  /\ call' = [call EXCEPT ![w] = [at |-> at, id |-> i]]
  /\ UNCHANGED <<splits, row, text, chunks, said, deleted>>
  /\ indexed' \subseteq indexed
  /\ calls' \in 0..MaxCalls /\ failed' \in Nat /\ faults' \in faults..MaxFaults
  /\ fetched' \subseteq Ids /\ ready' \subseteq Ids
  /\ \A j \in fetched' \union ready' : row[j] \in Committed
  /\ \A j \in ready' : j \in chunks \/ ~splits \/ row[j] = "deleted"
  /\ result' \in [Workers -> Results] /\ \A v \in Workers : v = w \/ result'[v] = result[v]
  /\ \/ at \in {"idle", "select", "insert", "again"} /\ i = 0
     \/ at \in ChunkStage \union EmbedStage /\ i \in Ids /\ row[i] \in Committed
  /\ at \in {"select", "insert", "again"} => result'[w] = NoResult
  /\ at \in {"mark", "chunks", "index"} => i \in chunks \/ ~splits \/ row[i] = "deleted"
  /\ at = "empty" => ~splits \/ row[i] = "deleted"
  /\ faults' = 0 =>
       /\ failed' = failed
       /\ at = "again" => Live # {}
       /\ at \in {"load", "save"} => i \notin chunks
       /\ at \in ChunkStage => \A v \in Workers :
            v # w /\ call[v].at \in ChunkStage => call[v].id # i

LEMMA MovesInductive ==
  ASSUME IInv, NEW w \in Workers, NEW at, NEW i, Moves(w, at, i)
  PROVE  IInv'
<1> USE DEF IInv, At, Moves
<1>0. faults \in Nat /\ MaxFaults \in Nat
  BY DEF TypeOK
<1>1. Live' = Live
  BY DEF Live
<1>2. TypeOK'
  <2>1. at \in {"idle", "select", "insert", "again", "count", "load", "save", "mark",
              "chunks", "index", "empty"}
    BY DEF ChunkStage, EmbedStage
  <2>2. call' \in [Workers -> [at : {"idle", "select", "insert", "again", "commit", "count",
                                 "load", "save", "mark", "chunks", "index", "empty"}, id : 0..MaxRows]]
    BY <2>1 DEF TypeOK
  <2> QED BY <1>0, <1>1, <2>2 DEF TypeOK
<1>3. OneRow'
  BY DEF OneRow
<1>4. IdsInHand'
  <2>1. \A v \in Workers : v # w => call'[v] = call[v]
    BY DEF TypeOK
  <2>2. call'[w] = [at |-> at, id |-> i]
    BY DEF TypeOK
  <2>3. at # "commit"
    BY DEF ChunkStage, EmbedStage
  <2> QED BY <2>1, <2>2, <2>3 DEF IdsInHand, ChunkStage, EmbedStage
<1>5. NoEarlyResult'
  BY DEF TypeOK, NoEarlyResult, ChunkStage, EmbedStage
<1>6. FaultFree'
  <2>1. SUFFICES ASSUME faults' = 0 PROVE FaultFree'
    BY DEF FaultFree
  <2>2. faults = 0
    BY <1>0, <2>1
  <2>3. /\ \A v \in Workers : v # w => call'[v] = call[v]
        /\ call'[w] = [at |-> at, id |-> i]
    BY DEF TypeOK
  <2> QED BY <1>1, <2>1, <2>2, <2>3 DEF FaultFree
<1>7. DocumentHasText'
  BY <1>1 DEF DocumentHasText
<1>8. ReadyHasChunks'
  <2>1. /\ \A v \in Workers : v # w => call'[v] = call[v]
        /\ call'[w] = [at |-> at, id |-> i]
    BY DEF TypeOK
  <2> QED BY <2>1 DEF ReadyHasChunks
<1>9. IndexedHasPoints'
  BY DEF IndexedHasPoints
<1> QED BY <1>2, <1>3, <1>4, <1>5, <1>6, <1>7, <1>8, <1>9

(* A call returns the id of a committed row. *)
LEMMA ReturnInductive ==
  ASSUME IInv, NEW w \in Workers, NEW how \in {"found", "new"}, NEW i \in Live,
         Return(w, how, i), UNCHANGED tables, UNCHANGED counters
  PROVE  IInv'
<1>1. i \in Ids /\ row[i] = "live" /\ i \in 0..MaxRows
  BY DEF Live, Ids
<1>2. Moves(w, "idle", 0)
  BY <1>1 DEF Moves, IInv, TypeOK, Return, Idle, Results, tables, counters, Committed,
              IdsInHand, ReadyHasChunks, ChunkStage, EmbedStage
<1> QED BY <1>2, MovesInductive

LEMMA FetchInductive == ASSUME IInv, NEW w \in Workers, Fetch(w) PROVE IInv'
<1>1. Moves(w, "select", 0)
  BY DEF Fetch, Goes, Moves, IInv, TypeOK, Results, NoResult, tables, topics, IdsInHand,
         ReadyHasChunks, ChunkStage, EmbedStage
<1> QED BY <1>1, MovesInductive

LEMMA SelectInductive == ASSUME IInv, NEW w \in Workers, Select(w) PROVE IInv'
<1>1. CASE Live # {}
  <2>1. PICK i \in Live : Return(w, "found", i)
    BY <1>1 DEF Select
  <2> QED BY <2>1, ReturnInductive DEF Select
<1>2. CASE Live = {}
  <2>1. result[w] = NoResult
    BY DEF Select, At, IInv, NoEarlyResult
  <2>2. Moves(w, "insert", 0)
    BY <1>2, <2>1 DEF Select, Goes, Moves, IInv, TypeOK, Results, tables, topics, counters, IdsInHand,
           ReadyHasChunks, ChunkStage, EmbedStage
  <2> QED BY <2>2, MovesInductive
<1> QED BY <1>1, <1>2

LEMMA ConflictInductive == ASSUME IInv, NEW w \in Workers, Conflict(w) PROVE IInv'
<1>1. result[w] = NoResult
  BY DEF Conflict, At, IInv, NoEarlyResult
<1>2. Moves(w, "again", 0)
  BY <1>1 DEF Conflict, Goes, Moves, IInv, TypeOK, Results, tables, topics, counters, IdsInHand,
           ReadyHasChunks, ChunkStage, EmbedStage
<1> QED BY <1>2, MovesInductive

LEMMA SelectAgainInductive == ASSUME IInv, NEW w \in Workers, SelectAgain(w) PROVE IInv'
<1>1. CASE Live # {}
  <2>1. PICK i \in Live : Return(w, "found", i)
    BY <1>1 DEF SelectAgain
  <2> QED BY <1>1, <2>1, ReturnInductive DEF SelectAgain
<1>2. CASE Live = {}
  <2>1. faults # 0
    BY <1>2 DEF SelectAgain, IInv, FaultFree
  <2>2. Moves(w, "idle", 0)
    BY <1>2, <2>1 DEF SelectAgain, Raise, Idle, Error, Moves, IInv, TypeOK, Results, tables, topics,
           IdsInHand, ReadyHasChunks, ChunkStage, EmbedStage
  <2> QED BY <2>2, MovesInductive
<1> QED BY <1>1, <1>2

(* What a stage does with the message of a document it takes. *)
LEMMA TurnHolds ==
  ASSUME IInv, NEW stage, NEW i, Turn(stage, i)
  PROVE  /\ faults' \in faults..MaxFaults
         /\ faults' = 0 => \A v \in Workers : call[v].at \in stage => call[v].id # i
BY DEF Turn, Fault, IInv, TypeOK

LEMMA ChunkInductive == ASSUME IInv, NEW w \in Workers, Chunk(w) PROVE IInv'
<1>1. PICK i \in fetched :
        /\ fetched' = fetched \ {i} /\ Turn(ChunkStage, i)
        /\ IF i \in Live /\ i \in indexed THEN UNCHANGED call ELSE Goes(w, "count", i)
  BY DEF Chunk
<1>2. i \in Ids /\ row[i] \in Committed /\ i \in 0..MaxRows
  BY DEF IInv, IdsInHand, TypeOK, Ids
<1>3. /\ faults' \in faults..MaxFaults
      /\ faults' = 0 => \A v \in Workers : call[v].at \in ChunkStage => call[v].id # i
  BY <1>1, TurnHolds
<1>4. CASE call' = call
  <2>1. call[w] = [at |-> "idle", id |-> 0]
    BY DEF Chunk, At, IInv, TypeOK, IdsInHand
  <2>2. Moves(w, "idle", 0)
    BY <1>1, <1>3, <1>4, <2>1 DEF Chunk, Moves, IInv, TypeOK, tables, IdsInHand,
           ReadyHasChunks, ChunkStage, EmbedStage
  <2> QED BY <2>2, MovesInductive
<1>5. CASE Goes(w, "count", i)
  <2>1. Moves(w, "count", i)
    BY <1>1, <1>2, <1>3, <1>5 DEF Chunk, Goes, Moves, IInv, TypeOK, tables, IdsInHand,
           ReadyHasChunks, ChunkStage, EmbedStage
  <2> QED BY <2>1, MovesInductive
<1> QED BY <1>1, <1>4, <1>5

LEMMA EmbedInductive == ASSUME IInv, NEW w \in Workers, Embed(w) PROVE IInv'
<1>1. PICK i \in ready :
        /\ ready' = ready \ {i} /\ Turn(EmbedStage, i)
        /\ IF i \in Live /\ i \in indexed THEN UNCHANGED call ELSE Goes(w, "chunks", i)
  BY DEF Embed
<1>2. i \in Ids /\ row[i] \in Committed /\ i \in 0..MaxRows /\ (i \in chunks \/ ~splits \/ row[i] = "deleted")
  BY DEF IInv, IdsInHand, ReadyHasChunks, TypeOK, Ids
<1>3. faults' \in faults..MaxFaults
  BY <1>1, TurnHolds
<1>4. CASE call' = call
  <2>1. call[w] = [at |-> "idle", id |-> 0]
    BY DEF Embed, At, IInv, TypeOK, IdsInHand
  <2>2. Moves(w, "idle", 0)
    BY <1>1, <1>3, <1>4, <2>1 DEF Embed, Moves, IInv, TypeOK, tables, IdsInHand,
           ReadyHasChunks, ChunkStage, EmbedStage
  <2> QED BY <2>2, MovesInductive
<1>5. CASE Goes(w, "chunks", i)
  <2>1. Moves(w, "chunks", i)
    BY <1>1, <1>2, <1>3, <1>5 DEF Embed, Goes, Moves, IInv, TypeOK, tables, IdsInHand,
           ReadyHasChunks, ChunkStage, EmbedStage
  <2> QED BY <2>1, MovesInductive
<1> QED BY <1>1, <1>4, <1>5

(* The id in the hands of chunk and embed. *)
LEMMA InHand ==
  ASSUME IInv, NEW w \in Workers, call[w].at \in ChunkStage \union EmbedStage
  PROVE  call[w].id \in Ids /\ call[w].id \in 0..MaxRows /\ row[call[w].id] \in Committed
BY DEF IInv, IdsInHand, Ids

LEMMA CountChunksInductive == ASSUME IInv, NEW w \in Workers, CountChunks(w) PROVE IInv'
<1>1. call[w].at = "count" /\ call[w].at \in ChunkStage
  BY DEF CountChunks, At, ChunkStage
<1>2. call[w].id \in Ids /\ call[w].id \in 0..MaxRows /\ row[call[w].id] \in Committed
  BY <1>1, InHand
<1>3. faults = 0 => \A v \in Workers : v # w /\ call[v].at \in ChunkStage => call[v].id # call[w].id
  BY <1>1 DEF IInv, FaultFree
<1>4. CASE call[w].id \in chunks
  <2>1. Moves(w, "idle", 0)
    BY <1>2, <1>4 DEF CountChunks, PassOn, Idle, Moves, IInv, TypeOK, tables, topics, counters,
           IdsInHand, ReadyHasChunks, ChunkStage, EmbedStage
  <2> QED BY <2>1, MovesInductive
<1>5. CASE call[w].id \notin chunks
  <2>1. Moves(w, "load", call[w].id)
    BY <1>2, <1>3, <1>5 DEF CountChunks, Goes, Moves, IInv, TypeOK, tables, counters,
           IdsInHand, ReadyHasChunks, ChunkStage, EmbedStage
  <2> QED BY <2>1, MovesInductive
<1> QED BY <1>4, <1>5

LEMMA LoadTextInductive == ASSUME IInv, NEW w \in Workers, LoadText(w) PROVE IInv'
<1>1. call[w].at = "load" /\ call[w].at \in ChunkStage
  BY DEF LoadText, At, ChunkStage
<1>2. call[w].id \in Ids /\ call[w].id \in 0..MaxRows /\ row[call[w].id] \in Committed
  BY <1>1, InHand
<1>3. faults = 0 => /\ \A v \in Workers : v # w /\ call[v].at \in ChunkStage => call[v].id # call[w].id
                    /\ call[w].id \notin chunks
  BY <1>1 DEF IInv, FaultFree
<1>4. CASE call[w].id \in text
  <2>1. Moves(w, "save", call[w].id)
    BY <1>2, <1>3, <1>4 DEF LoadText, Goes, Moves, IInv, TypeOK, tables, topics,
           IdsInHand, ReadyHasChunks, ChunkStage, EmbedStage
  <2> QED BY <2>1, MovesInductive
<1>5. CASE call[w].id \notin text
  <2>1. faults # 0
    BY <1>2, <1>5 DEF IInv, FaultFree, DocumentHasText, Live, Committed
  <2>2. Moves(w, "idle", 0)
    BY <1>5, <2>1 DEF LoadText, Raise, Idle, Moves, IInv, TypeOK, tables, topics,
           IdsInHand, ReadyHasChunks, ChunkStage, EmbedStage
  <2> QED BY <2>2, MovesInductive
<1> QED BY <1>4, <1>5

LEMMA LoadChunksInductive == ASSUME IInv, NEW w \in Workers, LoadChunks(w) PROVE IInv'
<1>1. call[w].at = "chunks" /\ call[w].at \in EmbedStage
  BY DEF LoadChunks, At, EmbedStage
<1>2. call[w].id \in Ids /\ call[w].id \in 0..MaxRows /\ row[call[w].id] \in Committed
  BY <1>1, InHand
<1>3. call[w].id \in chunks \/ ~splits \/ row[call[w].id] = "deleted"
  BY <1>1 DEF IInv, ReadyHasChunks
<1>4. CASE call[w].id \in chunks
  <2>1. Moves(w, "index", call[w].id)
    BY <1>2, <1>3, <1>4 DEF LoadChunks, Goes, Moves, IInv, TypeOK, tables, topics, counters,
           IdsInHand, ReadyHasChunks, ChunkStage, EmbedStage
  <2> QED BY <2>1, MovesInductive
<1>5. CASE call[w].id \notin chunks
  <2>1. Moves(w, "empty", call[w].id)
    BY <1>2, <1>3, <1>5 DEF LoadChunks, Goes, Moves, IInv, TypeOK, tables, topics, counters,
           IdsInHand, ReadyHasChunks, ChunkStage, EmbedStage
  <2> QED BY <2>1, MovesInductive
<1> QED BY <1>4, <1>5

LEMMA InsertInductive == ASSUME IInv, NEW w \in Workers, Insert(w) PROVE IInv'
<1>1. PICK i \in Ids :
        row[i] = "none" /\ row' = [row EXCEPT ![i] = "uncommitted"] /\ Goes(w, "commit", i)
  BY DEF Insert
<1>2. /\ UNCHANGED <<splits, text, chunks, indexed, fetched, ready, said, result, calls, failed, deleted, faults>>
      /\ call[w].at = "insert" /\ Live = {} /\ \A j \in Ids : row[j] # "uncommitted"
  BY DEF Insert, KeyFree, At, topics, counters
<1>3. /\ \A v \in Workers : v # w => call'[v] = call[v]
      /\ call'[w] = [at |-> "commit", id |-> i] /\ i \in 0..MaxRows
  BY <1>1 DEF Goes, IInv, TypeOK, Ids
<1>4. /\ row'[i] = "uncommitted" /\ \A j \in Ids : j # i => row'[j] = row[j]
      /\ Live' = Live
  BY <1>1 DEF Live, IInv, TypeOK
<1> USE DEF IInv
<1>5. TypeOK'
  BY <1>1, <1>2, <1>3, <1>4 DEF TypeOK, Goes
<1>6. OneRow'
  BY <1>2, <1>4 DEF OneRow, Live
<1>7. IdsInHand'
  <2> USE <1>2, <1>3, <1>4 DEF IdsInHand, At
  <2>1. \A v \in Workers : call'[v].at \in {"idle", "select", "insert", "again"} => call'[v].id = 0
    OBVIOUS
  <2>2. \A v \in Workers : call'[v].at = "commit" => v = w
    <3>1. SUFFICES ASSUME NEW v \in Workers, v # w, call'[v].at = "commit" PROVE FALSE
      OBVIOUS
    <3>2. call[v].at = "commit"
      BY <3>1
    <3>3. call[v].id \in Ids /\ row[call[v].id] = "uncommitted"
      BY <3>2
    <3> QED BY <3>3
  <2>5. call'[w].id \in Ids /\ row'[call'[w].id] = "uncommitted"
    BY <1>1
  <2>3. \A v \in Workers : call'[v].at \in ChunkStage \union EmbedStage =>
          call'[v].id \in Ids /\ row'[call'[v].id] \in Committed
    BY <1>1 DEF Committed, ChunkStage, EmbedStage
  <2>4. \A j \in fetched' \union ready' : row'[j] \in Committed
    BY <1>1 DEF Committed, TypeOK
  <2> QED BY <2>1, <2>2, <2>3, <2>4, <2>5
<1>8. NoEarlyResult'
  BY <1>2, <1>3 DEF NoEarlyResult
<1>9. FaultFree'
  BY <1>2, <1>3, <1>4 DEF FaultFree, At, ChunkStage
<1>10. DocumentHasText'
  BY <1>2, <1>4 DEF DocumentHasText
<1>11. ReadyHasChunks'
  BY <1>1, <1>2, <1>3, <1>4 DEF ReadyHasChunks, IdsInHand, At, TypeOK, Committed, EmbedStage
<1>12. IndexedHasPoints'
  BY <1>1, <1>2, <1>4 DEF IndexedHasPoints, TypeOK
<1> QED BY <1>5, <1>6, <1>7, <1>8, <1>9, <1>10, <1>11, <1>12

LEMMA CommitInductive == ASSUME IInv, NEW w \in Workers, Commit(w) PROVE IInv'
<1> DEFINE i == call[w].id
<1>1. /\ row' = [row EXCEPT ![i] = "live"] /\ text' = text \union {i}
      /\ result' = [result EXCEPT ![w] = [how |-> "new", id |-> i]]
      /\ fetched' = fetched \union {i} /\ call' = [call EXCEPT ![w] = Idle]
      /\ UNCHANGED <<splits, chunks, indexed, ready, said, calls, failed, deleted, faults>>
      /\ call[w].at = "commit"
  BY DEF Commit, Return, At, counters
<1>2. i \in Ids /\ i \in 0..MaxRows /\ row[i] = "uncommitted"
  BY <1>1 DEF IInv, IdsInHand, At, Ids
<1>3. /\ \A v \in Workers : v # w => call'[v] = call[v]
      /\ call'[w] = [at |-> "idle", id |-> 0]
  BY <1>1 DEF Idle, IInv, TypeOK
<1>4. /\ row'[i] = "live" /\ \A j \in Ids : j # i => row'[j] = row[j]
      /\ Live' = Live \union {i}
  BY <1>1, <1>2 DEF Live, IInv, TypeOK
<1> HIDE DEF i
<1> USE DEF IInv
<1>5. TypeOK'
  BY <1>1, <1>2, <1>3, <1>4 DEF TypeOK, Results, Idle
<1>6. OneRow'
  BY <1>2, <1>4 DEF OneRow
<1>7. IdsInHand'
  <2>1. \A v \in Workers : v # w => call[v].at # "commit"
    BY <1>1 DEF IdsInHand, At
  <2> QED BY <1>1, <1>2, <1>3, <1>4, <2>1 DEF IdsInHand, At, Committed, ChunkStage, EmbedStage, TypeOK
<1>8. NoEarlyResult'
  BY <1>1, <1>3 DEF NoEarlyResult, TypeOK
<1>9. FaultFree'
  BY <1>1, <1>2, <1>3, <1>4 DEF FaultFree, At, ChunkStage
<1>10. DocumentHasText'
  BY <1>1, <1>4 DEF DocumentHasText
<1>11. ReadyHasChunks'
  BY <1>1, <1>2, <1>3, <1>4 DEF ReadyHasChunks, IdsInHand, At, TypeOK, Committed, EmbedStage
<1>12. IndexedHasPoints'
  BY <1>1, <1>2, <1>4 DEF IndexedHasPoints, TypeOK
<1> QED BY <1>5, <1>6, <1>7, <1>8, <1>9, <1>10, <1>11, <1>12

LEMMA SaveChunksInductive == ASSUME IInv, NEW w \in Workers, SaveChunks(w) PROVE IInv'
<1> DEFINE i == call[w].id
<1>1. call[w].at = "save" /\ call[w].at \in ChunkStage
  BY DEF SaveChunks, At, ChunkStage
<1>2. i \in Ids /\ i \in 0..MaxRows /\ row[i] \in Committed
  BY <1>1, InHand
<1>3. faults = 0 => /\ \A v \in Workers : v # w /\ call[v].at \in ChunkStage => call[v].id # i
                    /\ i \notin chunks
  BY <1>1 DEF IInv, FaultFree
<1>4. CASE splits /\ i \notin Live \ chunks
  <2>1. faults # 0
    BY <1>2, <1>3, <1>4 DEF IInv, FaultFree, Live, Committed
  <2>2. Moves(w, "idle", 0)
    BY <1>4, <2>1 DEF SaveChunks, Raise, Idle, Moves, IInv, TypeOK, IdsInHand, ReadyHasChunks,
           topics, ChunkStage, EmbedStage
  <2> QED BY <2>2, MovesInductive
<1>5. CASE splits /\ i \in Live \ chunks
  <2>1. /\ chunks' = chunks \union {i} /\ call' = [call EXCEPT ![w] = [at |-> "mark", id |-> i]]
        /\ UNCHANGED <<splits, row, text, indexed, fetched, ready, said, result, calls, failed,
                       deleted, faults>>
    BY <1>5 DEF SaveChunks, Goes, topics
  <2>2. /\ \A v \in Workers : v # w => call'[v] = call[v]
        /\ call'[w] = [at |-> "mark", id |-> i] /\ Live' = Live
    BY <2>1 DEF IInv, TypeOK, Live
  <2> HIDE DEF i
  <2> USE DEF IInv
  <2>3. TypeOK'
    BY <1>2, <1>5, <2>1, <2>2 DEF TypeOK
  <2>4. OneRow'
    BY <2>1 DEF OneRow
  <2>5. IdsInHand'
    BY <1>2, <2>1, <2>2 DEF IdsInHand, At, ChunkStage, EmbedStage
  <2>6. NoEarlyResult'
    BY <2>1, <2>2 DEF NoEarlyResult
  <2>7. FaultFree'
    BY <1>1, <1>3, <2>1, <2>2 DEF FaultFree, At, ChunkStage
  <2>8. DocumentHasText'
    BY <2>1, <2>2 DEF DocumentHasText
  <2>9. ReadyHasChunks'
    BY <2>1, <2>2 DEF ReadyHasChunks, At
  <2>10. IndexedHasPoints'
    BY <2>1 DEF IndexedHasPoints
  <2> QED BY <2>3, <2>4, <2>5, <2>6, <2>7, <2>8, <2>9, <2>10
<1>6. CASE ~splits
  <2>1. Moves(w, "mark", i)
    BY <1>1, <1>2, <1>3, <1>6 DEF SaveChunks, Goes, Moves, IInv, TypeOK, topics, IdsInHand, ReadyHasChunks,
           ChunkStage, EmbedStage
  <2> QED BY <2>1, MovesInductive
<1> QED BY <1>4, <1>5, <1>6

LEMMA MarkChunkedInductive == ASSUME IInv, NEW w \in Workers, MarkChunked(w) PROVE IInv'
<1>1. call[w].at = "mark" /\ call[w].at \in ChunkStage
  BY DEF MarkChunked, At, ChunkStage
<1>2. call[w].id \in Ids /\ row[call[w].id] \in Committed
  BY <1>1, InHand
<1>3. call[w].id \in chunks \/ ~splits \/ row[call[w].id] = "deleted"
  BY <1>1 DEF IInv, ReadyHasChunks
<1>4. Moves(w, "idle", 0)
  BY <1>2, <1>3 DEF MarkChunked, PassOn, Idle, Moves, IInv, TypeOK, counters, IdsInHand, ReadyHasChunks,
         ChunkStage, EmbedStage
<1> QED BY <1>4, MovesInductive

LEMMA MarkIndexedInductive == ASSUME IInv, NEW w \in Workers, MarkIndexed(w) PROVE IInv'
<1> DEFINE i == call[w].id
<1>1. /\ call[w].at \in {"index", "empty"} /\ call[w].at \in EmbedStage
      /\ indexed' = indexed \union ({i} \intersect Live)
      /\ said' = said \union {[id |-> i, found |-> At(w, "index")]}
      /\ call' = [call EXCEPT ![w] = Idle]
      /\ UNCHANGED <<splits, row, text, chunks, fetched, ready, result, calls, failed, deleted, faults>>
  BY DEF MarkIndexed, At, EmbedStage, counters
<1>2. i \in Ids /\ (~At(w, "index") => ~splits \/ row[i] = "deleted")
  BY <1>1, InHand DEF IInv, ReadyHasChunks, At
<1>3. /\ \A v \in Workers : v # w => call'[v] = call[v]
      /\ call'[w] = [at |-> "idle", id |-> 0] /\ Live' = Live
  BY <1>1 DEF Idle, IInv, TypeOK, Live
<1>4. [id |-> i, found |-> At(w, "index")] \in [id : Ids, found : BOOLEAN]
  BY <1>2 DEF At
<1> HIDE DEF i
<1> USE DEF IInv
<1>5. TypeOK'
  BY <1>1, <1>3, <1>4 DEF TypeOK, Idle
<1>6. OneRow'
  BY <1>1 DEF OneRow
<1>7. IdsInHand'
  BY <1>1, <1>3 DEF IdsInHand, At, ChunkStage, EmbedStage
<1>8. NoEarlyResult'
  BY <1>1, <1>3 DEF NoEarlyResult
<1>9. FaultFree'
  BY <1>1, <1>3 DEF FaultFree, At, ChunkStage
<1>10. DocumentHasText'
  BY <1>1, <1>3 DEF DocumentHasText
<1>11. ReadyHasChunks'
  BY <1>1, <1>3 DEF ReadyHasChunks, At
<1>12. IndexedHasPoints'
  BY <1>1, <1>2 DEF IndexedHasPoints
<1> QED BY <1>5, <1>6, <1>7, <1>8, <1>9, <1>10, <1>11, <1>12

LEMMA DeleteInductive == ASSUME IInv, NEW i \in Ids, Delete(i) PROVE IInv'
<1>1. /\ i \in Live /\ faults' = faults + 1 /\ faults < MaxFaults /\ deleted' = deleted + 1
      /\ row' = [row EXCEPT ![i] = "deleted"]
      /\ text' = text \ {i} /\ chunks' = chunks \ {i} /\ indexed' = indexed \ {i}
      /\ UNCHANGED <<splits, fetched, ready, said, call, result, calls, failed>>
  BY DEF Delete, Fault, topics
<1>2. row[i] = "live"
  BY <1>1 DEF Live
<1>3. /\ row'[i] = "deleted" /\ \A j \in Ids : j # i => row'[j] = row[j]
      /\ Live' = Live \ {i}
  BY <1>1 DEF Live, IInv, TypeOK
<1>4. faults \in Nat /\ faults' # 0 /\ faults' \in 0..MaxFaults /\ deleted' \in 0..faults'
  BY <1>1 DEF IInv, TypeOK
<1> USE DEF IInv
<1>5. TypeOK'
  BY <1>1, <1>3, <1>4 DEF TypeOK
<1>6. OneRow'
  BY <1>3 DEF OneRow
<1>7. IdsInHand'
  BY <1>1, <1>2, <1>3 DEF IdsInHand, At, Committed, TypeOK
<1>8. NoEarlyResult'
  BY <1>1 DEF NoEarlyResult
<1>9. FaultFree'
  BY <1>4 DEF FaultFree
<1>10. DocumentHasText'
  BY <1>1, <1>3 DEF DocumentHasText
<1>11. ReadyHasChunks'
  BY <1>1, <1>3 DEF ReadyHasChunks, IdsInHand, At, TypeOK, EmbedStage
<1>12. IndexedHasPoints'
  BY <1>1, <1>3 DEF IndexedHasPoints, TypeOK
<1> QED BY <1>5, <1>6, <1>7, <1>8, <1>9, <1>10, <1>11, <1>12

LEMMA CrashInductive == ASSUME IInv, NEW w \in Workers, Crash(w) PROVE IInv'
<1> DEFINE i == call[w].id
<1>1. /\ faults' = faults + 1 /\ faults < MaxFaults
      /\ row' = [j \in Ids |-> IF j = i /\ row[j] = "uncommitted" THEN "none" ELSE row[j]]
      /\ fetched' = IF call[w].at \in ChunkStage THEN fetched \union {i} ELSE fetched
      /\ ready' = IF call[w].at \in EmbedStage THEN ready \union {i} ELSE ready
      /\ call' = [call EXCEPT ![w] = Idle]
      /\ UNCHANGED <<splits, text, chunks, indexed, said, calls, failed, deleted>>
  BY DEF Crash, Fault
<1>2. /\ result' \in [Workers -> Results]
      /\ \A v \in Workers : v # w => result'[v] = result[v]
  BY DEF Crash, Error, IInv, TypeOK, Results
<1>3. faults \in Nat /\ faults' # 0 /\ faults' \in 0..MaxFaults /\ deleted \in 0..faults'
  BY <1>1 DEF IInv, TypeOK
<1>4. /\ \A v \in Workers : v # w => call'[v] = call[v]
      /\ call'[w] = [at |-> "idle", id |-> 0]
  BY <1>1 DEF Idle, IInv, TypeOK
<1>5. /\ row' \in [Ids -> {"none", "uncommitted", "live", "deleted"}] /\ Live' = Live
      /\ \A j \in Ids : row[j] # "uncommitted" => row'[j] = row[j]
      /\ \A j \in Ids : row'[j] = row[j] \/ row'[j] = "none"
      /\ \A j \in Ids : row'[j] = "uncommitted" => row[j] = "uncommitted"
  BY <1>1 DEF Live, IInv, TypeOK
<1>6. call[w].at \in ChunkStage \union EmbedStage => i \in Ids /\ row[i] \in Committed
  BY InHand
<1>7. call[w].at \in EmbedStage => i \in chunks \/ ~splits \/ row[i] = "deleted"
  BY DEF IInv, ReadyHasChunks, EmbedStage, At
<1> HIDE DEF i
<1> USE DEF IInv
<1>8. TypeOK'
  <2>1. fetched' \subseteq Ids /\ ready' \subseteq Ids
    BY <1>1, <1>6 DEF TypeOK
  <2>2. call' \in [Workers -> [at : {"idle", "select", "insert", "again", "commit", "count",
                                    "load", "save", "mark", "chunks", "index", "empty"},
                              id : 0..MaxRows]]
    BY <1>1 DEF TypeOK, Idle
  <2> QED BY <1>1, <1>2, <1>3, <1>5, <2>1, <2>2 DEF TypeOK
<1>9. OneRow'
  BY <1>5 DEF OneRow
<1>10. IdsInHand'
  <2>1. ASSUME NEW v \in Workers, v # w, call[v].at = "commit"
        PROVE  row'[call[v].id] = "uncommitted"
    <3>1. row[call[v].id] = "uncommitted" /\ call[v].id \in Ids
      BY <2>1 DEF IdsInHand, At
    <3>2. CASE call[w].at = "commit"
      BY <2>1, <3>2 DEF IdsInHand, At
    <3>3. CASE call[w].at \in {"idle", "select", "insert", "again"}
      BY <1>1, <3>1, <3>3 DEF IdsInHand, i, Ids
    <3>4. CASE call[w].at \in ChunkStage \union EmbedStage
      BY <1>1, <1>6, <3>1, <3>4 DEF Committed
    <3> QED BY <3>2, <3>3, <3>4 DEF TypeOK, ChunkStage, EmbedStage
  <2> QED BY <1>1, <1>4, <1>5, <1>6, <2>1 DEF IdsInHand, At, Committed, ChunkStage, EmbedStage, TypeOK
<1>11. NoEarlyResult'
  BY <1>2, <1>4 DEF NoEarlyResult
<1>12. FaultFree'
  BY <1>3 DEF FaultFree
<1>13. DocumentHasText'
  BY <1>1, <1>5 DEF DocumentHasText
<1>14. ReadyHasChunks'
  BY <1>1, <1>4, <1>5, <1>6, <1>7
     DEF ReadyHasChunks, IdsInHand, At, TypeOK, Committed, ChunkStage, EmbedStage
<1>15. IndexedHasPoints'
  BY <1>1, <1>5 DEF IndexedHasPoints, TypeOK
<1> QED BY <1>8, <1>9, <1>10, <1>11, <1>12, <1>13, <1>14, <1>15

LEMMA StutterInductive == ASSUME IInv, UNCHANGED vars PROVE IInv'
BY DEF vars, tables, topics, counters, IInv, TypeOK, OneRow, IdsInHand, NoEarlyResult, FaultFree,
       DocumentHasText, ReadyHasChunks, IndexedHasPoints, Live, At

LEMMA StepInductive == IInv /\ [Next]_vars => IInv'
<1> SUFFICES ASSUME IInv, [Next]_vars PROVE IInv'
  OBVIOUS
<1>1. ASSUME NEW w \in Workers, Fetch(w) PROVE IInv'
  BY <1>1, FetchInductive
<1>2. ASSUME NEW w \in Workers, Chunk(w) PROVE IInv'
  BY <1>2, ChunkInductive
<1>3. ASSUME NEW w \in Workers, Embed(w) PROVE IInv'
  BY <1>3, EmbedInductive
<1>4. ASSUME NEW w \in Workers, SaveStep(w) PROVE IInv'
  BY <1>4, SelectInductive, InsertInductive, ConflictInductive, SelectAgainInductive,
     CommitInductive DEF SaveStep
<1>5. ASSUME NEW w \in Workers, CountChunks(w) \/ LoadText(w) \/ SaveChunks(w) \/ MarkChunked(w)
      PROVE  IInv'
  BY <1>5, CountChunksInductive, LoadTextInductive, SaveChunksInductive, MarkChunkedInductive
<1>6. ASSUME NEW w \in Workers, LoadChunks(w) \/ MarkIndexed(w) PROVE IInv'
  BY <1>6, LoadChunksInductive, MarkIndexedInductive
<1>7. ASSUME NEW w \in Workers, Crash(w) PROVE IInv'
  BY <1>7, CrashInductive
<1>8. ASSUME NEW i \in Ids, Delete(i) PROVE IInv'
  BY <1>8, DeleteInductive
<1>9. CASE UNCHANGED vars
  BY <1>9, StutterInductive
<1> QED BY <1>1, <1>2, <1>3, <1>4, <1>5, <1>6, <1>7, <1>8, <1>9 DEF Next, Step

(* Whatever the workers, crashes and deletions do, the rows, the calls and  *)
(* the messages between the stages fit together (storage.py, stages.py).    *)
THEOREM Inductive == Spec => []IInv
BY InitInductive, StepInductive, PTL DEF Spec

(* Types and foreign keys: text, chunks and status belong to a document. *)
THEOREM TypeCorrect == Spec => []TypeOK
<1>1. IInv => TypeOK
  BY DEF IInv
<1> QED BY <1>1, Inductive, PTL

(* The unique index on content_hash and the second select of save_text: one *)
(* document per text.                                                       *)
THEOREM OneDocument == Spec => []OneDocumentPerText
<1>1. IInv => OneDocumentPerText
  <2> SUFFICES ASSUME IInv PROVE OneDocumentPerText
    OBVIOUS
  <2> DEFINE Held == {i \in Ids : row[i] \in {"uncommitted", "live"}}
  <2>1. CASE Held = {}
    BY <2>1, FS_EmptySet DEF OneDocumentPerText
  <2>2. CASE Held # {}
    <3>1. PICK i : i \in Held
      BY <2>2
    <3>2. Held = {i}
      BY <3>1 DEF IInv, OneRow
    <3>3. Cardinality(Held) = 1
      BY <3>2, FS_Singleton
    <3> QED BY <3>3 DEF OneDocumentPerText
  <2> QED BY <2>1, <2>2
<1> QED BY <1>1, Inductive, PTL

(* content and content_text are committed together: a document that can be  *)
(* found has its text.                                                      *)
THEOREM TextIsThere == Spec => []DocumentHasText
<1>1. IInv => DocumentHasText
  BY DEF IInv
<1> QED BY <1>1, Inductive, PTL

(* No call of save_text and no chunk message fails unless something was     *)
(* deleted or crashed, or two workers had one message.                      *)
THEOREM FailsByFault == Spec => []FailsByFaultOnly
<1>1. IInv => FailsByFaultOnly
  BY DEF IInv, TypeOK, FaultFree, FailsByFaultOnly
<1> QED BY <1>1, Inductive, PTL

(* `indexed` is said of a document in which nobody saw chunks only if its   *)
(* text is empty, or it was deleted after chunk had passed it on.           *)
THEOREM IndexedIsTrue == Spec => []IndexedHasPoints
<1>1. IInv => IndexedHasPoints
  BY DEF IInv
<1> QED BY <1>1, Inductive, PTL

------------------------------------------------------------------------------
(* The refinement of AtomicSave. *)

TheDoc == IF Live = {} THEN 0 ELSE CHOOSE i \in Live : TRUE
Used   == {i \in Ids : row[i] \in Committed}

LEMMA DocIs == ASSUME IInv, NEW i \in Live PROVE TheDoc = i
<1>1. \A j \in Live : j = i
  BY DEF IInv, OneRow, Live
<1> QED BY <1>1 DEF TheDoc

LEMMA DocIsNone == ASSUME Live = {} PROVE TheDoc = 0
BY DEF TheDoc

(* A step that keeps rows and results is a stutter of the promise. *)
LEMMA SameRow == ASSUME UNCHANGED row PROVE UNCHANGED <<TheDoc, Used>>
BY DEF TheDoc, Used, Live

LEMMA RefinementInit == Init => Promise!Init
BY DEF Init, Promise!Init, Live, NoResult, Promise!NoResult, Ids

LEMMA FindStep ==
  ASSUME IInv, NEW w \in Workers, NEW i \in Live, Return(w, "found", i),
         UNCHANGED tables, result[w] = NoResult
  PROVE  Promise!Find(w)
<1>1. TheDoc = i /\ i # 0
  BY DocIs DEF Live, Ids
<1>2. UNCHANGED <<TheDoc, Used>>
  BY SameRow DEF tables
<1>3. result' = [result EXCEPT ![w] = [how |-> "found", id |-> TheDoc]]
  BY <1>1 DEF Return
<1> QED
  BY <1>1, <1>2, <1>3 DEF Promise!Find, Promise!Returns, Promise!NoResult, NoResult, TheDoc, Used, Committed

LEMMA RaiseStep ==
  ASSUME NEW w \in Workers, result' = [result EXCEPT ![w] = Error], UNCHANGED <<TheDoc, Used>>
  PROVE  Promise!Raise(w)
BY DEF Promise!Raise, Promise!Returns, Error, TheDoc, Used, Committed

LEMMA CreateStep == ASSUME IInv, IInv', NEW w \in Workers, Commit(w) PROVE Promise!Create(w)
<1> DEFINE i == call[w].id
<1>1. call[w].at = "commit" /\ i \in Ids /\ row[i] = "uncommitted" /\ result[w] = NoResult
  BY DEF Commit, At, IInv, IdsInHand, NoEarlyResult
<1>2. row' = [row EXCEPT ![i] = "live"]
  BY DEF Commit
<1>3. Live = {}
  BY <1>1 DEF IInv, OneRow, Live
<1>4. i \in Live' /\ Used' = Used \union {i} /\ i \notin Used
  BY <1>1, <1>2 DEF Live, Used, Committed, IInv, TypeOK
<1>5. TheDoc' = i
  <2>1. \A j \in Live' : j = i
    BY <1>4 DEF IInv, OneRow, Live
  <2> QED BY <1>4, <2>1 DEF TheDoc
<1>6. result' = [result EXCEPT ![w] = [how |-> "new", id |-> i]]
  BY DEF Commit, Return
<1>7. TheDoc = 0
  BY <1>3, DocIsNone
<1> HIDE DEF i
<1> QED
  BY <1>1, <1>4, <1>5, <1>6, <1>7
     DEF Promise!Create, Promise!Returns, Promise!NoResult, NoResult, TheDoc, Used, Committed

LEMMA DeleteStep == ASSUME IInv, NEW i \in Ids, Delete(i) PROVE Promise!Delete
<1>1. i \in Live /\ row' = [row EXCEPT ![i] = "deleted"] /\ UNCHANGED result
  BY DEF Delete
<1>2. TheDoc = i /\ i # 0
  BY <1>1, DocIs DEF Ids
<1>3. Live' = {} /\ Used' = Used
  BY <1>1 DEF Live, Used, Committed, IInv, TypeOK, OneRow
<1>4. TheDoc' = 0
  BY <1>3 DEF TheDoc
<1> QED BY <1>1, <1>2, <1>3, <1>4 DEF Promise!Delete, TheDoc, Used, Committed

LEMMA CrashStep ==
  ASSUME IInv, NEW w \in Workers, Crash(w)
  PROVE  Promise!Raise(w) \/ UNCHANGED <<TheDoc, Used, result>>
<1>1. Live' = Live /\ Used' = Used
  BY DEF Crash, Live, Used, Committed
<1>2. UNCHANGED <<TheDoc, Used>>
  BY <1>1 DEF TheDoc
<1>3. result' = [result EXCEPT ![w] = Error] \/ result' = result
  BY DEF Crash
<1> QED BY <1>2, <1>3, RaiseStep

LEMMA RefinementStep ==
  ASSUME IInv, IInv', [Next]_vars
  PROVE  [Promise!Next]_<<TheDoc, Used, result>>
<1> DEFINE Abstract == [Promise!Next]_<<TheDoc, Used, result>>
<1>1. ASSUME NEW w \in Workers, Fetch(w) PROVE Abstract
  <2>1. Promise!Call(w)
    BY <1>1, SameRow DEF Fetch, tables, Promise!Call, Promise!Returns, NoResult, Promise!NoResult,
                         TheDoc, Used, Committed
  <2> QED BY <2>1 DEF Promise!Next
<1>2. ASSUME NEW w \in Workers, Select(w) \/ SelectAgain(w) PROVE Abstract
  <2>1. result[w] = NoResult /\ UNCHANGED tables
    BY <1>2 DEF Select, SelectAgain, At, IInv, NoEarlyResult
  <2>2. CASE \E i \in Live : Return(w, "found", i)
    BY <2>1, <2>2, FindStep DEF Promise!Next
  <2>3. CASE result' = result
    BY <2>1, <2>3, SameRow DEF tables
  <2>4. CASE result' = [result EXCEPT ![w] = Error]
    BY <2>1, <2>4, SameRow, RaiseStep DEF tables, Promise!Next
  <2> QED BY <1>2, <2>2, <2>3, <2>4 DEF Select, SelectAgain
<1>3. ASSUME NEW w \in Workers, Insert(w) PROVE Abstract
  <2>1. PICK i \in Ids : row[i] = "none" /\ row' = [row EXCEPT ![i] = "uncommitted"]
    BY <1>3 DEF Insert
  <2>2. Live' = Live /\ Used' = Used
    BY <2>1 DEF Live, Used, Committed, IInv, TypeOK
  <2> QED BY <1>3, <2>2 DEF Insert, TheDoc
<1>4. ASSUME NEW w \in Workers, Commit(w) PROVE Abstract
  BY <1>4, CreateStep DEF Promise!Next
<1>5. ASSUME NEW w \in Workers, Crash(w) PROVE Abstract
  BY <1>5, CrashStep DEF Promise!Next
<1>6. ASSUME NEW i \in Ids, Delete(i) PROVE Abstract
  BY <1>6, DeleteStep DEF Promise!Next
<1>7. ASSUME UNCHANGED <<row, result>> PROVE Abstract
  BY <1>7, SameRow
<1>8. ASSUME NEW w \in Workers,
             Conflict(w) \/ Chunk(w) \/ Embed(w) \/ CountChunks(w) \/ LoadText(w) \/ SaveChunks(w)
               \/ MarkChunked(w) \/ LoadChunks(w) \/ MarkIndexed(w)
      PROVE  Abstract
  BY <1>7, <1>8 DEF Conflict, Chunk, Embed, CountChunks, LoadText, SaveChunks, MarkChunked,
                    LoadChunks, MarkIndexed, tables
<1>9. CASE UNCHANGED vars
  BY <1>7, <1>9 DEF vars, tables
<1>10. ASSUME NEW w \in Workers,
              Fetch(w) \/ Chunk(w) \/ Embed(w) \/ Step(w) \/ Crash(w)
       PROVE  Abstract
  <2>1. CASE Fetch(w) \/ Crash(w)
    BY <1>1, <1>5, <2>1
  <2>2. CASE Select(w) \/ SelectAgain(w)
    BY <1>2, <2>2
  <2>3. CASE Insert(w) \/ Commit(w)
    BY <1>3, <1>4, <2>3
  <2>4. CASE Conflict(w) \/ Chunk(w) \/ Embed(w) \/ CountChunks(w) \/ LoadText(w) \/ SaveChunks(w)
               \/ MarkChunked(w) \/ LoadChunks(w) \/ MarkIndexed(w)
    BY <1>8, <2>4
  <2> HIDE DEF Abstract
  <2> QED BY <1>10, <2>1, <2>2, <2>3, <2>4 DEF Step, SaveStep
<1>11. CASE Next
  <2>1. CASE \E w \in Workers : Fetch(w) \/ Chunk(w) \/ Embed(w) \/ Step(w) \/ Crash(w)
    <3>1. PICK w \in Workers : Fetch(w) \/ Chunk(w) \/ Embed(w) \/ Step(w) \/ Crash(w)
      BY <2>1
    <3> QED BY <1>10, <3>1
  <2>2. CASE \E i \in Ids : Delete(i)
    <3>1. PICK i \in Ids : Delete(i)
      BY <2>2
    <3> QED BY <1>6, <3>1
  <2> QED BY <1>11, <2>1, <2>2 DEF Next
<1> QED BY <1>9, <1>11

(* save_text in its transactions implements one atomic find-or-create.      *)
THEOREM Refinement == Spec => SaveTextIsAtomic
<1>1. [Promise!Next]_<<TheDoc, Used, result>> => [Promise!Next]_(Promise!vars)
  BY DEF Promise!vars, TheDoc, Used, Committed
<1>2. IInv /\ IInv' /\ [Next]_vars => [Promise!Next]_(Promise!vars)
  BY <1>1, RefinementStep
<1> QED BY <1>2, RefinementInit, Inductive, PTL DEF Spec, SaveTextIsAtomic, Promise!Spec
=============================================================================
