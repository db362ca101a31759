------------------------------ MODULE CdcProofs ------------------------------
(* Proofs about Cdc: type correctness, no live point is deleted, and no      *)
(* delete event is lost, for any numbers of chunks, collections, batches,   *)
(* attempts and faults.                                                     *)
EXTENDS Cdc, SequenceTheorems, TLAPS

Entries(K) == {<<>>} \union {<<k>> : k \in K}

(* Delete events, collected ids and what a sweep is about to delete belong   *)
(* to deleted chunks; embed, Qdrant and a sweep that has not looked into the *)
(* table yet know chunks that exist or existed.                              *)
GoneIds ==
  /\ log \in Seq(Entries(gone))
  /\ Collected \subseteq gone
  /\ \A q \in points : q[1] \in rows \union gone
  /\ \A k \in Chunks : embed[k] # NoColl => k \in rows \union gone /\ embed[k] \in colls
  /\ sweep.at \in {"scrolled", "checked"} => sweep.ids \subseteq rows \union gone
  /\ sweep.at = "checked" => sweep.ids \subseteq gone

(* An id that has been read and is not committed is collected until its      *)
(* points are deleted.                                                      *)
ReadIsCollected ==
  /\ sync # "commit" =>
       \A i \in (committed + 1)..next : \A k \in Chunks : log[i] = <<k>> => k \in Collected
  /\ sync \in {"commit", "down"} => pending = <<>>
  /\ committed <= next

(* What is left to do after the events with the offsets up to n. *)
AheadOf(n) ==
  \A q \in Orphans : q \in missed \/ \E i \in (n + 1)..Len(log) : log[i] = <<q[1]>>

CommitCovers == sync = "commit" => AheadOf(next)

(* The inductive invariant.  OrphansHaveAnEvent alone is not inductive: that *)
(* a commit passes no orphan depends on what has been collected and deleted. *)
IInv == TypeOK /\ GoneIds /\ ReadIsCollected /\ CommitCovers /\ AheadOf(committed)

------------------------------------------------------------------------------

(* An entry of the log, as a sequence of ids. *)
LEMMA EntryType ==
  ASSUME NEW K, NEW e \in Entries(K)
  PROVE  /\ e \in Seq(K) /\ Len(e) <= 1
         /\ \A k : e = <<k>> => Len(e) = 1 /\ e[1] = k
<1>1. CASE e = <<>>
  BY <1>1, EmptySeq
<1>2. ASSUME NEW k \in K, e = <<k>> PROVE e \in Seq(K) /\ Len(e) = 1 /\ e[1] = k
  BY <1>2
<1>3. \A k : <<k>> # <<>> /\ Len(<<k>>) = 1 /\ <<k>>[1] = k
  OBVIOUS
<1> QED
  BY <1>1, <1>2, <1>3 DEF Entries

(* What remains of a process that is gone is well typed. *)
LEMMA DownType ==
  ASSUME TypeOK, Down, points' \subseteq points, committed' \in 0..Len(log),
         UNCHANGED <<rows, gone, log, colls, embed, sweep, missed>>
  PROVE  TypeOK'
<1>1. pending' \in Seq(Chunks) /\ Len(pending') = 0
  BY EmptySeq DEF Down
<1>2. Len(pending') <= CDC_DELETE_BATCH /\ Attempts \in 1..Attempts
  BY <1>1, BatchAssumption, AttemptsAssumption
<1> QED
  BY <1>1, <1>2 DEF Down, TypeOK, NoCache

(* Every step keeps the types: a batch stays within its limit, the offset  *)
(* and the read position within the log.                                   *)
LEMMA TypeStep ==
  ASSUME TypeOK, GoneIds, [Next]_vars
  PROVE  TypeOK'
<1> USE BatchAssumption, AttemptsAssumption
<1>1. ASSUME NEW k \in Chunks, SaveChunk(k) PROVE TypeOK'
  BY <1>1 DEF SaveChunk, others, table, consumer, TypeOK, GoneIds, Collected
<1>2. ASSUME NEW k \in Chunks, DeleteChunk(k) PROVE TypeOK'
  BY <1>2 DEF DeleteChunk, others, table, consumer, TypeOK, GoneIds, Collected
<1>3. CASE Truncate
  BY <1>3 DEF Truncate, Fault, others, table, consumer, TypeOK, GoneIds, Collected
<1>4. ASSUME NEW k \in Chunks, EmbedUpsert(k) PROVE TypeOK'
  BY <1>4 DEF EmbedUpsert, others, table, consumer, TypeOK, GoneIds, Collected
<1>5. ASSUME NEW k \in Chunks, NEW c \in Colls, EmbedLoad(k, c) PROVE TypeOK'
  BY <1>5 DEF EmbedLoad, others, table, consumer, TypeOK, GoneIds, Collected
<1>6. CASE Poll
  <2>1. log[next + 1] \in Entries(Chunks)
    BY <1>6, ElementOfSeq DEF Poll, TypeOK, Entries
  <2>2. log[next + 1] \in Seq(Chunks) /\ Len(log[next + 1]) <= 1
    BY <2>1, EntryType
  <2>3. pending' \in Seq(Chunks) /\ Len(pending') <= CDC_DELETE_BATCH
    BY <1>6, <2>2, ConcatProperties, LenProperties DEF Poll, TypeOK
  <2> QED
    BY <1>6, <2>3 DEF Poll, others, table, consumer, TypeOK
<1>7. CASE Flush \/ Stop
  <2>1. tries' \in 1..Attempts /\ sync' \in {"commit", "delete"} /\ closing' \in BOOLEAN
    <3>1. tries' = Attempts /\ (closing' = closing \/ closing' = TRUE)
      BY <1>7 DEF Flush, Stop, FlushFrom
    <3>2. sync' = "commit" \/ sync' = "delete"
      BY <1>7 DEF Flush, Stop, FlushFrom
    <3>3. Attempts \in 1..Attempts
      OBVIOUS
    <3>4. closing' \in BOOLEAN
      BY <3>1, Zenon DEF TypeOK
    <3> QED
      BY <3>1, <3>2, <3>3, <3>4
  <2>2. UNCHANGED <<rows, gone, log, committed, next, pending, cache, colls, points, embed, sweep, missed>>
    BY <1>7 DEF Flush, Stop, FlushFrom, others, table
  <2> QED
    BY <2>1, <2>2 DEF TypeOK
<1>8. CASE DeletePoints
  BY <1>8 DEF DeletePoints, Targets, NoCache, others, table, consumer, TypeOK, GoneIds, Collected
<1>9. CASE Commit
  <2>1. CASE Down
    <3>1. committed' \in 0..Len(log)
      BY <1>9 DEF Commit, TypeOK
    <3>2. UNCHANGED <<rows, gone, log, colls, points, embed, sweep, missed>>
      BY <1>9 DEF Commit, others, table
    <3> QED
      BY <2>1, <3>1, <3>2, DownType
  <2>2. CASE ~Down
    BY <1>9, <2>2 DEF Commit, FlushFails, others, table, TypeOK
  <2> QED
    BY <2>1, <2>2
<1>10. CASE Restart
  BY <1>10 DEF Restart, others, table, consumer, TypeOK, GoneIds, Collected
<1>11. CASE DeleteFails
  <2>1. cache' \subseteq colls' /\ points' \subseteq points
    BY <1>11 DEF DeleteFails, FlushFails, Down, Targets, NoCache, others, table, TypeOK
  <2>2. UNCHANGED <<rows, gone, log, committed, colls, embed, sweep, missed>>
    BY <1>11 DEF DeleteFails, others, table
  <2>3. CASE Down
    <3>1. committed' \in 0..Len(log)
      BY <2>2 DEF TypeOK
    <3> QED
      BY <2>1, <2>2, <2>3, <3>1, DownType
  <2>4. CASE ~Down
    <3>1. UNCHANGED <<sync, next, pending>> /\ closing' \in BOOLEAN
      BY <1>11, <2>4 DEF DeleteFails, FlushFails, TypeOK
    <3>2. tries' \in 1..Attempts
      BY <1>11, <2>4 DEF DeleteFails, FlushFails, TypeOK
    <3> QED
      BY <2>1, <2>2, <3>1, <3>2 DEF TypeOK
  <2> QED
    BY <2>3, <2>4
<1>12. CASE CommitFails
  <2>1. CASE Down
    <3>1. committed' \in 0..Len(log)
      BY <1>12 DEF CommitFails, TypeOK
    <3>2. UNCHANGED <<rows, gone, log, colls, points, embed, sweep, missed>>
      BY <1>12 DEF CommitFails, others, table
    <3> QED
      BY <2>1, <3>1, <3>2, DownType
  <2>2. CASE ~Down
    <3>1. tries' = Attempts /\ closing' = TRUE /\ cache' = cache
      BY <1>12, <2>2 DEF CommitFails, FlushFails
    <3>3. Attempts \in 1..Attempts
      OBVIOUS
    <3>2. UNCHANGED <<rows, gone, log, committed, next, pending, sync, colls, points, embed,
                      sweep, missed>>
      BY <1>12, <2>2 DEF CommitFails, FlushFails, others, table
    <3> QED
      BY <3>1, <3>2, <3>3 DEF TypeOK
  <2> QED
    BY <2>1, <2>2
<1>13. CASE Crash
  <2>1. CASE Down
    <3>1. committed' \in 0..Len(log)
      BY <1>13 DEF Crash, TypeOK
    <3>2. UNCHANGED <<rows, gone, log, colls, points, embed, sweep, missed>>
      BY <1>13 DEF Crash, others, table
    <3> QED
      BY <2>1, <3>1, <3>2, DownType
  <2>2. CASE ~Down
    BY <1>13, <2>2 DEF Crash, FlushFails, others, table, TypeOK
  <2> QED
    BY <2>1, <2>2
<1>14. CASE SweepLookUp
  BY <1>14 DEF SweepLookUp, others, table, consumer, TypeOK, GoneIds, Collected
<1>15. CASE SweepDelete
  BY <1>15 DEF SweepDelete, Idle, others, table, consumer, TypeOK, GoneIds, Collected
<1>16. ASSUME NEW c \in Colls, SweepScroll(c) PROVE TypeOK'
  BY <1>16 DEF SweepScroll, Fault, others, table, consumer, TypeOK, GoneIds, Collected
<1>17. CASE Quiet \/ UNCHANGED vars
  BY <1>17 DEF Quiet, vars, others, table, consumer, TypeOK, GoneIds, Collected
<1> QED
  BY <1>1, <1>2, <1>3, <1>4, <1>5, <1>6, <1>7, <1>8, <1>9, <1>10, <1>11, <1>12, <1>13,
     <1>14, <1>15, <1>16, <1>17 DEF Next, Embedder, CdcStep

(* Every step keeps GoneIds: only deleted chunks are in the log, collected  *)
(* or looked up as orphans.                                                *)
LEMMA GoneStep ==
  ASSUME TypeOK, TypeOK', GoneIds, [Next]_vars
  PROVE  GoneIds'
<1> USE BatchAssumption, AttemptsAssumption
<1>1. ASSUME NEW k \in Chunks, SaveChunk(k) PROVE GoneIds'
  BY <1>1 DEF SaveChunk, others, table, consumer, TypeOK, GoneIds, Collected, Entries
<1>2. ASSUME NEW k \in Chunks, DeleteChunk(k) PROVE GoneIds'
  BY <1>2 DEF DeleteChunk, others, table, consumer, TypeOK, GoneIds, Collected, Entries
<1>3. CASE Truncate
  BY <1>3 DEF Truncate, Fault, others, table, consumer, TypeOK, GoneIds, Collected, Entries
<1>4. ASSUME NEW k \in Chunks, EmbedUpsert(k) PROVE GoneIds'
  BY <1>4 DEF EmbedUpsert, others, table, consumer, TypeOK, GoneIds, Collected, Entries
<1>5. ASSUME NEW k \in Chunks, NEW c \in Colls, EmbedLoad(k, c) PROVE GoneIds'
  BY <1>5 DEF EmbedLoad, others, table, consumer, TypeOK, GoneIds, Collected, Entries
<1>6. CASE Poll
  BY <1>6 DEF Poll, others, table, consumer, TypeOK, GoneIds, Collected, Entries
<1>7. CASE Flush \/ Stop
  BY <1>7 DEF Flush, Stop, FlushFrom, Fault, others, table, consumer, TypeOK, GoneIds, Collected, Entries
<1>8. CASE DeletePoints
  BY <1>8 DEF DeletePoints, Targets, NoCache, others, table, consumer, TypeOK, GoneIds, Collected, Entries
<1>9. CASE Commit
  BY <1>9 DEF Commit, Down, NoCache, others, table, consumer, TypeOK, GoneIds, Collected, Entries
<1>10. CASE Restart
  BY <1>10 DEF Restart, others, table, consumer, TypeOK, GoneIds, Collected, Entries
<1>11. CASE DeleteFails
  BY <1>11 DEF DeleteFails, FlushFails, Down, Targets, NoCache, Fault, others, table, consumer, TypeOK, GoneIds, Collected, Entries
<1>12. CASE CommitFails
  BY <1>12 DEF CommitFails, FlushFails, Down, NoCache, Fault, others, table, consumer, TypeOK, GoneIds, Collected, Entries
<1>13. CASE Crash
  BY <1>13 DEF Crash, Down, NoCache, Fault, others, table, consumer, TypeOK, GoneIds, Collected, Entries
<1>14. CASE SweepLookUp
  BY <1>14 DEF SweepLookUp, others, table, consumer, TypeOK, GoneIds, Collected, Entries
<1>15. CASE SweepDelete
  BY <1>15 DEF SweepDelete, Idle, others, table, consumer, TypeOK, GoneIds, Collected, Entries
<1>16. ASSUME NEW c \in Colls, SweepScroll(c) PROVE GoneIds'
  BY <1>16 DEF SweepScroll, Fault, others, table, consumer, TypeOK, GoneIds, Collected, Entries
<1>17. CASE Quiet \/ UNCHANGED vars
  BY <1>17 DEF Quiet, vars, others, table, consumer, TypeOK, GoneIds, Collected, Entries
<1> QED
  BY <1>1, <1>2, <1>3, <1>4, <1>5, <1>6, <1>7, <1>8, <1>9, <1>10, <1>11, <1>12, <1>13,
     <1>14, <1>15, <1>16, <1>17 DEF Next, Embedder, CdcStep

(* Every step keeps ReadIsCollected: what was read and not committed is     *)
(* pending until its points are deleted.                                   *)
LEMMA ReadStep ==
  ASSUME TypeOK, TypeOK', GoneIds, ReadIsCollected, [Next]_vars
  PROVE  ReadIsCollected'
<1> USE BatchAssumption, AttemptsAssumption
<1>1. ASSUME NEW k \in Chunks, SaveChunk(k) PROVE ReadIsCollected'
  BY <1>1 DEF SaveChunk, others, table, consumer, TypeOK, ReadIsCollected, Collected
<1>2. ASSUME NEW k \in Chunks, DeleteChunk(k) PROVE ReadIsCollected'
  BY <1>2 DEF DeleteChunk, others, table, consumer, TypeOK, ReadIsCollected, Collected
<1>3. CASE Truncate
  BY <1>3 DEF Truncate, Fault, others, table, consumer, TypeOK, ReadIsCollected, Collected
<1>4. ASSUME NEW k \in Chunks, EmbedUpsert(k) PROVE ReadIsCollected'
  BY <1>4 DEF EmbedUpsert, others, table, consumer, TypeOK, ReadIsCollected, Collected
<1>5. ASSUME NEW k \in Chunks, NEW c \in Colls, EmbedLoad(k, c) PROVE ReadIsCollected'
  BY <1>5 DEF EmbedLoad, others, table, consumer, TypeOK, ReadIsCollected, Collected
<1>6. CASE Poll
  <2> DEFINE e == log[next + 1]
  <2>1. e \in Entries(Chunks) /\ next + 1 \in 1..Len(log)
    BY <1>6, ElementOfSeq DEF Poll, TypeOK, Entries
  <2>2. e \in Seq(Chunks) /\ \A k : e = <<k>> => Len(e) = 1 /\ e[1] = k
    BY <2>1, EntryType
  <2> HIDE DEF e
  <2>3. pending' = pending \o e /\ pending \in Seq(Chunks)
    BY <1>6 DEF Poll, TypeOK, e
  <2>4. /\ pending' \in Seq(Chunks) /\ Len(pending') = Len(pending) + Len(e)
        /\ \A i \in 1..(Len(pending) + Len(e)) :
             pending'[i] = IF i <= Len(pending) THEN pending[i] ELSE e[i - Len(pending)]
    BY <2>2, <2>3, ConcatProperties
  <2>5. Collected \subseteq Collected'
    BY <2>2, <2>3, <2>4, LenProperties DEF Collected
  <2>6. \A k \in Chunks : e = <<k>> => k \in Collected'
    <3> SUFFICES ASSUME NEW k \in Chunks, e = <<k>> PROVE k \in Collected'
      OBVIOUS
    <3>1. Len(e) = 1 /\ e[1] = k /\ Len(pending) \in Nat
      BY <2>2, <2>3, LenProperties
    <3>2. pending'[Len(pending) + 1] = k /\ Len(pending) + 1 \in 1..Len(pending')
      BY <2>4, <3>1
    <3>3. DOMAIN (pending') = 1..Len(pending')
      BY <2>4, LenProperties
    <3> QED
      BY <3>2, <3>3 DEF Collected
  <2>7. /\ next' = next + 1 /\ UNCHANGED <<log, committed, sync>> /\ sync = "poll"
        /\ committed \in Nat /\ next \in Nat
    BY <1>6 DEF Poll, others, table, TypeOK
  <2>8. \A i \in (committed + 1)..next : \A k \in Chunks : log[i] = <<k>> => k \in Collected'
    BY <2>5, <2>7 DEF ReadIsCollected
  <2>9. \A i \in (committed + 1)..(next + 1) : \A k \in Chunks : log[i] = <<k>> => k \in Collected'
    BY <2>6, <2>7, <2>8 DEF e
  <2> QED
    BY <2>7, <2>9 DEF ReadIsCollected
<1>7. CASE Flush \/ Stop
  BY <1>7 DEF Flush, Stop, FlushFrom, Fault, others, table, consumer, TypeOK, ReadIsCollected, Collected
<1>8. CASE DeletePoints
  BY <1>8 DEF DeletePoints, Targets, NoCache, others, table, consumer, TypeOK, ReadIsCollected, Collected
<1>9. CASE Commit
  BY <1>9 DEF Commit, Down, NoCache, others, table, consumer, TypeOK, ReadIsCollected, Collected
<1>10. CASE Restart
  BY <1>10 DEF Restart, others, table, consumer, TypeOK, ReadIsCollected, Collected
<1>11. CASE DeleteFails
  BY <1>11 DEF DeleteFails, FlushFails, Down, Targets, NoCache, Fault, others, table, consumer, TypeOK, ReadIsCollected, Collected
<1>12. CASE CommitFails
  BY <1>12 DEF CommitFails, FlushFails, Down, NoCache, Fault, others, table, consumer, TypeOK, ReadIsCollected, Collected
<1>13. CASE Crash
  BY <1>13 DEF Crash, Down, NoCache, Fault, others, table, consumer, TypeOK, ReadIsCollected, Collected
<1>14. CASE SweepLookUp
  BY <1>14 DEF SweepLookUp, others, table, consumer, TypeOK, ReadIsCollected, Collected
<1>15. CASE SweepDelete
  BY <1>15 DEF SweepDelete, Idle, others, table, consumer, TypeOK, ReadIsCollected, Collected
<1>16. ASSUME NEW c \in Colls, SweepScroll(c) PROVE ReadIsCollected'
  BY <1>16 DEF SweepScroll, Fault, others, table, consumer, TypeOK, ReadIsCollected, Collected
<1>17. CASE Quiet \/ UNCHANGED vars
  BY <1>17 DEF Quiet, vars, others, table, consumer, TypeOK, ReadIsCollected, Collected
<1> QED
  BY <1>1, <1>2, <1>3, <1>4, <1>5, <1>6, <1>7, <1>8, <1>9, <1>10, <1>11, <1>12, <1>13,
     <1>14, <1>15, <1>16, <1>17 DEF Next, Embedder, CdcStep

(* An orphan whose delete event has been read but not committed is collected. *)
LEMMA PassedIsDone ==
  ASSUME TypeOK, ReadIsCollected, AheadOf(committed), sync # "commit"
  PROVE  /\ \A q \in Orphans : \/ q \in missed \/ q[1] \in Collected
                               \/ \E i \in (next + 1)..Len(log) : log[i] = <<q[1]>>
         /\ Collected = {} => AheadOf(next)
<1>1. ASSUME NEW q \in Orphans, q \notin missed, q[1] \notin Collected
      PROVE  \E i \in (next + 1)..Len(log) : log[i] = <<q[1]>>
  <2>1. PICK i \in (committed + 1)..Len(log) : log[i] = <<q[1]>>
    BY <1>1 DEF AheadOf
  <2>2. q[1] \in Chunks
    BY DEF Orphans, TypeOK
  <2>3. i \notin (committed + 1)..next
    BY <1>1, <2>1, <2>2 DEF ReadIsCollected
  <2>4. next \in Nat /\ committed \in Nat /\ Len(log) \in Nat
    BY DEF TypeOK
  <2> QED
    BY <2>1, <2>3, <2>4
<1> QED
  BY <1>1 DEF AheadOf

(* Every step keeps CommitCovers and AheadOf(committed): a commit covers    *)
(* no orphan that CDC could have deleted.                                  *)
LEMMA CoverStep ==
  ASSUME TypeOK, TypeOK', GoneIds, ReadIsCollected, CommitCovers, AheadOf(committed), [Next]_vars
  PROVE  CommitCovers' /\ AheadOf(committed)'
<1> USE BatchAssumption, AttemptsAssumption
<1>1. ASSUME NEW k \in Chunks, SaveChunk(k) PROVE CommitCovers' /\ AheadOf(committed)'
  BY <1>1 DEF SaveChunk, others, table, consumer, TypeOK, GoneIds, ReadIsCollected, CommitCovers, AheadOf, Orphans, Collected
<1>2. ASSUME NEW k \in Chunks, DeleteChunk(k) PROVE CommitCovers' /\ AheadOf(committed)'
  <2>1. /\ log' = Append(log, <<k>>) /\ gone' = gone \union {k}
        /\ UNCHANGED <<committed, next, sync, points, missed>>
    BY <1>2 DEF DeleteChunk, consumer
  <2>2. log \in Seq(Entries(Chunks)) /\ <<k>> \in Entries(Chunks)
    BY DEF TypeOK, Entries
  <2>3. /\ Len(log) \in Nat /\ Len(log') = Len(log) + 1 /\ log'[Len(log) + 1] = <<k>>
        /\ \A i \in 1..Len(log) : log'[i] = log[i]
    BY <2>1, <2>2
  <2>4. committed \in 0..Len(log) /\ next \in 0..Len(log)
    BY DEF TypeOK
  <2>5. ASSUME NEW n \in 0..Len(log), AheadOf(n)
        PROVE  \A q \in Orphans' : q \in missed \/ \E i \in (n + 1)..Len(log') : log'[i] = <<q[1]>>
    <3> SUFFICES ASSUME NEW q \in Orphans', q \notin missed
                 PROVE  \E i \in (n + 1)..Len(log') : log'[i] = <<q[1]>>
      OBVIOUS
    <3>1. CASE q[1] = k
      BY <2>3, <3>1
    <3>2. CASE q[1] # k
      <4>1. PICK i \in (n + 1)..Len(log) : log[i] = <<q[1]>>
        BY <2>1, <2>5, <3>2 DEF AheadOf, Orphans
      <4> QED
        BY <2>3, <4>1
    <3> QED
      BY <3>1, <3>2
  <2> QED
    BY <2>1, <2>4, <2>5 DEF CommitCovers, AheadOf
<1>3. CASE Truncate
  <2>1. /\ log' = Append(log, <<>>) /\ gone' = gone \union rows
        /\ missed' = missed \union (rows \X Colls)
        /\ UNCHANGED <<committed, next, sync, points>>
    BY <1>3 DEF Truncate, consumer
  <2>2. log \in Seq(Entries(Chunks)) /\ <<>> \in Entries(Chunks)
    BY DEF TypeOK, Entries
  <2>3. /\ Len(log) \in Nat /\ Len(log') = Len(log) + 1
        /\ \A i \in 1..Len(log) : log'[i] = log[i]
    BY <2>1, <2>2
  <2>4. committed \in 0..Len(log) /\ next \in 0..Len(log)
    BY DEF TypeOK
  <2>5. \A q \in Orphans' : q \in Orphans \/ q \in missed'
    BY <2>1 DEF Orphans, TypeOK
  <2>6. ASSUME NEW n \in 0..Len(log), AheadOf(n)
        PROVE  \A q \in Orphans' : q \in missed' \/ \E i \in (n + 1)..Len(log') : log'[i] = <<q[1]>>
    <3> SUFFICES ASSUME NEW q \in Orphans', q \notin missed'
                 PROVE  \E i \in (n + 1)..Len(log') : log'[i] = <<q[1]>>
      OBVIOUS
    <3>1. PICK i \in (n + 1)..Len(log) : log[i] = <<q[1]>>
      BY <2>1, <2>5, <2>6 DEF AheadOf
    <3> QED
      BY <2>3, <3>1
  <2> QED
    BY <2>1, <2>4, <2>6 DEF CommitCovers, AheadOf
<1>4. ASSUME NEW k \in Chunks, EmbedUpsert(k) PROVE CommitCovers' /\ AheadOf(committed)'
  <2>1. /\ UNCHANGED <<rows, gone, log, committed, next, sync>>
        /\ points' = points \union {<<k, embed[k]>>}
        /\ missed \subseteq missed' /\ (k \notin rows => <<k, embed[k]>> \in missed')
    BY <1>4 DEF EmbedUpsert, table, consumer
  <2>2. \A q \in Orphans' : q \in Orphans \/ q \in missed'
    BY <2>1 DEF Orphans, TypeOK
  <2> QED
    BY <2>1, <2>2 DEF CommitCovers, AheadOf
<1>5. ASSUME NEW k \in Chunks, NEW c \in Colls, EmbedLoad(k, c) PROVE CommitCovers' /\ AheadOf(committed)'
  BY <1>5 DEF EmbedLoad, others, table, consumer, TypeOK, GoneIds, ReadIsCollected, CommitCovers, AheadOf, Orphans, Collected
<1>6. CASE Poll
  BY <1>6 DEF Poll, others, table, consumer, TypeOK, GoneIds, ReadIsCollected, CommitCovers, AheadOf, Orphans, Collected
<1>7. CASE Flush \/ Stop
  <2>1. /\ UNCHANGED <<rows, gone, log, committed, next, points, missed>>
        /\ sync = "poll" /\ (sync' = "commit" => pending = <<>>)
    BY <1>7 DEF Flush, Stop, FlushFrom, others, table
  <2>2. AheadOf(committed)' /\ Orphans' = Orphans
    BY <2>1 DEF AheadOf, Orphans
  <2>3. CASE pending = <<>>
    <3>1. Collected = {}
      BY <2>3 DEF Collected
    <3>2. AheadOf(next)
      BY <2>1, <3>1, PassedIsDone
    <3> QED
      BY <2>1, <2>2, <3>2 DEF CommitCovers, AheadOf
  <2> QED
    BY <2>1, <2>2, <2>3 DEF CommitCovers
<1>8. CASE DeletePoints
  <2>1. PICK targets \in SUBSET colls : /\ points' = points \ (Collected \X targets)
                                       /\ missed' = missed \union (Collected \X (colls \ targets))
    BY <1>8 DEF DeletePoints, Targets, TypeOK
  <2>2. UNCHANGED <<rows, gone, log, committed, next>> /\ sync = "delete"
    BY <1>8 DEF DeletePoints, others, table
  <2>3. \A q \in Orphans' : q \in Orphans /\ (q \in missed' \/ (q \notin missed /\ q[1] \notin Collected))
    BY <2>1, <2>2 DEF Orphans, TypeOK
  <2>4. \A q \in Orphans : q \in missed \/ q[1] \in Collected
                           \/ \E i \in (next + 1)..Len(log) : log[i] = <<q[1]>>
    BY <2>2, PassedIsDone
  <2>5. CommitCovers'
    BY <2>2, <2>3, <2>4 DEF CommitCovers, AheadOf
  <2>6. AheadOf(committed)'
    BY <2>1, <2>2, <2>3 DEF AheadOf
  <2> QED
    BY <2>5, <2>6
<1>9. CASE Commit
  BY <1>9 DEF Commit, Down, NoCache, others, table, consumer, TypeOK, GoneIds, ReadIsCollected, CommitCovers, AheadOf, Orphans, Collected
<1>10. CASE Restart
  BY <1>10 DEF Restart, others, table, consumer, TypeOK, GoneIds, ReadIsCollected, CommitCovers, AheadOf, Orphans, Collected
<1>11. CASE DeleteFails
  BY <1>11 DEF DeleteFails, FlushFails, Down, Targets, NoCache, Fault, others, table, consumer, TypeOK, GoneIds, ReadIsCollected, CommitCovers, AheadOf, Orphans, Collected
<1>12. CASE CommitFails
  BY <1>12 DEF CommitFails, FlushFails, Down, NoCache, Fault, others, table, consumer, TypeOK, GoneIds, ReadIsCollected, CommitCovers, AheadOf, Orphans, Collected
<1>13. CASE Crash
  BY <1>13 DEF Crash, Down, NoCache, Fault, others, table, consumer, TypeOK, GoneIds, ReadIsCollected, CommitCovers, AheadOf, Orphans, Collected
<1>14. CASE SweepLookUp
  BY <1>14 DEF SweepLookUp, others, table, consumer, TypeOK, GoneIds, ReadIsCollected, CommitCovers, AheadOf, Orphans, Collected
<1>15. CASE SweepDelete
  BY <1>15 DEF SweepDelete, Idle, others, table, consumer, TypeOK, GoneIds, ReadIsCollected, CommitCovers, AheadOf, Orphans, Collected
<1>16. ASSUME NEW c \in Colls, SweepScroll(c) PROVE CommitCovers' /\ AheadOf(committed)'
  BY <1>16 DEF SweepScroll, Fault, others, table, consumer, TypeOK, GoneIds, ReadIsCollected, CommitCovers, AheadOf, Orphans, Collected
<1>17. CASE Quiet \/ UNCHANGED vars
  BY <1>17 DEF Quiet, vars, others, table, consumer, TypeOK, GoneIds, ReadIsCollected, CommitCovers, AheadOf, Orphans, Collected
<1> QED
  BY <1>1, <1>2, <1>3, <1>4, <1>5, <1>6, <1>7, <1>8, <1>9, <1>10, <1>11, <1>12, <1>13,
     <1>14, <1>15, <1>16, <1>17 DEF Next, Embedder, CdcStep

------------------------------------------------------------------------------
(* The initial state, an empty table, topic and Qdrant, satisfies IInv.     *)
LEMMA InitInductive == Init => IInv
<1> SUFFICES ASSUME Init PROVE IInv
  OBVIOUS
<1>1. <<>> \in Seq(Entries(gone)) /\ <<>> \in Seq(Entries(Chunks)) /\ <<>> \in Seq(Chunks)
      /\ Len(<<>>) = 0
  BY EmptySeq
<1>2. TypeOK
  <2>1. /\ log \in Seq({<<>>} \union {<<k>> : k \in Chunks})
        /\ next \in 0..Len(log) /\ committed \in 0..Len(log)
    <3>1. <<>> \in Seq({<<>>} \union {<<k>> : k \in Chunks})
      BY EmptySeq
    <3>2. log = <<>> /\ next = 0 /\ committed = 0
      BY DEF Init
    <3>3. log \in Seq({<<>>} \union {<<k>> : k \in Chunks})
      BY <3>1, <3>2, Zenon
    <3> QED
      BY <1>1, <3>2, <3>3
  <2>2. pending \in Seq(Chunks) /\ Len(pending) <= CDC_DELETE_BATCH
    <3>1. pending = <<>>
      BY DEF Init
    <3> QED
      BY <1>1, <3>1, BatchAssumption
  <2>3. tries \in 1..Attempts
    BY AttemptsAssumption DEF Init
  <2>4. embed \in [Chunks -> Colls \union {NoColl}]
    BY DEF Init
  <2>5. sweep.at \in {"idle", "scrolled", "checked"}
    BY DEF Init, Idle
  <2>6. /\ rows \subseteq Chunks /\ gone \subseteq Chunks \ rows
        /\ sync \in {"poll", "delete", "commit", "down"} /\ closing \in BOOLEAN
        /\ colls \subseteq Colls /\ cache \subseteq colls
        /\ points \subseteq Chunks \X colls /\ missed \subseteq Chunks \X Colls
    BY DEF Init, NoCache
  <2> QED
    BY <2>1, <2>2, <2>3, <2>4, <2>5, <2>6 DEF TypeOK
<1>3. GoneIds
  BY <1>1 DEF Init, GoneIds, Collected, Idle
<1>4. ReadIsCollected
  BY DEF Init, ReadIsCollected
<1>5. CommitCovers /\ AheadOf(committed)
  BY DEF Init, CommitCovers, AheadOf, Orphans
<1> QED
  BY <1>2, <1>3, <1>4, <1>5 DEF IInv

(* The inductive invariant holds in every reachable state. *)
THEOREM Inductive == Spec => []IInv
<1>1. IInv /\ [Next]_vars => IInv'
  <2> SUFFICES ASSUME IInv, [Next]_vars PROVE IInv'
    OBVIOUS
  <2>1. TypeOK'
    BY TypeStep DEF IInv
  <2>2. GoneIds'
    BY <2>1, GoneStep DEF IInv
  <2>3. ReadIsCollected'
    BY <2>1, ReadStep DEF IInv
  <2>4. CommitCovers' /\ AheadOf(committed)'
    BY <2>1, CoverStep DEF IInv
  <2> QED
    BY <2>1, <2>2, <2>3, <2>4 DEF IInv
<1> QED
  BY <1>1, InitInductive, PTL DEF Spec

(* Type correctness of the table, the consumer, Qdrant and the sweep. *)
THEOREM TypeCorrect == Spec => []TypeOK
<1>1. IInv => TypeOK
  BY DEF IInv
<1> QED
  BY <1>1, Inductive, PTL

(* No delete event is lost: the offset of run_cdc_sync never passes the event *)
(* of a point that is still in Qdrant, unless CDC cannot know of the point.  *)
THEOREM NoDeleteLost == Spec => []OrphansHaveAnEvent
<1>1. IInv => OrphansHaveAnEvent
  BY DEF IInv, AheadOf, OrphansHaveAnEvent
<1> QED
  BY <1>1, Inductive, PTL

(* Neither run_cdc_sync nor sweep_orphans deletes the point of a live chunk.  *)
THEOREM OnlyOrphansDeleted == Spec => LivePointsStay
<1>1. IInv /\ [Next]_vars => [\A q \in points \ points' : q[1] \notin rows]_vars
  <2> SUFFICES ASSUME IInv, [Next]_vars PROVE \A q \in points \ points' : q[1] \notin rows
    OBVIOUS
  <2>0. gone \cap rows = {} /\ points \subseteq Chunks \X colls
    BY DEF IInv, TypeOK
  <2>1. CASE DeletePoints \/ DeleteFails
    <3>1. \A q \in points \ points' : q[1] \in Collected
      <4>1. PICK targets : points' = points \ (Collected \X targets)
        BY <2>1 DEF DeletePoints, DeleteFails
      <4> QED
        BY <4>1, <2>0
    <3> QED
      BY <2>0, <3>1 DEF IInv, GoneIds
  <2>2. CASE SweepDelete
    <3>1. sweep.ids \subseteq gone /\ points' = points \ (sweep.ids \X {sweep.c})
      BY <2>2 DEF SweepDelete, IInv, GoneIds
    <3> QED
      BY <2>0, <3>1
  <2>3. CASE ~(DeletePoints \/ DeleteFails \/ SweepDelete)
    <3>1. points \subseteq points'
      BY <2>3 DEF Next, Embedder, CdcStep, Quiet, vars, others, table, consumer, SaveChunk,
         DeleteChunk, Truncate, EmbedUpsert, EmbedLoad, Poll, Flush, FlushFrom, Stop, Commit,
         CommitFails, Crash, Restart, SweepScroll, SweepLookUp
    <3> QED
      BY <3>1
  <2> QED
    BY <2>1, <2>2, <2>3
<1> QED
  BY <1>1, Inductive, PTL DEF Spec, LivePointsStay
=============================================================================
