-------------------------- MODULE ProjectionProofs --------------------------
(* Proofs about Projection: type correctness, the order of the database      *)
(* write and the offset, and the status that is never taken back.           *)
EXTENDS Projection, FiniteSetTheorems, SequenceTheorems, TLAPS

USE DEF recorded

(* The transaction of an instance that is about to commit its offset is in   *)
(* the row.                                                                 *)
WrittenIsRecorded ==
  \A i \in Projectors :
    job[i] # Idle /\ job[i].at = "commit" => job[i].e.id \in applied

(* The owner of a partition works on the event after the committed offset;   *)
(* an instance that lost the partition may hold any event.                  *)
OwnerReadsNext ==
  \A i \in Projectors :
    job[i] # Idle /\ owner[job[i].p] = i
      => LET p == job[i].p
         IN committed[p] < Len(log[p]) /\ job[i].e = log[p][committed[p] + 1]

IInv == /\ TypeOK /\ IsFiniteSet(flying)
        /\ WrittenIsRecorded /\ OwnerReadsNext /\ CommittedIsRecorded

------------------------------------------------------------------------------
(* The order of statuses (supersedes): indexed gives way to terminal         *)
(* statuses only, and nothing is stuck at failed.                           *)
LEMMA IndexedGivesWay ==
  ASSUME NEW new \in Statuses, supersedes("indexed", new)
  PROVE  is_final(new)
  BY DEF supersedes, is_final, RankOf, STATUS_RANK, Statuses, Progress, TERMINAL_STATUSES

(* What record_status_event makes of a row is a row, with a history no       *)
(* longer than HISTORY_MAX.                                                 *)
LEMMA TrimType ==
  ASSUME NEW h \in Seq(1..MaxEvents)
  PROVE  Trim(h) \in Seq(1..MaxEvents) /\ Len(Trim(h)) <= HISTORY_MAX
<1>1. CASE Len(h) <= HISTORY_MAX
  BY <1>1 DEF Trim
<1>2. CASE Len(h) > HISTORY_MAX
  <2>1. /\ Len(h) - HISTORY_MAX + 1 \in 1..Len(h)
        /\ Len(Trim(h)) = HISTORY_MAX
        /\ Trim(h) = SubSeq(h, Len(h) - HISTORY_MAX + 1, Len(h))
    BY <1>2, HistoryAssumption DEF Trim
  <2>2. \A k \in Len(h) - HISTORY_MAX + 1 .. Len(h) : h[k] \in 1..MaxEvents
    <3>1. \A k \in 1..Len(h) : h[k] \in 1..MaxEvents
      BY ElementOfSeq
    <3>2. Len(h) \in Nat
      OBVIOUS
    <3> QED
      BY <1>2, <3>1, <3>2, HistoryAssumption
  <2>3. Trim(h) \in Seq(1..MaxEvents)
    BY <2>1, <2>2, SubSeqProperties, HistoryAssumption
  <2> QED
    BY <2>1, <2>3, HistoryAssumption
<1> QED
  BY <1>1, <1>2, HistoryAssumption

LEMMA ApplyType ==
  ASSUME NEW r \in Row, NEW e \in Event
  PROVE  Apply(r, e) \in Row /\ Len(Apply(r, e).history) <= HISTORY_MAX
<1>1. Append(r.history, e.id) \in Seq(1..MaxEvents)
  BY DEF Row, Event
<1>2. /\ Trim(Append(r.history, e.id)) \in Seq(1..MaxEvents)
      /\ Len(Trim(Append(r.history, e.id))) <= HISTORY_MAX
  BY <1>1, TrimType
<1>3. (IF supersedes(r.status, e.status) THEN e.status ELSE r.status) \in Statuses
  BY DEF Row, Event
<1>4. (r.content \/ e.doc) \in BOOLEAN
  OBVIOUS
<1> QED
  BY <1>2, <1>3, <1>4 DEF Apply, Row

(* An event a stage publishes is well formed and numbered in range.          *)
LEMMA PublishedType ==
  ASSUME TypeOK, IsFiniteSet(flying)
  PROVE  Published \in Nat
<1>1. Cardinality(flying) \in Nat
  BY FS_CardinalityType
<1>2. Len(log["url"]) \in Nat /\ Len(log["doc"]) \in Nat
  BY DEF TypeOK, Partitions
<1> QED
  BY <1>1, <1>2 DEF Published

------------------------------------------------------------------------------
LEMMA InitInductive == Init => IInv
<1> SUFFICES ASSUME Init PROVE IInv
  OBVIOUS
<1>1. TypeOK
  <2>1. todo \in [Stages -> Nat] /\ dead \in [Stages -> Nat]
    BY DEF Init
  <2>2. <<>> \in Seq(Event) /\ Len(<<>>) = 0
    BY EmptySeq
  <2>3. /\ log \in [Partitions -> Seq(Event)] /\ committed \in [Partitions -> Nat]
        /\ \A p \in Partitions : committed[p] <= Len(log[p])
    <3>1. log \in [Partitions -> Seq(Event)] /\ \A p \in Partitions : Len(log[p]) = 0
      BY <2>2, Zenon DEF Init
    <3> QED
      BY <3>1 DEF Init
  <2>4. owner \in [Partitions -> Projectors \union {NoProjector}]
    BY DEF Init
  <2>5. job \in [Projectors -> Job \union {Idle}]
    BY DEF Init
  <2> QED
    <3>1. /\ api \in {"idle", "submitted", "absent", "ok", "error"}
          /\ indexed \in BOOLEAN /\ doc \in {"none", "alive", "deleted"}
          /\ flying = {} /\ row = NoRow /\ timeline = <<>> /\ revived = {}
      BY DEF Init
    <3>2. faults \in 0..MaxFaults
      BY BoundsAssumption DEF Init
    <3> QED
      BY <2>1, <2>3, <2>4, <2>5, <3>1, <3>2, EmptySeq DEF TypeOK
<1>2. IsFiniteSet(flying)
  BY FS_EmptySet DEF Init
<1>3. WrittenIsRecorded /\ OwnerReadsNext /\ CommittedIsRecorded
  BY DEF Init, WrittenIsRecorded, OwnerReadsNext, CommittedIsRecorded
<1> QED
  BY <1>1, <1>2, <1>3 DEF IInv

(* The recorded events and their timeline. *)
LEMMA SameRecorded == UNCHANGED recorded => UNCHANGED <<timeline, revived, applied>>
BY DEF applied

LEMMA AppliedType ==
  ASSUME timeline \in Seq(1..MaxEvents)
  PROVE  applied \in SUBSET (1..MaxEvents) /\ DOMAIN timeline = 1..Len(timeline) /\ Len(timeline) \in Nat
<1>1. DOMAIN timeline = 1..Len(timeline) /\ Len(timeline) \in Nat
  OBVIOUS
<1>2. \A k \in 1..Len(timeline) : timeline[k] \in 1..MaxEvents
  BY ElementOfSeq
<1> QED
  BY <1>1, <1>2 DEF applied

LEMMA NothingApplied == timeline = <<>> => applied = {}
BY DEF applied

(* A step that leaves the topic, the group and the recorded events alone     *)
(* keeps what IInv says of them.                                            *)
LEMMA FrameInductive ==
  ASSUME IInv, TypeOK', IsFiniteSet(flying'), UNCHANGED <<log, projector, recorded>>
  PROVE  IInv'
BY SameRecorded DEF IInv, projector, WrittenIsRecorded, OwnerReadsNext, CommittedIsRecorded

LEMMA ApiInductive == IInv /\ (Submit \/ FindRow \/ InsertRow) => IInv'
<1> SUFFICES ASSUME IInv, Submit \/ FindRow \/ InsertRow PROVE IInv'
  OBVIOUS
<1> USE DEF pipeline, projector
<1>1. CASE Submit
  <2>1. TypeOK'
    BY <1>1 DEF IInv, TypeOK, Submit, Stages
  <2> QED
    BY <1>1, <2>1, FrameInductive DEF IInv, Submit
<1>2. CASE FindRow
  <2>1. TypeOK'
    BY <1>2 DEF IInv, TypeOK, FindRow
  <2> QED
    BY <1>2, <2>1, FrameInductive DEF IInv, FindRow
<1>3. CASE InsertRow
  <2>1. PendingRow \in Row /\ Len(PendingRow.history) = 0
    BY DEF PendingRow, Row, Statuses, Progress
  <2>2. TypeOK'
    BY <1>3, <2>1, HistoryAssumption DEF IInv, TypeOK, InsertRow
  <2> QED
    BY <1>3, <2>2, FrameInductive DEF IInv, InsertRow
<1> QED
  BY <1>1, <1>2, <1>3

LEMMA StageInductive ==
  ASSUME IInv, NEW s \in Stages, NEW status \in Outcomes[s], StageRuns(s, status)
  PROVE  IInv'
<1> DEFINE e == [id |-> Published + 1, stage |-> s, status |-> status,
                 doc |-> ~(s = "fetch" /\ status = "failed")]
<1>1. status \in Statuses
  BY DEF Outcomes, Stages, Statuses, Progress
<1>2. e \in Event
  BY <1>1, PublishedType, BoundsAssumption DEF IInv, StageRuns, Event
<1>3. flying' = flying \union {e} /\ IsFiniteSet(flying')
  BY FS_AddElement DEF IInv, StageRuns
<1>4. todo' \in [Stages -> Nat] /\ dead' \in [Stages -> Nat] /\ faults' \in 0..MaxFaults
  <2>1. PICK redelivered \in BOOLEAN :
          /\ IF redelivered THEN Fault ELSE UNCHANGED faults
          /\ todo' = [t \in Stages |->
                        todo[t] - (IF t = s /\ ~redelivered THEN 1 ELSE 0)
                                + (IF <<s, t, status>> \in {<<"fetch", "chunk", "fetched">>,
                                                            <<"chunk", "embed", "chunked">>}
                                     THEN 1 ELSE 0)]
    BY DEF StageRuns
  <2>2. \A t \in Stages : /\ todo[t] \in Nat
                          /\ t = s => todo[t] > 0
    BY DEF IInv, TypeOK, StageRuns
  <2>3. todo' \in [Stages -> Nat]
    BY <2>1, <2>2
  <2>4. dead' \in [Stages -> Nat]
    BY DEF IInv, TypeOK, StageRuns
  <2>5. faults' \in 0..MaxFaults
    BY <2>1, BoundsAssumption DEF IInv, TypeOK, Fault
  <2> QED
    BY <2>3, <2>4, <2>5
<1>5. indexed' \in BOOLEAN /\ doc' \in {"none", "alive", "deleted"}
  BY DEF IInv, TypeOK, StageRuns
<1>6. TypeOK'
  BY <1>2, <1>3, <1>4, <1>5 DEF IInv, TypeOK, StageRuns, projector
<1> QED
  BY <1>3, <1>6, FrameInductive DEF StageRuns

LEMMA EnvironmentInductive ==
  ASSUME IInv, OtherIndexes \/ DeleteDocument \/ \E s \in Stages : Replay(s)
  PROVE  IInv'
<1> USE DEF projector
<1>1. CASE OtherIndexes
  <2>1. TypeOK'
    BY <1>1 DEF IInv, TypeOK, OtherIndexes
  <2> QED
    BY <1>1, <2>1, FrameInductive DEF IInv, OtherIndexes
<1>2. CASE DeleteDocument
  <2>1. /\ row' \in Row \union {NoRow}
        /\ row' # NoRow => Len(row'.history) <= HISTORY_MAX
    BY <1>2 DEF IInv, TypeOK, DeleteDocument, Row
  <2>2. TypeOK'
    <3>1. faults' \in 0..MaxFaults
      BY <1>2, BoundsAssumption DEF IInv, TypeOK, DeleteDocument, Fault
    <3> QED
      BY <1>2, <2>1, <3>1 DEF IInv, TypeOK, DeleteDocument
  <2> QED
    BY <1>2, <2>2, FrameInductive DEF IInv, DeleteDocument
<1>3. ASSUME NEW s \in Stages, Replay(s) PROVE IInv'
  <2>1. todo' \in [Stages -> Nat] /\ dead' \in [Stages -> Nat] /\ faults' \in 0..MaxFaults
    BY <1>3, BoundsAssumption DEF IInv, TypeOK, Replay, Fault
  <2>2. TypeOK'
    BY <1>3, <2>1 DEF IInv, TypeOK, Replay
  <2> QED
    BY <1>3, <2>2, FrameInductive DEF IInv, Replay
<1> QED
  BY <1>1, <1>2, <1>3

(* The broker only appends: what is in the log stays where it is.            *)
LEMMA AppendInductive ==
  ASSUME IInv, NEW e \in flying, Append1(e)
  PROVE  IInv'
<1> DEFINE p == IF e.doc THEN "doc" ELSE "url"
<1> USE DEF projector
<1>1. e \in Event /\ p \in Partitions
  BY DEF IInv, TypeOK, Partitions
<1>2. log' = [log EXCEPT ![p] = Append(log[p], e)] /\ UNCHANGED <<projector, recorded>>
  BY DEF Append1
<1>3. \A q \in Partitions : /\ log[q] \in Seq(Event)
                            /\ committed[q] \in Nat /\ committed[q] <= Len(log[q])
  BY DEF IInv, TypeOK
<1>4. \A q \in Partitions :
        /\ log'[q] \in Seq(Event)
        /\ Len(log'[q]) >= Len(log[q])
        /\ \A k \in 1..Len(log[q]) : log'[q][k] = log[q][k]
  <2> TAKE q \in Partitions
  <2>1. CASE q = p
    <3>1. log'[q] = Append(log[q], e)
      BY <1>1, <1>2, <2>1 DEF IInv, TypeOK, Append1
    <3> QED
      BY <1>1, <1>3, <3>1
  <2>2. CASE q # p
    <3>1. log'[q] = log[q]
      BY <1>2, <2>2 DEF Append1
    <3> QED
      BY <1>3, <3>1
  <2> QED
    BY <2>1, <2>2
<1>5. flying' \subseteq flying /\ IsFiniteSet(flying')
  BY FS_Subset DEF IInv, Append1
<1>6. TypeOK'
  <2>1. log' \in [Partitions -> Seq(Event)]
    BY <1>1, <1>2, <1>4 DEF IInv, TypeOK
  <2>2. \A q \in Partitions : committed'[q] <= Len(log'[q])
    BY <1>2, <1>3, <1>4
  <2> QED
    BY <1>5, <2>1, <2>2 DEF IInv, TypeOK, Append1
<1>7. WrittenIsRecorded'
  BY <1>2, SameRecorded DEF IInv, WrittenIsRecorded
<1>8. OwnerReadsNext'
  <2> SUFFICES ASSUME NEW k \in Projectors, job[k] # Idle, owner[job[k].p] = k
               PROVE  /\ committed[job[k].p] < Len(log'[job[k].p])
                      /\ job[k].e = log'[job[k].p][committed[job[k].p] + 1]
    BY <1>2 DEF OwnerReadsNext
  <2> DEFINE q == job[k].p
  <2>1. q \in Partitions
    BY DEF IInv, TypeOK, Job
  <2>2. committed[q] < Len(log[q]) /\ job[k].e = log[q][committed[q] + 1]
    BY DEF IInv, OwnerReadsNext
  <2>3. /\ committed[q] \in Nat /\ Len(log[q]) \in Nat /\ Len(log'[q]) \in Nat
        /\ Len(log'[q]) >= Len(log[q])
    BY <1>3, <1>4, <2>1
  <2>4. committed[q] + 1 \in 1..Len(log[q])
    BY <2>2, <2>3
  <2> QED
    BY <1>4, <2>1, <2>2, <2>3, <2>4
<1>9. CommittedIsRecorded'
  BY <1>2, <1>3, <1>4, SameRecorded DEF IInv, CommittedIsRecorded
<1> QED
  BY <1>5, <1>6, <1>7, <1>8, <1>9 DEF IInv

(* What a step of instance i leaves alone. *)
LEMMA StartInductive ==
  ASSUME IInv, NEW i \in Projectors, NEW p \in Partitions,
         Start(i, p), faults' \in 0..MaxFaults
  PROVE  IInv'
<1> USE DEF pipeline
<1>1. log[p] \in Seq(Event) /\ committed[p] \in Nat /\ committed[p] < Len(log[p])
  BY DEF IInv, TypeOK, Start
<1>2. committed[p] + 1 \in 1..Len(log[p])
  BY <1>1
<1>3. log[p][committed[p] + 1] \in Event
  BY <1>1, <1>2, ElementOfSeq
<1> DEFINE j == [at |-> "record", p |-> p, e |-> log[p][committed[p] + 1]]
<1>4. j \in Job /\ j.at = "record" /\ j.p = p /\ j.e = log[p][committed[p] + 1]
  BY <1>3 DEF Job
<1>5. /\ job' = [job EXCEPT ![i] = j] /\ owner' = [owner EXCEPT ![p] = i]
      /\ UNCHANGED <<api, pipeline, doc, committed, row, recorded>>
  BY DEF Start
<1> HIDE DEF j
<1>6. TypeOK'
  BY <1>4, <1>5 DEF IInv, TypeOK
<1>7. WrittenIsRecorded'
  BY <1>4, <1>5, SameRecorded DEF IInv, TypeOK, WrittenIsRecorded
<1>8. OwnerReadsNext'
  <2> SUFFICES ASSUME NEW k \in Projectors, job'[k] # Idle, owner'[job'[k].p] = k
               PROVE  /\ committed[job'[k].p] < Len(log[job'[k].p])
                      /\ job'[k].e = log[job'[k].p][committed[job'[k].p] + 1]
    BY <1>5 DEF OwnerReadsNext
  <2>1. CASE k = i
    BY <1>1, <1>4, <1>5, <2>1 DEF IInv, TypeOK
  <2>2. CASE k # i
    <3>1. job'[k] = job[k] /\ job[k] \in Job
      BY <1>5, <2>2 DEF IInv, TypeOK
    <3>2. job[k].p \in Partitions
      BY <3>1 DEF Job
    <3>3. owner[job[k].p] = k
      BY <1>5, <2>2, <3>1, <3>2 DEF IInv, TypeOK
    <3> QED
      BY <3>1, <3>3 DEF IInv, OwnerReadsNext
  <2> QED
    BY <2>1, <2>2
<1>9. CommittedIsRecorded'
  BY <1>5, SameRecorded DEF IInv, CommittedIsRecorded
<1> QED
  BY <1>5, <1>6, <1>7, <1>8, <1>9 DEF IInv

LEMMA ReconnectInductive ==
  ASSUME IInv, NEW i \in Projectors, Reconnect(i), faults' \in 0..MaxFaults
  PROVE  IInv'
<1> USE DEF pipeline
<1>1. TypeOK'
  BY DEF IInv, TypeOK, Reconnect
<1>2. WrittenIsRecorded'
  BY SameRecorded DEF IInv, TypeOK, WrittenIsRecorded, Reconnect
<1>3. OwnerReadsNext'
  <2> SUFFICES ASSUME NEW k \in Projectors, job'[k] # Idle, owner'[job'[k].p] = k
               PROVE  /\ committed[job'[k].p] < Len(log[job'[k].p])
                      /\ job'[k].e = log[job'[k].p][committed[job'[k].p] + 1]
    BY DEF OwnerReadsNext, Reconnect
  <2>1. k # i /\ job'[k] = job[k]
    BY DEF IInv, TypeOK, Reconnect
  <2>2. job[k].p \in Partitions
    BY <2>1 DEF IInv, TypeOK, Job
  <2>3. owner[job[k].p] = k
    BY <2>1, <2>2, ProjectorsAssumption DEF IInv, TypeOK, Reconnect
  <2> QED
    BY <2>1, <2>3 DEF IInv, OwnerReadsNext
<1>4. CommittedIsRecorded'
  BY SameRecorded DEF IInv, CommittedIsRecorded, Reconnect
<1> QED
  BY <1>1, <1>2, <1>3, <1>4 DEF IInv, Reconnect

(* What the history variables become: one more id in the timeline, or none.  *)
LEMMA RememberType ==
  ASSUME timeline \in Seq(1..MaxEvents), revived \subseteq 1..MaxEvents,
         NEW r, NEW e, e.id \in 1..MaxEvents, Remember(r, e)
  PROVE  /\ timeline' \in Seq(1..MaxEvents) /\ revived' \subseteq 1..MaxEvents
         /\ applied' = applied \union {e.id}
<1>1. revived' \subseteq 1..MaxEvents
  BY DEF Remember
<1>2. CASE e.id \in applied
  BY <1>1, <1>2 DEF Remember, applied
<1>3. CASE e.id \notin applied
  <2>1. timeline' = Append(timeline, e.id)
    BY <1>3 DEF Remember
  <2>2. /\ Append(timeline, e.id) \in Seq(1..MaxEvents) /\ Len(timeline) \in Nat
        /\ DOMAIN timeline = 1..Len(timeline)
        /\ DOMAIN Append(timeline, e.id) = 1..Len(timeline) + 1
        /\ \A k \in 1..Len(timeline) : Append(timeline, e.id)[k] = timeline[k]
        /\ Append(timeline, e.id)[Len(timeline) + 1] = e.id
    OBVIOUS
  <2>3. \A k \in 1..Len(timeline) + 1 : k \in 1..Len(timeline) \/ k = Len(timeline) + 1
    BY <2>2
  <2>4. 1..Len(timeline) \subseteq 1..Len(timeline) + 1 /\ Len(timeline) + 1 \in 1..Len(timeline) + 1
    BY <2>2
  <2>5. applied' = applied \union {e.id}
    <3>1. ASSUME NEW x \in applied' PROVE x \in applied \union {e.id}
      BY <2>1, <2>2, <2>3, <3>1 DEF applied
    <3>2. ASSUME NEW x \in applied PROVE x \in applied'
      BY <2>1, <2>2, <2>4, <3>2 DEF applied
    <3>3. e.id \in applied'
      BY <2>1, <2>2, <2>4 DEF applied
    <3> QED
      BY <3>1, <3>2, <3>3
  <2> QED
    BY <1>1, <2>1, <2>2, <2>5
<1> QED
  BY <1>2, <1>3

LEMMA WriteInductive ==
  ASSUME IInv, NEW i \in Projectors, job[i] # Idle, NEW r \in Row,
         Len(r.history) <= HISTORY_MAX, Write(i, r), UNCHANGED faults
  PROVE  IInv'
<1> USE DEF pipeline
<1> DEFINE e == job[i].e
<1>1. CASE ~Recorded(r, e) /\ ~ForeignKeyHolds(e)
  <2>1. Reconnect(i)
    BY <1>1 DEF Write
  <2>2. faults' \in 0..MaxFaults
    BY DEF IInv, TypeOK
  <2> QED
    BY <2>1, <2>2, ReconnectInductive
<1>2. CASE Recorded(r, e) \/ ForeignKeyHolds(e)
  <2>1. /\ row' = IF Recorded(r, e) THEN r ELSE Apply(r, e)
        /\ Remember(r, e)
        /\ job' = [job EXCEPT ![i].at = "commit"]
        /\ UNCHANGED <<api, pipeline, doc, committed, owner>>
    BY <1>2 DEF Write
  <2>2. job[i] \in Job /\ e \in Event
    BY DEF IInv, TypeOK, Job
  <2>3. row' \in Row /\ Len(row'.history) <= HISTORY_MAX
    BY <2>1, <2>2, ApplyType
  <2>4. /\ job'[i] \in Job /\ job'[i].p = job[i].p /\ job'[i].e = e
        /\ \A k \in Projectors \ {i} : job'[k] = job[k]
        /\ job' \in [Projectors -> Job \union {Idle}]
    BY <2>1, <2>2 DEF IInv, TypeOK, Job
  <2>5. TypeOK' /\ applied' = applied \union {e.id}
    <3>1. e.id \in 1..MaxEvents /\ timeline \in Seq(1..MaxEvents) /\ revived \subseteq 1..MaxEvents
      BY <2>2 DEF IInv, TypeOK, Event
    <3>2. /\ timeline' \in Seq(1..MaxEvents) /\ revived' \subseteq 1..MaxEvents
          /\ applied' = applied \union {e.id}
      BY <2>1, <3>1, RememberType
    <3> QED
      BY <2>1, <2>3, <2>4, <3>2 DEF IInv, TypeOK
  <2>6. WrittenIsRecorded'
    BY <2>1, <2>4, <2>5 DEF IInv, WrittenIsRecorded
  <2>7. OwnerReadsNext'
    BY <2>1, <2>2, <2>4 DEF IInv, OwnerReadsNext
  <2>8. CommittedIsRecorded'
    BY <2>1, <2>5 DEF IInv, CommittedIsRecorded
  <2> QED
    BY <2>1, <2>5, <2>6, <2>7, <2>8 DEF IInv
<1> QED
  BY <1>1, <1>2

LEMMA RecordInductive ==
  ASSUME IInv, NEW i \in Projectors, Record(i) \/ Insert(i)
  PROVE  IInv'
<1> USE DEF pipeline
<1>1. row # NoRow => row \in Row /\ Len(row.history) <= HISTORY_MAX
  BY DEF IInv, TypeOK
<1>2. PendingRow \in Row /\ Len(PendingRow.history) <= HISTORY_MAX
  BY HistoryAssumption DEF PendingRow, Row, Statuses, Progress
<1>3. job[i] # Idle /\ UNCHANGED faults /\ faults' \in 0..MaxFaults
  BY DEF Record, Insert, IInv, TypeOK
<1>4. CASE Record(i) /\ row = NoRow
  <2>1. /\ job' = [job EXCEPT ![i].at = "insert"]
        /\ UNCHANGED <<api, pipeline, doc, committed, owner, row, recorded, faults>>
    BY <1>4 DEF Record
  <2>2. /\ job[i] \in Job /\ job'[i] \in Job
        /\ job'[i].at = "insert" /\ job'[i].p = job[i].p /\ job'[i].e = job[i].e
        /\ \A k \in Projectors \ {i} : job'[k] = job[k]
        /\ job' \in [Projectors -> Job \union {Idle}]
    BY <1>3, <2>1 DEF IInv, TypeOK, Job
  <2>3. TypeOK'
    BY <2>1, <2>2 DEF IInv, TypeOK
  <2>4. WrittenIsRecorded' /\ OwnerReadsNext' /\ CommittedIsRecorded'
    BY <1>3, <2>1, <2>2, SameRecorded
       DEF IInv, WrittenIsRecorded, OwnerReadsNext, CommittedIsRecorded
  <2> QED
    BY <2>1, <2>3, <2>4 DEF IInv
<1>5. CASE Record(i) /\ row # NoRow
  BY <1>1, <1>3, <1>5, WriteInductive DEF Record
<1>6. CASE Insert(i) /\ row = NoRow
  BY <1>2, <1>3, <1>6, WriteInductive DEF Insert
<1>7. CASE Insert(i) /\ row # NoRow
  BY <1>3, <1>7, ReconnectInductive DEF Insert
<1> QED
  BY <1>4, <1>5, <1>6, <1>7

(* The commit: the owner's offset moves over exactly the event it wrote,     *)
(* and an instance that lost the partition moves nothing.                   *)
LEMMA CommitInductive ==
  ASSUME IInv, NEW i \in Projectors, Commit(i)
  PROVE  IInv'
<1> USE DEF pipeline
<1> DEFINE p == job[i].p
<1>1. /\ job[i] \in Job /\ p \in Partitions /\ job[i] # Idle /\ job[i].e.id \in applied
      /\ committed[p] \in Nat
  BY DEF IInv, TypeOK, Job, Commit, WrittenIsRecorded
<1>2. /\ committed' = IF owner[p] = i THEN [committed EXCEPT ![p] = @ + 1] ELSE committed
      /\ job' = [job EXCEPT ![i] = Idle]
      /\ UNCHANGED <<api, pipeline, doc, owner, row, recorded, faults>>
  BY DEF Commit
<1>3. owner[p] = i => committed[p] < Len(log[p]) /\ job[i].e = log[p][committed[p] + 1]
  BY <1>1 DEF IInv, OwnerReadsNext
<1>4. \A q \in Partitions :
        committed'[q] = IF q = p /\ owner[p] = i THEN committed[q] + 1 ELSE committed[q]
  BY <1>1, <1>2 DEF IInv, TypeOK
<1>5. TypeOK'
  <2>1. committed' \in [Partitions -> Nat]
    BY <1>1, <1>2 DEF IInv, TypeOK
  <2>2. \A q \in Partitions : committed'[q] <= Len(log[q])
    <3>1. \A q \in Partitions : Len(log[q]) \in Nat
      BY DEF IInv, TypeOK
    <3> QED
      BY <1>1, <1>3, <1>4, <3>1 DEF IInv, TypeOK
  <2> QED
    BY <1>2, <2>1, <2>2 DEF IInv, TypeOK
<1>6. WrittenIsRecorded'
  BY <1>2, SameRecorded DEF IInv, TypeOK, WrittenIsRecorded
<1>7. OwnerReadsNext'
  <2> SUFFICES ASSUME NEW k \in Projectors, job'[k] # Idle, owner[job'[k].p] = k
               PROVE  /\ committed'[job'[k].p] < Len(log[job'[k].p])
                      /\ job'[k].e = log[job'[k].p][committed'[job'[k].p] + 1]
    BY <1>2 DEF OwnerReadsNext
  <2>1. k # i /\ job'[k] = job[k] /\ job[k].p \in Partitions
    BY <1>2 DEF IInv, TypeOK, Job
  <2>2. committed'[job[k].p] = committed[job[k].p]
    BY <1>4, <2>1
  <2> QED
    BY <2>1, <2>2 DEF IInv, OwnerReadsNext
<1>8. CommittedIsRecorded'
  <2> SUFFICES ASSUME NEW q \in Partitions, NEW k \in 1..committed'[q]
               PROVE  log[q][k].id \in applied
    BY <1>2, SameRecorded DEF CommittedIsRecorded
  <2>1. CASE k \in 1..committed[q]
    BY <2>1 DEF IInv, CommittedIsRecorded
  <2>2. CASE k \notin 1..committed[q]
    <3>1. q = p /\ owner[p] = i /\ k = committed[p] + 1
      BY <1>1, <1>4, <2>2
    <3> QED
      BY <1>1, <1>3, <3>1
  <2> QED
    BY <2>1, <2>2
<1> QED
  BY <1>2, <1>5, <1>6, <1>7, <1>8 DEF IInv

------------------------------------------------------------------------------
LEMMA StepInductive == IInv /\ [Next]_vars => IInv'
<1> SUFFICES ASSUME IInv, [Next]_vars PROVE IInv'
  OBVIOUS
<1>1. faults \in 0..MaxFaults
  BY DEF IInv, TypeOK
<1>2. CASE Submit \/ FindRow \/ InsertRow
  BY <1>2, ApiInductive
<1>3. CASE Environment
  <2>1. ASSUME NEW e \in flying, Append1(e) PROVE IInv'
    BY <2>1, AppendInductive
  <2>2. ASSUME NEW s \in Stages, NEW o \in Outcomes[s], StageRuns(s, o) PROVE IInv'
    BY <2>2, StageInductive
  <2> QED
    BY <1>3, <2>1, <2>2, EnvironmentInductive DEF Environment
<1>4. ASSUME NEW i \in Projectors, Project(i) PROVE IInv'
  <2>1. ASSUME NEW p \in Partitions, Next1(i, p) PROVE IInv'
    BY <1>1, <2>1, StartInductive DEF Next1
  <2> QED
    BY <1>4, <2>1, RecordInductive, CommitInductive DEF Project
<1>5. ASSUME NEW i \in Projectors, Crash(i) PROVE IInv'
  <2>1. faults' \in 0..MaxFaults
    BY <1>1, <1>5, BoundsAssumption DEF Crash, Fault
  <2> QED
    BY <1>5, <2>1, ReconnectInductive DEF Crash
<1>6. ASSUME NEW i \in Projectors, NEW p \in Partitions, TakeOver(i, p) PROVE IInv'
  <2>1. faults' \in 0..MaxFaults
    BY <1>1, <1>6, BoundsAssumption DEF TakeOver, Fault
  <2> QED
    BY <1>6, <2>1, StartInductive DEF TakeOver
<1>7. CASE Quiet \/ UNCHANGED vars
  <2>1. UNCHANGED vars
    BY <1>7 DEF Quiet
  <2>2. TypeOK'
    BY <2>1 DEF IInv, TypeOK, vars
  <2> QED
    BY <2>1, <2>2, FrameInductive DEF IInv, vars, projector
<1> QED
  BY <1>2, <1>3, <1>4, <1>5, <1>6, <1>7 DEF Next

(* The inductive invariant of the projection holds in every reachable state. *)
THEOREM Inductive == Spec => []IInv
BY InitInductive, StepInductive, PTL DEF Spec

(* TypeOK holds in every reachable state: the history keeps its limit, the   *)
(* offset stays within the partition.                                       *)
THEOREM TypeCorrect == Spec => []TypeOK
<1>1. IInv => TypeOK
  BY DEF IInv
<1> QED
  BY <1>1, Inductive, PTL

(* CommittedIsRecorded: however the projector instances crash, rebalance,    *)
(* lose an insert or a transaction, the group's offset never passes an event *)
(* that the request row does not have.                                      *)
THEOREM NothingSkipped == Spec => []CommittedIsRecorded
<1>1. IInv => CommittedIsRecorded
  BY DEF IInv
<1> QED
  BY <1>1, Inductive, PTL

(* IndexedStays: no event, late or repeated, takes an indexed row back to an *)
(* earlier stage.                                                           *)
THEOREM IndexedNotRolledBack == Spec => IndexedStays
<1> DEFINE Stays == row.status = "indexed" => row'.status \in TERMINAL_STATUSES
<1>1. ASSUME IInv, [Next]_vars PROVE [Stays]_row
  <2> SUFFICES ASSUME row.status = "indexed", row' # row
               PROVE  row'.status \in TERMINAL_STATUSES
    OBVIOUS
  <2>1. row # NoRow /\ row \in Row
    BY <1>1 DEF IInv, TypeOK, NoRow
  <2>2. ASSUME NEW i \in Projectors, job[i] # Idle, Write(i, row)
        PROVE  row'.status \in TERMINAL_STATUSES
    <3>1. job[i].e.status \in Statuses
      BY <1>1, <2>2 DEF IInv, TypeOK, Job, Event
    <3>2. row' = Apply(row, job[i].e)
      BY <2>2 DEF Write, Reconnect
    <3> QED
      BY <3>1, <3>2, IndexedGivesWay DEF Apply, is_final, TERMINAL_STATUSES
  <2>3. ASSUME NEW i \in Projectors, Project(i) PROVE row'.status \in TERMINAL_STATUSES
    <3>1. Record(i) \/ UNCHANGED row
      BY <2>1, <2>3 DEF Project, Insert, Commit, Next1, Start, Reconnect
    <3>2. job[i] # Idle /\ Write(i, row)
      BY <2>1, <3>1 DEF Record
    <3> QED
      BY <2>2, <3>2
  <2>4. CASE DeleteDocument
    <3>1. row'.status = row.status
      BY <2>1, <2>4 DEF DeleteDocument, Row
    <3> QED
      BY <3>1 DEF TERMINAL_STATUSES
  <2>5. CASE Submit \/ FindRow \/ InsertRow \/ Quiet \/ UNCHANGED vars
    BY <2>1, <2>5 DEF Submit, FindRow, InsertRow, Quiet, vars
  <2>6. CASE Environment
    <3>1. DeleteDocument \/ UNCHANGED row
      BY <2>6 DEF Environment, StageRuns, OtherIndexes, Append1, Replay
    <3> QED
      BY <2>4, <3>1
  <2>7. ASSUME NEW i \in Projectors,
               Crash(i) \/ \E p \in Partitions : TakeOver(i, p)
        PROVE  row'.status \in TERMINAL_STATUSES
    BY <2>7 DEF Crash, Reconnect, TakeOver, Start
  <2> QED
    BY <1>1, <2>3, <2>5, <2>6, <2>7 DEF Next
<1> QED
  BY <1>1, Inductive, PTL DEF Spec, IndexedStays

------------------------------------------------------------------------------
(* The history.  What it says needs two more facts: the events it has are    *)
(* recorded ones, and nothing is recorded before there is a row.             *)

HistoryIsApplied == row # NoRow => \A k \in DOMAIN row.history : row.history[k] \in applied
NothingBeforeRow == row = NoRow => timeline = <<>> /\ revived = {}

IHistory == HistoryIsTheTimeline /\ HistoryIsApplied /\ NothingBeforeRow

AllDistinct(h) == \A j, k \in DOMAIN h : j # k => h[j] # h[k]
Within(h, ids) == \A k \in DOMAIN h : h[k] \in ids
(* A history as long as a timeline of n events lets it be. *)
FullFor(h, n)  == Len(h) = (IF n > HISTORY_MAX THEN HISTORY_MAX ELSE n)
Shows(h, t, r) == IF r = {} THEN h = Trim(t)
                            ELSE Len(t) > HISTORY_MAX /\ Len(h) = HISTORY_MAX

LEMMA IdsFinite ==
  ASSUME NEW ids \in SUBSET (1..MaxEvents)
  PROVE  IsFiniteSet(ids) /\ Cardinality(ids) \in Nat
<1>1. IsFiniteSet(1..MaxEvents)
  BY FS_Interval, BoundsAssumption
<1> QED
  BY <1>1, FS_Subset, FS_CardinalityType

(* A list without repetition is no longer than the set it is taken from.     *)
LEMMA DistinctBound ==
  ASSUME NEW ids \in SUBSET (1..MaxEvents), NEW h \in Seq(1..MaxEvents),
         AllDistinct(h), Within(h, ids)
  PROVE  Len(h) <= Cardinality(ids)
<1>1. Len(h) \in Nat /\ DOMAIN h = 1..Len(h) /\ h \in [1..Len(h) -> 1..MaxEvents]
  BY LenProperties
<1>2. h \in [1..Len(h) -> ids]
  BY <1>1 DEF Within
<1>3. h \in Injection(1..Len(h), ids)
  BY <1>1, <1>2 DEF Injection, IsInjective, AllDistinct
<1>4. Cardinality(1..Len(h)) = Len(h)
  <2>1. 1 \in Int /\ Len(h) \in Int
    BY <1>1
  <2>2. Cardinality(1..Len(h)) = IF 1 > Len(h) THEN 0 ELSE Len(h) - 1 + 1
    BY <2>1, FS_Interval
  <2> QED
    BY <1>1, <2>2
<1>5. Cardinality(1..Len(h)) <= Cardinality(ids)
  BY <1>3, IdsFinite, FS_Injection
<1> QED
  BY <1>4, <1>5

LEMMA TrimKeeps ==
  ASSUME NEW h \in Seq(1..MaxEvents), NEW ids, AllDistinct(h), Within(h, ids)
  PROVE  /\ AllDistinct(Trim(h)) /\ Within(Trim(h), ids)
         /\ Len(Trim(h)) = (IF Len(h) <= HISTORY_MAX THEN Len(h) ELSE HISTORY_MAX)
<1>1. CASE Len(h) <= HISTORY_MAX
  BY <1>1 DEF Trim
<1>2. CASE Len(h) > HISTORY_MAX
  <2> DEFINE d == Len(h) - HISTORY_MAX
             g == SubSeq(h, d + 1, Len(h))
  <2>1. d \in Nat /\ d + HISTORY_MAX = Len(h) /\ Len(h) \in Nat /\ DOMAIN h = 1..Len(h)
    BY <1>2, HistoryAssumption
  <2>2. Trim(h) = g
    BY <1>2, HistoryAssumption DEF Trim
  <2>3. \A k \in 1..Len(h) : h[k] \in 1..MaxEvents
    BY ElementOfSeq
  <2>4. /\ Len(g) = HISTORY_MAX
        /\ \A k \in 1..HISTORY_MAX : g[k] = h[d + k]
        /\ g \in Seq(1..MaxEvents)
    BY <2>1, <2>3, HistoryAssumption
  <2> HIDE DEF d, g
  <2>5. DOMAIN g = 1..HISTORY_MAX /\ \A k \in 1..HISTORY_MAX : d + k \in DOMAIN h
    BY <2>1, <2>4, HistoryAssumption
  <2>6. AllDistinct(g)
    <3> SUFFICES ASSUME NEW j \in 1..HISTORY_MAX, NEW k \in 1..HISTORY_MAX, j # k
                 PROVE  g[j] # g[k]
      BY <2>5 DEF AllDistinct
    <3>1. d + j \in DOMAIN h /\ d + k \in DOMAIN h /\ d + j # d + k
      BY <2>1, <2>5, HistoryAssumption
    <3> QED
      BY <2>4, <3>1 DEF AllDistinct
  <2>7. Within(g, ids)
    BY <2>4, <2>5 DEF Within
  <2> QED
    BY <1>2, <2>2, <2>4, <2>6, <2>7, HistoryAssumption
<1> QED
  BY <1>1, <1>2, HistoryAssumption

(* There are no more recorded events than entries of the timeline.          *)
LEMMA AppliedBound ==
  ASSUME timeline \in Seq(1..MaxEvents)
  PROVE  Cardinality(applied) <= Len(timeline)
<1>1. /\ Len(timeline) \in Nat /\ DOMAIN timeline = 1..Len(timeline)
      /\ timeline \in [1..Len(timeline) -> applied]
  BY LenProperties DEF applied
<1>2. timeline \in Surjection(1..Len(timeline), applied)
  BY <1>1 DEF Surjection, applied
<1>3. IsFiniteSet(1..Len(timeline)) /\ Cardinality(1..Len(timeline)) = Len(timeline)
  <2>1. 1 \in Int /\ Len(timeline) \in Int
    BY <1>1
  <2>2. /\ IsFiniteSet(1..Len(timeline))
        /\ Cardinality(1..Len(timeline)) = IF 1 > Len(timeline) THEN 0 ELSE Len(timeline) - 1 + 1
    BY <2>1, FS_Interval
  <2> QED
    BY <1>1, <2>2
<1> QED
  BY <1>2, <1>3, FS_Surjection

(* A trimmed history that takes one more event is the trimmed longer one.    *)
LEMMA TrimAppend ==
  ASSUME NEW t \in Seq(1..MaxEvents), NEW id \in 1..MaxEvents
  PROVE  Trim(Append(Trim(t), id)) = Trim(Append(t, id))
<1>1. CASE Len(t) <= HISTORY_MAX
  BY <1>1 DEF Trim
<1>2. CASE Len(t) > HISTORY_MAX
  <2> DEFINE d == Len(t) - HISTORY_MAX
             g == Trim(t)
             a == Append(g, id)
             b == Append(t, id)
  <2>1. d \in Nat \ {0} /\ d + HISTORY_MAX = Len(t) /\ Len(t) \in Nat /\ HISTORY_MAX \in Nat \ {0}
    BY <1>2, HistoryAssumption
  <2>2. \A k \in 1..Len(t) : t[k] \in 1..MaxEvents
    BY ElementOfSeq
  <2>3. /\ g \in Seq(1..MaxEvents) /\ Len(g) = HISTORY_MAX
        /\ \A k \in 1..HISTORY_MAX : g[k] = t[d + k]
    <3>1. g = SubSeq(t, d + 1, Len(t))
      BY <1>2, HistoryAssumption DEF Trim
    <3> HIDE DEF d, g
    <3>2. /\ d + 1 \in Int /\ Len(t) \in Int /\ d + 1 <= Len(t) /\ Len(t) - (d + 1) + 1 = HISTORY_MAX
          /\ \A k \in 1..HISTORY_MAX : d + 1 + k - 1 = d + k
      BY <2>1
    <3>3. \A k \in d + 1 .. Len(t) : t[k] \in 1..MaxEvents
      BY <2>1, <2>2
    <3>4. /\ g \in Seq(1..MaxEvents) /\ Len(g) = HISTORY_MAX
          /\ \A k \in 1..HISTORY_MAX : g[k] = t[d + 1 + k - 1]
      BY <3>1, <3>2, <3>3, SubSeqProperties
    <3> QED
      BY <3>2, <3>4
  <2> HIDE DEF d, g
  <2>4. /\ a \in Seq(1..MaxEvents) /\ Len(a) = HISTORY_MAX + 1 /\ a[HISTORY_MAX + 1] = id
        /\ \A k \in 1..HISTORY_MAX : a[k] = g[k]
    BY <2>1, <2>3
  <2>5. /\ b \in Seq(1..MaxEvents) /\ Len(b) = Len(t) + 1 /\ b[Len(t) + 1] = id
        /\ \A k \in 1..Len(t) : b[k] = t[k]
    BY <2>1
  <2> HIDE DEF a, b
  <2>6. /\ Trim(a) = SubSeq(a, 2, HISTORY_MAX + 1)
        /\ Trim(b) = SubSeq(b, d + 2, Len(t) + 1)
    <3>1. /\ Len(a) > HISTORY_MAX /\ Len(a) - HISTORY_MAX + 1 = 2
          /\ Len(b) > HISTORY_MAX /\ Len(b) - HISTORY_MAX + 1 = d + 2
      <4>1. Len(a) = HISTORY_MAX + 1
        BY <2>4
      <4>2. Len(b) = d + HISTORY_MAX + 1
        BY <2>1, <2>5
      <4>3. HISTORY_MAX + 1 > HISTORY_MAX /\ (HISTORY_MAX + 1) - HISTORY_MAX + 1 = 2
        BY <2>1
      <4>4. d + HISTORY_MAX + 1 > HISTORY_MAX /\ (d + HISTORY_MAX + 1) - HISTORY_MAX + 1 = d + 2
        BY <2>1
      <4>5. Len(a) > HISTORY_MAX /\ Len(a) - HISTORY_MAX + 1 = 2
        BY <4>1, <4>3, Zenon
      <4>6. Len(b) > HISTORY_MAX /\ Len(b) - HISTORY_MAX + 1 = d + 2
        BY <4>2, <4>4, Zenon
      <4> QED
        BY <4>5, <4>6, Zenon
    <3>2. ~(Len(a) <= HISTORY_MAX) /\ ~(Len(b) <= HISTORY_MAX)
      BY <2>1, <2>4, <2>5
    <3> QED
      BY <2>4, <2>5, <3>1, <3>2 DEF Trim
  <2>7. /\ \A k \in 1..HISTORY_MAX + 1 : a[k] \in 1..MaxEvents
        /\ \A k \in 1..Len(t) + 1 : b[k] \in 1..MaxEvents
    BY <2>4, <2>5, ElementOfSeq
  <2>8. /\ Trim(a) \in Seq(1..MaxEvents) /\ Len(Trim(a)) = HISTORY_MAX
        /\ \A k \in 1..HISTORY_MAX : Trim(a)[k] = a[k + 1]
    BY <2>1, <2>6, <2>7
  <2>9. /\ Trim(b) \in Seq(1..MaxEvents) /\ Len(Trim(b)) = HISTORY_MAX
        /\ \A k \in 1..HISTORY_MAX : Trim(b)[k] = b[d + 1 + k]
    BY <2>1, <2>6, <2>7
  <2>10. \A k \in 1..HISTORY_MAX : a[k + 1] = b[d + 1 + k]
    <3> SUFFICES ASSUME NEW k \in 1..HISTORY_MAX PROVE a[k + 1] = b[d + 1 + k]
      OBVIOUS
    <3>1. CASE k = HISTORY_MAX
      <4>1. d + 1 + k = Len(t) + 1
        BY <2>1, <3>1
      <4> QED
        BY <2>4, <2>5, <3>1, <4>1
    <3>2. CASE k # HISTORY_MAX
      <4>1. k + 1 \in 1..HISTORY_MAX /\ d + (k + 1) = d + 1 + k /\ d + 1 + k \in 1..Len(t)
        BY <2>1, <3>2
      <4> QED
        BY <2>3, <2>4, <2>5, <4>1
    <3> QED
      BY <3>1, <3>2
  <2>11. Trim(a) = Trim(b)
    BY <2>8, <2>9, <2>10, SeqEqual
  <2> QED
    BY <2>11 DEF a, b, g
<1> QED
  BY <1>1, <1>2, HistoryAssumption

(* One more event in a history that shows the timeline.  When it was         *)
(* recorded before and fell off the end, there are more events than the      *)
(* history holds.                                                            *)
LEMMA ApplyHistory ==
  ASSUME timeline \in Seq(1..MaxEvents), revived \subseteq 1..MaxEvents,
         NEW h \in Seq(1..MaxEvents), AllDistinct(h), Within(h, applied), Shows(h, timeline, revived),
         NEW id \in 1..MaxEvents, \A k \in DOMAIN h : h[k] # id,
         NEW t, NEW r,
         t = IF id \in applied THEN timeline ELSE Append(timeline, id),
         r = IF id \in applied THEN revived \union {id} ELSE revived
  PROVE  LET g == Trim(Append(h, id))
         IN  AllDistinct(g) /\ Within(g, applied \union {id}) /\ Shows(g, t, r)
<1> DEFINE a == Append(h, id)
<1>1. /\ Len(h) \in Nat /\ DOMAIN h = 1..Len(h) /\ a \in Seq(1..MaxEvents)
      /\ Len(a) = Len(h) + 1 /\ DOMAIN a = 1..Len(h) + 1
      /\ \A k \in 1..Len(h) : a[k] = h[k]
      /\ a[Len(h) + 1] = id
  OBVIOUS
<1> HIDE DEF a
<1>2. AllDistinct(a) /\ Within(a, applied \union {id})
  <2>1. \A k \in 1..Len(h) + 1 : k \in 1..Len(h) \/ k = Len(h) + 1
    BY <1>1
  <2> QED
    BY <1>1, <2>1 DEF AllDistinct, Within
<1>3. /\ AllDistinct(Trim(a)) /\ Within(Trim(a), applied \union {id})
      /\ Len(Trim(a)) = (IF Len(a) <= HISTORY_MAX THEN Len(a) ELSE HISTORY_MAX)
  BY <1>1, <1>2, TrimKeeps
<1>4. applied \in SUBSET (1..MaxEvents) /\ Len(timeline) \in Nat
  BY AppliedType
<1>5. FullFor(h, Len(timeline))
  <2>1. Len(Trim(timeline)) = IF Len(timeline) <= HISTORY_MAX THEN Len(timeline) ELSE HISTORY_MAX
    BY <1>4, HistoryAssumption DEF Trim
  <2> QED
    BY <1>4, <2>1, HistoryAssumption DEF FullFor, Shows
<1>6. CASE id \in applied
  <2>1. Within(h, applied \ {id})
    BY DEF Within
  <2>2. Len(h) <= Cardinality(applied \ {id})
    BY <1>4, <2>1, DistinctBound
  <2>3. Cardinality(applied \ {id}) = Cardinality(applied) - 1 /\ Cardinality(applied) \in Nat
    BY <1>4, <1>6, IdsFinite, FS_RemoveElement
  <2>4. Len(h) < Len(timeline)
    BY <1>1, <1>4, <2>2, <2>3, AppliedBound
  <2>5. Len(timeline) > HISTORY_MAX /\ Len(Trim(a)) = HISTORY_MAX
    BY <1>1, <1>3, <1>4, <1>5, <2>4, HistoryAssumption DEF FullFor
  <2>6. t = timeline /\ r # {}
    BY <1>6
  <2> QED
    BY <1>3, <2>5, <2>6 DEF Shows, a
<1>7. CASE id \notin applied
  <2>1. t = Append(timeline, id) /\ r = revived /\ Len(t) = Len(timeline) + 1
    BY <1>7
  <2>2. CASE revived = {}
    <3>1. Trim(a) = Trim(t)
      BY <2>1, <2>2, TrimAppend DEF Shows, a
    <3> QED
      BY <1>3, <2>1, <2>2, <3>1 DEF Shows, a
  <2>3. CASE revived # {}
    <3>1. Len(t) > HISTORY_MAX /\ Len(Trim(a)) = HISTORY_MAX
      <4>1. Len(timeline) > HISTORY_MAX /\ Len(h) = HISTORY_MAX
        BY <2>3 DEF Shows
      <4> QED
        BY <1>1, <1>3, <1>4, <2>1, <4>1, HistoryAssumption
    <3> QED
      BY <1>3, <2>1, <2>3, <3>1 DEF Shows, a
  <2> QED
    BY <2>2, <2>3
<1> QED
  BY <1>6, <1>7

(* What a step does to the row. *)
RowStays == row' = row /\ UNCHANGED recorded
RowInserted == row = NoRow /\ row' = PendingRow /\ UNCHANGED recorded
RowLosesContent == row # NoRow /\ row' = [row EXCEPT !.content = FALSE] /\ UNCHANGED recorded
RowTakes(i, r) ==
  /\ job[i] # Idle /\ r \in Row
  /\ (row # NoRow /\ r = row) \/ (row = NoRow /\ r = PendingRow)
  /\ row' = IF Recorded(r, job[i].e) THEN r ELSE Apply(r, job[i].e)
  /\ Remember(r, job[i].e)
  /\ UNCHANGED <<flying, log>>

LEMMA RowSteps ==
  ASSUME IInv, [Next]_vars
  PROVE  \/ RowStays \/ RowInserted \/ RowLosesContent
         \/ \E i \in Projectors, r \in Row : RowTakes(i, r)
<1>1. CASE Submit \/ FindRow \/ InsertRow
  BY <1>1 DEF Submit, FindRow, InsertRow, RowStays, RowInserted
<1>2. CASE Environment
  BY <1>2 DEF Environment, Replay, StageRuns, OtherIndexes, DeleteDocument, Append1,
              RowStays, RowLosesContent
<1>3. PendingRow \in Row /\ PendingRow # NoRow
  BY DEF PendingRow, Row, Statuses, Progress, NoRow
<1>4. ASSUME NEW i \in Projectors, NEW r \in Row, job[i] # Idle, Write(i, r),
             (row # NoRow /\ r = row) \/ (row = NoRow /\ r = PendingRow)
      PROVE  RowStays \/ RowTakes(i, r)
  BY <1>4 DEF Write, Reconnect, RowStays, RowTakes, pipeline
<1>5. ASSUME NEW i \in Projectors, Record(i) \/ Insert(i)
      PROVE  RowStays \/ \E r \in Row : RowTakes(i, r)
  <2>1. row # NoRow => row \in Row
    BY DEF IInv, TypeOK
  <2>2. job[i] # Idle
    BY <1>5 DEF Record, Insert
  <2>3. CASE Record(i)
    BY <1>4, <2>1, <2>2, <2>3 DEF Record, RowStays
  <2>4. CASE Insert(i)
    BY <1>3, <1>4, <2>2, <2>4 DEF Insert, Reconnect, RowStays
  <2> QED
    BY <1>5, <2>3, <2>4
<1>6. ASSUME NEW i \in Projectors, Commit(i) PROVE RowStays
  BY <1>6 DEF Commit, RowStays
<1>7. ASSUME NEW i \in Projectors, NEW p \in Partitions, Next1(i, p) \/ TakeOver(i, p)
      PROVE  RowStays
  BY <1>7 DEF Next1, TakeOver, Start, RowStays
<1>8. ASSUME NEW i \in Projectors, Crash(i) PROVE RowStays
  BY <1>8 DEF Crash, Reconnect, RowStays
<1>9. CASE Quiet \/ UNCHANGED vars
  BY <1>9 DEF Quiet, vars, RowStays
<1> QED
  BY <1>1, <1>2, <1>5, <1>6, <1>7, <1>8, <1>9 DEF Next, Project

LEMMA RowIsThere == ASSUME NEW r \in Row PROVE r # NoRow
<1>1. r.status \in Statuses /\ NoRow.status = "none"
  BY DEF Row, NoRow
<1> QED
  BY <1>1 DEF Statuses, Progress

LEMMA RowTakesApplies ==
  ASSUME IInv, NEW i \in Projectors, NEW r \in Row, RowTakes(i, r)
  PROVE  applied' = applied \union {job[i].e.id}
<1>1. job[i].e.id \in 1..MaxEvents
  BY DEF IInv, TypeOK, Job, Event, RowTakes
<1> QED
  BY <1>1, RememberType DEF RowTakes, IInv, TypeOK

LEMMA HistoryKept ==
  ASSUME IInv, IHistory, [Next]_vars
  PROVE  IHistory'
<1>1. /\ timeline \in Seq(1..MaxEvents) /\ revived \subseteq 1..MaxEvents
      /\ row # NoRow => row \in Row /\ Len(row.history) <= HISTORY_MAX
  BY DEF IInv, TypeOK
<1>2. CASE RowStays
  BY <1>2, SameRecorded
     DEF RowStays, IHistory, HistoryIsTheTimeline, HistoryIsApplied, NothingBeforeRow
<1>3. /\ PendingRow # NoRow /\ PendingRow.history = <<>> /\ PendingRow.history \in Seq(1..MaxEvents)
      /\ AllDistinct(PendingRow.history) /\ Within(PendingRow.history, applied)
      /\ Trim(<<>>) = <<>>
  BY HistoryAssumption DEF PendingRow, NoRow, AllDistinct, Within, Trim
<1>4. row # NoRow => /\ row.history \in Seq(1..MaxEvents) /\ AllDistinct(row.history)
                     /\ Within(row.history, applied) /\ Shows(row.history, timeline, revived)
  BY <1>1 DEF Row, IHistory, HistoryIsTheTimeline, HistoryIsApplied, AllDistinct, Within, Shows
<1>5. row = NoRow => Shows(PendingRow.history, timeline, revived)
  BY <1>3 DEF IHistory, NothingBeforeRow, Shows
<1>6. ASSUME row' # NoRow, AllDistinct(row'.history), Within(row'.history, applied'),
             Shows(row'.history, timeline', revived')
      PROVE  IHistory'
  BY <1>6 DEF IHistory, HistoryIsTheTimeline, HistoryIsApplied, NothingBeforeRow,
              AllDistinct, Within, Shows
<1>7. CASE RowInserted
  BY <1>3, <1>5, <1>6, <1>7, SameRecorded DEF RowInserted
<1>8. CASE RowLosesContent
  <2>1. row'.history = row.history /\ row' \in Row
    BY <1>1, <1>8 DEF RowLosesContent, Row
  <2>2. row' # NoRow
    BY <2>1, RowIsThere
  <2> QED
    BY <1>4, <1>6, <1>8, <2>1, <2>2, SameRecorded DEF RowLosesContent
<1>9. ASSUME NEW i \in Projectors, NEW r \in Row, RowTakes(i, r)
      PROVE  IHistory'
  <2> DEFINE e == job[i].e
             h == r.history
  <2>1. e \in Event /\ e.id \in 1..MaxEvents
    BY <1>9 DEF IInv, TypeOK, Job, Event, RowTakes
  <2>2. /\ h \in Seq(1..MaxEvents) /\ AllDistinct(h)
        /\ Within(h, applied) /\ Shows(h, timeline, revived)
    BY <1>3, <1>4, <1>5, <1>9 DEF RowTakes
  <2>3. r # NoRow /\ row' # NoRow /\ applied' = applied \union {e.id}
    BY <1>9, <2>1, RowIsThere, ApplyType, RowTakesApplies DEF RowTakes
  <2>4. CASE Recorded(r, e)
    <3>1. row' = r /\ e.id \in applied
      BY <1>9, <2>2, <2>4 DEF RowTakes, Recorded, Within
    <3>2. timeline' = timeline /\ revived' = revived /\ applied' = applied
      BY <1>9, <2>3, <2>4, <3>1 DEF RowTakes, Remember
    <3> QED
      BY <1>6, <2>2, <2>3, <3>1, <3>2
  <2>5. CASE ~Recorded(r, e)
    <3>1. /\ row'.history = Trim(Append(h, e.id))
          /\ timeline' = IF e.id \in applied THEN timeline ELSE Append(timeline, e.id)
          /\ revived' = IF e.id \in applied THEN revived \union {e.id} ELSE revived
      BY <1>9, <2>5 DEF RowTakes, Apply, Remember
    <3>2. \A k \in DOMAIN h : h[k] # e.id
      BY <2>5 DEF Recorded
    <3> HIDE DEF h, e
    <3>3. /\ AllDistinct(Trim(Append(h, e.id))) /\ Within(Trim(Append(h, e.id)), applied \union {e.id})
          /\ Shows(Trim(Append(h, e.id)), timeline', revived')
      BY <1>1, <2>1, <2>2, <3>1, <3>2, ApplyHistory
    <3> QED
      BY <1>6, <2>3, <3>1, <3>3
  <2> QED
    BY <2>4, <2>5
<1> QED
  BY <1>2, <1>7, <1>8, <1>9, RowSteps

LEMMA InitHistory == Init => IHistory
  BY DEF Init, IHistory, HistoryIsTheTimeline, HistoryIsApplied, NothingBeforeRow

(* HistoryIsTheTimeline: record_status_event leaves an event it finds in the *)
(* history alone; the history is the last HISTORY_MAX events in the order    *)
(* they were recorded in, until one that was cut comes again, and none is in *)
(* it twice even then, whoever inserted the row.                            *)
THEOREM HistoryIsExact == Spec => []HistoryIsTheTimeline
<1>1. Init => IHistory
  BY InitHistory
<1>2. IInv /\ IHistory /\ [Next]_vars => IHistory'
  BY HistoryKept
<1>3. IHistory => HistoryIsTheTimeline
  BY DEF IHistory
<1> QED
  BY <1>1, <1>2, <1>3, Inductive, PTL DEF Spec

------------------------------------------------------------------------------
(* The published events.  An event has an id of its own, so that what is     *)
(* recorded under the id is that event.                                     *)

EventsNumbered ==
  /\ \A e \in AllPublished : e.id <= Published /\ e.status \in Outcomes[e.stage]
  /\ \A e, f \in AllPublished : e.id = f.id => e = f

AppliedWerePublished == \A id \in applied : id <= Published

JobsHoldPublished == \A i \in Projectors : job[i] # Idle => job[i].e \in AllPublished

(* While the stages only make progress, the row is at the furthest of the    *)
(* events it has.                                                           *)
AtTheFurthest ==
  (row # NoRow /\ \A e \in AllPublished : e.status \in Progress) =>
    /\ row.status \in {"pending"} \union {e.status : e \in AllPublished}
    /\ \A e \in AllPublished : e.id \in applied => RankOf(e.status) <= RankOf(row.status)

IEvents == EventsNumbered /\ AppliedWerePublished /\ JobsHoldPublished /\ AtTheFurthest

LEMMA ProgressRank ==
  ASSUME NEW s \in Progress
  PROVE  /\ RankOf(s) \in 0..3 /\ (s # "pending" => RankOf(s) > RankOf("pending"))
         /\ RankOf("pending") = 0 /\ s # "failed" /\ (is_final(s) <=> s = "indexed")
         /\ RankOf("indexed") = 3
  BY DEF Progress, RankOf, STATUS_RANK, is_final, TERMINAL_STATUSES

LEMMA OutcomeStages ==
  ASSUME NEW s \in Stages, NEW o \in Outcomes[s]
  PROVE  o \in Statuses /\ o # "pending"
  BY DEF Outcomes, Stages, Statuses, Progress

LEMMA LogEvents ==
  ASSUME IInv
  PROVE  /\ \A p \in Partitions : \A k \in 1..Len(log[p]) : log[p][k] \in AllPublished
         /\ flying \subseteq AllPublished
         /\ \A e \in AllPublished : e \in Event
<1>1. \A p \in Partitions : log[p] \in Seq(Event) /\ DOMAIN log[p] = 1..Len(log[p])
  BY DEF IInv, TypeOK
<1>2. \A p \in Partitions : \A k \in 1..Len(log[p]) : log[p][k] \in EventsIn(p)
  BY <1>1 DEF EventsIn
<1>3. \A p \in Partitions : EventsIn(p) \subseteq Event
  <2> SUFFICES ASSUME NEW p \in Partitions, NEW k \in DOMAIN log[p] PROVE log[p][k] \in Event
    BY DEF EventsIn
  <2> QED
    BY <1>1, ElementOfSeq
<1>4. "url" \in Partitions /\ "doc" \in Partitions /\ flying \subseteq Event
  BY DEF Partitions, IInv, TypeOK
<1> QED
  BY <1>2, <1>3, <1>4 DEF AllPublished, Partitions

(* Either nothing is published, or one event with the next id. *)
Publishes(e) ==
  /\ AllPublished' = AllPublished \union {e} /\ Published' = Published + 1
  /\ e.id = Published + 1 /\ e.status \in Outcomes[e.stage] /\ e.stage \in Stages
  /\ RowStays /\ job' = job

(* A sum of three to which one is added, or of which one moves to another. *)
LEMMA OneMore ==
  ASSUME NEW c \in Nat, NEW u \in Nat, NEW d \in Nat
  PROVE  /\ (c + 1) + u + d = (c + u + d) + 1
         /\ (c - 1) + u + (d + 1) = c + u + d
         /\ (c - 1) + (u + 1) + d = c + u + d
OBVIOUS

LEMMA StagePublishes ==
  ASSUME IInv, NEW s \in Stages, NEW o \in Outcomes[s], StageRuns(s, o),
         \A f \in flying : f.id <= Published
  PROVE  \E e : Publishes(e)
<1> DEFINE e == [id |-> Published + 1, stage |-> s, status |-> o,
                 doc |-> ~(s = "fetch" /\ o = "failed")]
<1>1. flying' = flying \union {e} /\ log' = log /\ RowStays /\ job' = job
  BY DEF StageRuns, RowStays, projector
<1>2. e.id = Published + 1 /\ e.status = o /\ e.stage = s
  OBVIOUS
<1> HIDE DEF e
<1>3. Published \in Nat
  BY PublishedType DEF IInv
<1>4. e \notin flying
  BY <1>2, <1>3
<1>5. Cardinality(flying') = Cardinality(flying) + 1 /\ Cardinality(flying) \in Nat
  BY <1>1, <1>4, FS_AddElement, FS_CardinalityType DEF IInv
<1>6. Len(log["url"]) \in Nat /\ Len(log["doc"]) \in Nat
  BY DEF IInv, TypeOK, Partitions
<1>7. Published' = Published + 1
  <2>1. Published' = (Cardinality(flying) + 1) + Len(log["url"]) + Len(log["doc"])
    BY <1>1, <1>5, Zenon DEF Published
  <2> QED
    BY <1>5, <1>6, <2>1, OneMore, Zenon DEF Published
<1>8. AllPublished' = AllPublished \union {e}
  BY <1>1 DEF AllPublished, EventsIn
<1> QED
  BY <1>1, <1>2, <1>7, <1>8 DEF Publishes

LEMMA BrokerAppends ==
  ASSUME IInv, NEW e \in flying, Append1(e)
  PROVE  AllPublished' = AllPublished /\ Published' = Published
<1>1. /\ e \in Event /\ IsFiniteSet(flying)
      /\ log["url"] \in Seq(Event) /\ log["doc"] \in Seq(Event)
      /\ log \in [Partitions -> Seq(Event)]
  BY DEF IInv, TypeOK, Partitions
<1>2. /\ Cardinality(flying \ {e}) = Cardinality(flying) - 1
      /\ Cardinality(flying) \in Nat
  BY <1>1, FS_RemoveElement, FS_CardinalityType
<1>3. ASSUME NEW s \in Seq(Event)
      PROVE  /\ Len(Append(s, e)) = Len(s) + 1 /\ Len(s) \in Nat
             /\ {Append(s, e)[k] : k \in DOMAIN Append(s, e)}
                  = {s[k] : k \in DOMAIN s} \union {e}
  <2>1. /\ Len(s) \in Nat /\ DOMAIN s = 1..Len(s) /\ DOMAIN Append(s, e) = 1..Len(s) + 1
        /\ Len(Append(s, e)) = Len(s) + 1
        /\ \A k \in 1..Len(s) : Append(s, e)[k] = s[k]
        /\ Append(s, e)[Len(s) + 1] = e
    BY <1>1
  <2>2. \A k \in 1..Len(s) + 1 : k \in 1..Len(s) \/ k = Len(s) + 1
    BY <2>1
  <2>3. \A k \in 1..Len(s) : k \in 1..Len(s) + 1
    BY <2>1
  <2>4. Len(s) + 1 \in 1..Len(s) + 1
    BY <2>1
  <2> QED
    BY <2>1, <2>2, <2>3, <2>4
<1>4. CASE e.doc
  <2>1. log'["url"] = log["url"] /\ log'["doc"] = Append(log["doc"], e) /\ flying' = flying \ {e}
    BY <1>1, <1>4 DEF Append1, Partitions
  <2>2. EventsIn("doc")' = EventsIn("doc") \union {e} /\ EventsIn("url")' = EventsIn("url")
    BY <1>1, <1>3, <2>1 DEF EventsIn
  <2>3. AllPublished' = AllPublished
    BY <2>1, <2>2 DEF AllPublished
  <2>4. Len(log'["doc"]) = Len(log["doc"]) + 1 /\ Len(log["doc"]) \in Nat /\ Len(log["url"]) \in Nat
    BY <1>1, <1>3, <2>1
  <2>5. /\ Published = Cardinality(flying) + Len(log["url"]) + Len(log["doc"])
        /\ Published' = Cardinality(flying') + Len(log'["url"]) + Len(log'["doc"])
    BY DEF Published
  <2>6. Cardinality(flying') = Cardinality(flying) - 1
    BY <1>2, <2>1
  <2>7. Len(log'["url"]) = Len(log["url"])
    BY <2>1
  <2>8. Published' = Published
    <3>1. Published' = (Cardinality(flying) - 1) + Len(log["url"]) + (Len(log["doc"]) + 1)
      BY <2>4, <2>5, <2>6, <2>7, Zenon
    <3>2. Published = (Cardinality(flying) - 1) + Len(log["url"]) + (Len(log["doc"]) + 1)
      BY <1>2, <2>4, <2>5, OneMore, Zenon
    <3> QED
      BY <3>1, <3>2, Zenon
  <2> QED
    BY <2>3, <2>8
<1>5. CASE ~e.doc
  <2>1. log'["doc"] = log["doc"] /\ log'["url"] = Append(log["url"], e) /\ flying' = flying \ {e}
    BY <1>1, <1>5 DEF Append1, Partitions
  <2>2. EventsIn("url")' = EventsIn("url") \union {e} /\ EventsIn("doc")' = EventsIn("doc")
    BY <1>1, <1>3, <2>1 DEF EventsIn
  <2>3. AllPublished' = AllPublished
    BY <2>1, <2>2 DEF AllPublished
  <2>4. Len(log'["url"]) = Len(log["url"]) + 1 /\ Len(log["url"]) \in Nat /\ Len(log["doc"]) \in Nat
    BY <1>1, <1>3, <2>1
  <2>5. /\ Published = Cardinality(flying) + Len(log["url"]) + Len(log["doc"])
        /\ Published' = Cardinality(flying') + Len(log'["url"]) + Len(log'["doc"])
    BY DEF Published
  <2>6. Cardinality(flying') = Cardinality(flying) - 1
    BY <1>2, <2>1
  <2>7. Len(log'["doc"]) = Len(log["doc"])
    BY <2>1
  <2>8. Published' = Published
    <3>1. Published' = (Cardinality(flying) - 1) + (Len(log["url"]) + 1) + Len(log["doc"])
      BY <2>4, <2>5, <2>6, <2>7, Zenon
    <3>2. Published = (Cardinality(flying) - 1) + (Len(log["url"]) + 1) + Len(log["doc"])
      BY <1>2, <2>4, <2>5, OneMore, Zenon
    <3> QED
      BY <3>1, <3>2, Zenon
  <2> QED
    BY <2>3, <2>8
<1> QED
  BY <1>4, <1>5

LEMMA EventSteps ==
  ASSUME IInv, EventsNumbered, [Next]_vars
  PROVE  \/ AllPublished' = AllPublished /\ Published' = Published
         \/ \E e : Publishes(e)
<1>1. ASSUME UNCHANGED <<flying, log>>
      PROVE  AllPublished' = AllPublished /\ Published' = Published
  BY <1>1 DEF AllPublished, Published, EventsIn
<1>2. ASSUME NEW s \in Stages, NEW o \in Outcomes[s], StageRuns(s, o)
      PROVE  \E e : Publishes(e)
  BY <1>2, StagePublishes DEF EventsNumbered, AllPublished
<1>3. CASE Submit \/ FindRow \/ InsertRow \/ OtherIndexes \/ DeleteDocument \/ Quiet \/ UNCHANGED vars
  BY <1>1, <1>3 DEF Submit, FindRow, InsertRow, OtherIndexes, DeleteDocument, Quiet, vars, pipeline
<1>4. ASSUME NEW s \in Stages, Replay(s) PROVE UNCHANGED <<flying, log>>
  BY <1>4 DEF Replay
<1>5. ASSUME NEW i \in Projectors,
             Project(i) \/ Crash(i) \/ \E p \in Partitions : TakeOver(i, p)
      PROVE  UNCHANGED <<flying, log>>
  BY <1>5 DEF Project, Record, Insert, Write, Commit, Next1, TakeOver, Start, Crash,
              Reconnect, pipeline
<1> QED
  BY <1>1, <1>2, <1>3, <1>4, <1>5, BrokerAppends DEF Next, Environment

LEMMA JobSteps ==
  ASSUME IInv, JobsHoldPublished, [Next]_vars, NEW k \in Projectors, job'[k] # Idle
  PROVE  job'[k].e \in AllPublished
<1>1. job \in [Projectors -> Job \union {Idle}]
  BY DEF IInv, TypeOK
<1>2. ASSUME job[k] # Idle, job'[k].e = job[k].e PROVE job'[k].e \in AllPublished
  BY <1>2 DEF JobsHoldPublished
<1>3. ASSUME job' = job PROVE job'[k].e \in AllPublished
  BY <1>2, <1>3
<1>4. ASSUME NEW i \in Projectors, NEW p \in Partitions, Start(i, p)
      PROVE  job'[k].e \in AllPublished
  <2>1. log[p] \in Seq(Event) /\ committed[p] \in Nat /\ committed[p] < Len(log[p])
    BY <1>4 DEF IInv, TypeOK, Start
  <2>2. log[p][committed[p] + 1] \in AllPublished
    BY <2>1, LogEvents
  <2>3. CASE k = i
    BY <1>1, <1>4, <2>2, <2>3 DEF Start
  <2>4. CASE k # i
    BY <1>1, <1>2, <1>4, <2>4 DEF Start
  <2> QED
    BY <2>3, <2>4
<1>5. ASSUME NEW i \in Projectors, Reconnect(i) \/ Commit(i) PROVE job'[k].e \in AllPublished
  BY <1>1, <1>2, <1>5 DEF Reconnect, Commit
<1>6. ASSUME NEW i \in Projectors, NEW point, job[i] # Idle,
             job' = [job EXCEPT ![i].at = point]
      PROVE  job'[k].e \in AllPublished
  <2>1. job[i] \in Job
    BY <1>1, <1>6
  <2>2. job'[i].e = job[i].e
    BY <1>1, <1>6, <2>1 DEF Job
  <2> QED
    BY <1>1, <1>2, <1>6, <2>2
<1>7. ASSUME NEW i \in Projectors, Record(i) \/ Insert(i) PROVE job'[k].e \in AllPublished
  BY <1>5, <1>6, <1>7 DEF Record, Insert, Write
<1>8. CASE Submit \/ FindRow \/ InsertRow \/ Environment \/ Quiet \/ UNCHANGED vars
  <2>1. job' = job
    BY <1>8 DEF Submit, FindRow, InsertRow, Environment, Replay, StageRuns, OtherIndexes,
                DeleteDocument, Append1, Quiet, vars, projector
  <2> QED
    BY <1>3, <2>1
<1> QED
  BY <1>4, <1>5, <1>7, <1>8 DEF Next, Project, Next1, TakeOver, Crash

LEMMA NumbersKept ==
  ASSUME IInv, IEvents, [Next]_vars
  PROVE  EventsNumbered' /\ AppliedWerePublished' /\ JobsHoldPublished'
<1>1. Published \in Nat
  BY PublishedType DEF IInv
<1>2. \A e \in AllPublished : e.id \in Nat
  BY LogEvents DEF Event
<1>3. AllPublished \subseteq AllPublished' /\ Published' \in Nat /\ Published' >= Published
  BY <1>1, EventSteps DEF IEvents, Publishes
<1>4. EventsNumbered'
  <2>1. CASE AllPublished' = AllPublished /\ Published' = Published
    BY <2>1 DEF IEvents, EventsNumbered
  <2>2. ASSUME NEW e, Publishes(e) PROVE EventsNumbered'
    <3>1. \A f \in AllPublished : f.id # e.id
      BY <1>1, <1>2, <2>2 DEF IEvents, EventsNumbered, Publishes
    <3>2. \A f \in AllPublished : f.id <= Published' /\ f.status \in Outcomes[f.stage]
      BY <1>1, <1>2, <2>2 DEF IEvents, EventsNumbered, Publishes
    <3>3. e.id <= Published' /\ e.status \in Outcomes[e.stage]
      BY <1>1, <2>2 DEF Publishes
    <3>4. AllPublished' = AllPublished \union {e}
      BY <2>2 DEF Publishes
    <3> QED
      BY <3>1, <3>2, <3>3, <3>4 DEF IEvents, EventsNumbered
  <2> QED
    BY <2>1, <2>2, EventSteps DEF IEvents
<1>5. AppliedWerePublished'
  <2>1. applied \subseteq Nat
    BY AppliedType DEF IInv, TypeOK
  <2>2. \A id \in applied : id <= Published'
    BY <1>1, <1>3, <2>1 DEF IEvents, AppliedWerePublished
  <2>3. ASSUME NEW i \in Projectors, NEW r \in Row, RowTakes(i, r)
        PROVE  AppliedWerePublished'
    <3>1. job[i].e \in AllPublished /\ applied' = applied \union {job[i].e.id}
      BY <2>3, RowTakesApplies DEF RowTakes, IEvents, JobsHoldPublished
    <3>2. job[i].e.id <= Published'
      BY <1>1, <1>2, <1>3, <3>1 DEF IEvents, EventsNumbered
    <3> QED
      BY <2>2, <3>1, <3>2 DEF AppliedWerePublished
  <2>4. applied' = applied => AppliedWerePublished'
    BY <2>2 DEF AppliedWerePublished
  <2> QED
    BY <2>3, <2>4, RowSteps, SameRecorded DEF RowStays, RowInserted, RowLosesContent
<1>6. JobsHoldPublished'
  BY <1>3, JobSteps DEF IEvents, JobsHoldPublished
<1> QED
  BY <1>4, <1>5, <1>6

(* supersedes takes the higher of two ranks. *)
LEMMA TakesHigher ==
  ASSUME NEW old \in Progress, NEW new \in Progress
  PROVE  LET status == IF supersedes(old, new) THEN new ELSE old
         IN  /\ status \in {old, new}
             /\ RankOf(old) <= RankOf(status) /\ RankOf(new) <= RankOf(status)
  BY DEF supersedes, is_final, TERMINAL_STATUSES, Progress, RankOf, STATUS_RANK

LEMMA FurthestKept ==
  ASSUME IInv, IHistory, IEvents, [Next]_vars
  PROVE  AtTheFurthest'
<1> SUFFICES ASSUME row' # NoRow, \A e \in AllPublished' : e.status \in Progress
             PROVE  /\ row'.status \in {"pending"} \union {e.status : e \in AllPublished'}
                    /\ \A e \in AllPublished' : e.id \in applied' =>
                         RankOf(e.status) <= RankOf(row'.status)
  BY DEF AtTheFurthest
<1>1. Published \in Nat /\ \A e \in AllPublished : e.id \in Nat
  BY PublishedType, LogEvents DEF IInv, Event
<1>2. AllPublished \subseteq AllPublished'
  BY EventSteps DEF IEvents, Publishes
<1>3. \A e \in AllPublished : e.status \in Progress
  BY <1>2
<1>4. row # NoRow =>
        /\ row.status \in {"pending"} \union {e.status : e \in AllPublished}
        /\ \A e \in AllPublished : e.id \in applied => RankOf(e.status) <= RankOf(row.status)
  BY <1>3 DEF IEvents, AtTheFurthest
<1>5. row = NoRow => applied = {}
  BY DEF IHistory, NothingBeforeRow, applied
<1>6. \A e \in AllPublished' : e.id \in applied => e \in AllPublished
  BY <1>1, EventSteps DEF IEvents, AppliedWerePublished, Publishes
<1>7. CASE row # NoRow /\ row'.status = row.status /\ applied' = applied
  BY <1>2, <1>4, <1>6, <1>7
<1>8. CASE RowInserted
  BY <1>5, <1>8, SameRecorded DEF RowInserted, PendingRow
<1>9. ASSUME NEW i \in Projectors, NEW r \in Row, RowTakes(i, r)
      PROVE  /\ row'.status \in {"pending"} \union {e.status : e \in AllPublished'}
             /\ \A e \in AllPublished' : e.id \in applied' =>
                  RankOf(e.status) <= RankOf(row'.status)
  <2>1. PICK e \in AllPublished : e = job[i].e
    BY <1>9 DEF RowTakes, IEvents, JobsHoldPublished
  <2>2. AllPublished' = AllPublished /\ applied' = applied \union {e.id}
    BY <1>9, <2>1, RowTakesApplies DEF RowTakes, AllPublished, EventsIn
  <2>3. /\ r.status \in {"pending"} \union {f.status : f \in AllPublished}
        /\ \A f \in AllPublished : f.id \in applied => RankOf(f.status) <= RankOf(r.status)
    BY <1>4, <1>5, <1>9 DEF RowTakes, PendingRow
  <2>4. r.status \in Progress /\ e.status \in Progress
    BY <1>3, <2>3 DEF Progress
  <2>5. CASE Recorded(r, e)
    <3>1. row' = r /\ e.id \in applied
      <4>1. PICK k \in DOMAIN r.history : r.history[k] = e.id
        BY <2>5 DEF Recorded
      <4>2. r = row /\ row # NoRow
        BY <1>9, <4>1 DEF RowTakes, PendingRow
      <4> QED
        BY <1>9, <2>1, <2>5, <4>1, <4>2 DEF RowTakes, IHistory, HistoryIsApplied
    <3> QED
      BY <2>2, <2>3, <3>1
  <2>6. CASE ~Recorded(r, e)
    <3> DEFINE status == IF supersedes(r.status, e.status) THEN e.status ELSE r.status
    <3>1. row'.status = status
      BY <1>9, <2>1, <2>6 DEF RowTakes, Apply
    <3>2. /\ status \in {r.status, e.status}
          /\ RankOf(r.status) <= RankOf(status) /\ RankOf(e.status) <= RankOf(status)
      BY <2>4, TakesHigher
    <3> HIDE DEF status
    <3>3. status \in Progress
      BY <2>4, <3>2
    <3>4. ASSUME NEW f \in AllPublished, f.id \in applied \union {e.id}
          PROVE  RankOf(f.status) <= RankOf(status)
      <4>1. CASE f.id = e.id
        <5>1. f = e
          BY <4>1 DEF IEvents, EventsNumbered
        <5> QED
          BY <3>2, <5>1
      <4>2. CASE f.id \in applied
        <5>1. RankOf(f.status) <= RankOf(r.status)
          BY <2>3, <4>2
        <5>2. RankOf(f.status) \in Int /\ RankOf(r.status) \in Int /\ RankOf(status) \in Int
          BY <1>3, <2>4, <3>3, ProgressRank
        <5> QED
          BY <3>2, <5>1, <5>2
      <4> QED
        BY <3>4, <4>1, <4>2
    <3> QED
      BY <2>2, <2>3, <3>1, <3>2, <3>4
  <2> QED
    BY <2>5, <2>6
<1>10. CASE RowStays
  BY <1>7, <1>10, SameRecorded DEF RowStays
<1>11. CASE RowLosesContent
  <2>1. row'.status = row.status
    BY <1>11 DEF RowLosesContent, IInv, TypeOK, Row
  <2> QED
    BY <1>7, <1>11, <2>1, SameRecorded DEF RowLosesContent
<1> QED
  BY <1>8, <1>9, <1>10, <1>11, RowSteps

LEMMA InitEvents == Init => IEvents
<1> SUFFICES ASSUME Init PROVE IEvents
  OBVIOUS
<1>1. AllPublished = {}
  BY DEF Init, AllPublished, EventsIn, Partitions
<1> QED
  BY <1>1, NothingApplied DEF Init, IEvents, EventsNumbered, AppliedWerePublished, JobsHoldPublished,
              AtTheFurthest

(* ProgressConverges: when every published event is recorded, a request      *)
(* whose stages only made progress is at the furthest of them, whatever the  *)
(* order of the partitions, the redeliveries and the instances.              *)
THEOREM ProgressIsReached == Spec => []ProgressConverges
<1>1. Init => IHistory /\ IEvents
  BY InitHistory, InitEvents
<1>2. IInv /\ IHistory /\ IEvents /\ [Next]_vars => IHistory' /\ IEvents'
  BY HistoryKept, NumbersKept, FurthestKept DEF IEvents
<1>3. IInv /\ IHistory /\ IEvents => ProgressConverges
  <2> SUFFICES ASSUME IInv, IHistory, IEvents, Drained, AllPublished # {},
                      \A e \in AllPublished : e.status \in Progress
               PROVE  /\ \E e \in AllPublished : e.status = row.status
                      /\ \A e \in AllPublished : RankOf(e.status) <= RankOf(row.status)
    BY DEF ProgressConverges
  <2>1. \A e \in AllPublished : e.id \in applied
    <3> SUFFICES ASSUME NEW p \in Partitions, NEW k \in DOMAIN log[p]
                 PROVE  log[p][k].id \in applied
      BY DEF AllPublished, EventsIn, Drained, Partitions
    <3>1. k \in 1..committed[p]
      BY DEF Drained, IInv, TypeOK
    <3> QED
      BY <3>1 DEF IInv, CommittedIsRecorded
  <2>2. PICK e \in AllPublished : TRUE
    OBVIOUS
  <2>3. row # NoRow
    BY <2>1, <2>2, NothingApplied DEF IHistory, NothingBeforeRow
  <2>4. /\ row.status \in {"pending"} \union {f.status : f \in AllPublished}
        /\ \A f \in AllPublished : RankOf(f.status) <= RankOf(row.status)
    BY <2>1, <2>3 DEF IEvents, AtTheFurthest
  <2>5. e.status \in Progress /\ e.status # "pending"
    <3>1. e.status \in Outcomes[e.stage] /\ e.stage \in Stages
      BY LogEvents DEF IEvents, EventsNumbered, Event
    <3> QED
      BY <3>1, OutcomeStages
  <2>6. row.status # "pending"
    <3>1. RankOf(e.status) > RankOf("pending") /\ RankOf(e.status) \in Int /\ RankOf("pending") = 0
      BY <2>5, ProgressRank
    <3>2. RankOf(e.status) <= RankOf(row.status)
      BY <2>4
    <3> QED
      BY <3>1, <3>2
  <2> QED
    BY <2>4, <2>6
<1> QED
  BY <1>1, <1>2, <1>3, Inductive, PTL DEF Spec
=============================================================================
