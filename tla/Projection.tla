---------------------------- MODULE Projection -----------------------------
(* The request table: src/kafka_service/projector.py with record_status_    *)
(* event and create_request of src/storage.py, for one request.  POST       *)
(* /index inserts the pending row while the projector instances of one      *)
(* consumer group apply the status events of two partitions of index.events *)
(* (a fetch failure is keyed by url, everything else by doc_id).  The       *)
(* stages that publish the events, and the owner of the database who may     *)
(* delete the document, are the environment.                                *)
EXTENDS StatusOrder, Naturals, Sequences, FiniteSets

CONSTANTS
  Projectors,     \* projector instances
  NoProjector,
  HISTORY_MAX,    \* entries kept in request.history
  MaxEvents,      \* bound on published events
  MaxFaults       \* bound on redeliveries, crashes, rebalances, replays

ASSUME HistoryAssumption == HISTORY_MAX \in Nat \ {0}
ASSUME BoundsAssumption  == MaxEvents \in Nat /\ MaxFaults \in Nat
ASSUME ProjectorsAssumption == NoProjector \notin Projectors

Stages     == {"fetch", "chunk", "embed"}
Partitions == {"url", "doc"}

NoRow == [status |-> "none"]

VARIABLES
  api,        \* where POST /index is
  todo,       \* todo[s]: messages waiting for stage s
  dead,       \* dead[s]: messages of stage s in the DLQ
  indexed,    \* content.status is 'indexed'
  doc,        \* the document row: "none", "alive" or "deleted"
  flying,     \* events sent by a stage, not yet appended by the broker
  log,        \* log[p]: partition p of index.events
  committed,  \* committed[p]: the projector group's offset
  owner,      \* owner[p]: the instance that reads p
  job,        \* job[i]: the event instance i applies and where it is in it
  row,        \* the request row, or NoRow
  timeline,   \* ids of the events that reached the row, in the order in which
              \*   they first did (history variable)
  revived,    \* ids recorded again when row.history had lost them (history
              \*   variable)
  faults

vars == <<api, todo, dead, indexed, doc, flying, log, committed, owner, job,
          row, timeline, revived, faults>>

pipeline  == <<todo, dead, indexed, flying, log>>
projector == <<committed, owner, job>>
recorded  == <<timeline, revived>>

Outcomes == [fetch |-> {"fetched", "failed"},
             chunk |-> {"chunked", "skipped", "failed"},
             embed |-> {"indexed", "skipped", "failed"}]

Event == [id : 1..MaxEvents, stage : Stages, status : Statuses, doc : BOOLEAN]
Row   == [status : Statuses, history : Seq(1..MaxEvents), content : BOOLEAN]
Idle  == [at |-> "idle"]
Job   == [at : {"record", "insert", "commit"}, p : Partitions, e : Event]

applied == {timeline[k] : k \in DOMAIN timeline}

Published == Cardinality(flying) + Len(log["url"]) + Len(log["doc"])

TypeOK ==
  /\ api \in {"idle", "submitted", "absent", "ok", "error"}
  /\ todo \in [Stages -> Nat] /\ dead \in [Stages -> Nat]
  /\ indexed \in BOOLEAN
  /\ doc \in {"none", "alive", "deleted"}
  /\ flying \subseteq Event
  /\ log \in [Partitions -> Seq(Event)] /\ committed \in [Partitions -> Nat]
  /\ \A p \in Partitions : committed[p] <= Len(log[p])
  /\ owner \in [Partitions -> Projectors \union {NoProjector}]
  /\ job \in [Projectors -> Job \union {Idle}]
  /\ row \in Row \union {NoRow}
  /\ row # NoRow => Len(row.history) <= HISTORY_MAX
  /\ timeline \in Seq(1..MaxEvents) /\ revived \subseteq 1..MaxEvents
  /\ faults \in 0..MaxFaults

Init ==
  /\ api = "idle"
  /\ todo = [s \in Stages |-> 0] /\ dead = [s \in Stages |-> 0]
  /\ indexed = FALSE /\ doc = "none"
  /\ flying = {} /\ log = [p \in Partitions |-> <<>>]
  /\ committed = [p \in Partitions |-> 0]
  /\ owner = [p \in Partitions |-> NoProjector]
  /\ job = [i \in Projectors |-> Idle]
  /\ row = NoRow /\ timeline = <<>> /\ revived = {}
  /\ faults = 0

Fault == faults < MaxFaults /\ faults' = faults + 1

PendingRow == [status |-> "pending", history |-> <<>>, content |-> FALSE]

------------------------------------------------------------------------------
(* POST /index: submit to Kafka first, then create_request. *)

Submit ==
  /\ api = "idle" /\ api' = "submitted"
  /\ todo' = [todo EXCEPT !["fetch"] = @ + 1]
  /\ UNCHANGED <<dead, indexed, doc, flying, log, projector, row, recorded, faults>>

(* create_request looks the row up, and leaves an existing one alone. *)
FindRow ==
  /\ api = "submitted"
  /\ api' = IF row = NoRow THEN "absent" ELSE "ok"
  /\ UNCHANGED <<pipeline, doc, projector, row, recorded, faults>>

(* DEFECT: the row is written over instead of inserted. *)
InsertRowMerged ==
  /\ api = "absent"
  /\ row' = PendingRow /\ api' = "ok"
  /\ UNCHANGED <<pipeline, doc, projector, recorded, faults>>

(* The insert fails on the primary key, and POST /index with it, if the     *)
(* projector inserted the row in between.                                   *)
InsertRow ==
  /\ api = "absent"
  /\ IF row = NoRow
       THEN row' = PendingRow /\ api' = "ok"
       ELSE api' = "error" /\ UNCHANGED row
  /\ UNCHANGED <<pipeline, doc, projector, recorded, faults>>

------------------------------------------------------------------------------
(* The environment: stages, broker, operators. *)

(* A stage ends a message with an outcome; its event and the next stage's    *)
(* message travel separately.  A stage that dies before its commit runs the *)
(* message again.  A document that is gone cannot be chunked (load_text      *)
(* raises), but embed still reports it indexed; its url is not fetched      *)
(* again, which would make another document.                                *)
StageRuns(s, status) ==
  /\ todo[s] > 0 /\ Published < MaxEvents
  /\ status = "skipped" => indexed
  /\ status \in {"fetched", "chunked"} => doc # "deleted"
  /\ \E redelivered \in BOOLEAN :
       /\ IF redelivered THEN Fault ELSE UNCHANGED faults
       /\ todo' = [t \in Stages |->
                     todo[t] - (IF t = s /\ ~redelivered THEN 1 ELSE 0)
                             + (IF <<s, t, status>> \in {<<"fetch", "chunk", "fetched">>,
                                                         <<"chunk", "embed", "chunked">>}
                                  THEN 1 ELSE 0)]
  /\ dead' = [dead EXCEPT ![s] = IF status = "failed" THEN @ + 1 ELSE @]
  /\ indexed' = (indexed \/ (status = "indexed" /\ doc = "alive"))
  /\ doc' = IF status = "fetched" THEN "alive" ELSE doc
  /\ flying' = flying \union {[id |-> Published + 1, stage |-> s, status |-> status,
                               doc |-> ~(s = "fetch" /\ status = "failed")]}
  /\ UNCHANGED <<api, log, projector, row, recorded>>

(* Another request has the same text indexed. *)
OtherIndexes ==
  /\ doc = "alive" /\ ~indexed /\ indexed' = TRUE
  /\ UNCHANGED <<api, todo, dead, doc, flying, log, projector, row, recorded, faults>>

(* The broker appends a sent event; nothing orders two producers. *)
Append1(e) ==
  LET p == IF e.doc THEN "doc" ELSE "url"
  IN /\ log' = [log EXCEPT ![p] = Append(@, e)]
     /\ flying' = flying \ {e}
     /\ UNCHANGED <<api, todo, dead, indexed, doc, projector, row, recorded, faults>>

Replay(s) ==
  /\ dead[s] > 0 /\ Fault
  /\ dead' = [dead EXCEPT ![s] = @ - 1]
  /\ todo' = [todo EXCEPT ![s] = @ + 1]
  /\ UNCHANGED <<api, indexed, doc, flying, log, projector, row, recorded>>

(* The document is deleted: request.content_id is ON DELETE SET NULL. *)
DeleteDocument ==
  /\ doc = "alive" /\ Fault
  /\ doc' = "deleted" /\ indexed' = FALSE
  /\ row' = IF row = NoRow THEN row ELSE [row EXCEPT !.content = FALSE]
  /\ UNCHANGED <<api, todo, dead, flying, log, projector, recorded>>

------------------------------------------------------------------------------
(* run_status_projector. *)

Start(i, p) ==
  /\ job[i] = Idle /\ committed[p] < Len(log[p])
  /\ job' = [job EXCEPT ![i] = [at |-> "record", p |-> p, e |-> log[p][committed[p] + 1]]]
  /\ owner' = [owner EXCEPT ![p] = i]
  /\ UNCHANGED <<api, pipeline, doc, committed, row, recorded>>

Next1(i, p) == owner[p] \in {NoProjector, i} /\ Start(i, p) /\ UNCHANGED faults

(* A rebalance while another instance works on p. *)
TakeOver(i, p) == owner[p] \notin {NoProjector, i} /\ Start(i, p) /\ Fault

(* The instance loses its connection or its transaction: the event is read  *)
(* again from the committed offset.                                         *)
Reconnect(i) ==
  /\ job' = [job EXCEPT ![i] = Idle]
  /\ owner' = [p \in Partitions |-> IF owner[p] = i THEN NoProjector ELSE owner[p]]
  /\ UNCHANGED <<api, pipeline, doc, committed, row, recorded>>

Crash(i) == job[i] # Idle /\ Reconnect(i) /\ Fault

(* The foreign key request.content_id -> content.id. *)
ForeignKeyHolds(e) == e.doc => doc = "alive"

(* The last HISTORY_MAX entries. *)
Trim(h) ==
  IF Len(h) <= HISTORY_MAX THEN h ELSE SubSeq(h, Len(h) - HISTORY_MAX + 1, Len(h))

(* record_status_event on the row. *)
Apply(r, e) ==
  [status  |-> IF supersedes(r.status, e.status) THEN e.status ELSE r.status,
   history |-> Trim(Append(r.history, e.id)),
   content |-> r.content \/ e.doc]

(* DEFECT: no look at the event ids already recorded. *)
RecordedNever(r, e) == FALSE

Recorded(r, e) == \E k \in DOMAIN r.history : r.history[k] = e.id

(* What the history variables make of it. *)
Remember(r, e) ==
  /\ timeline' = IF e.id \in applied THEN timeline ELSE Append(timeline, e.id)
  /\ revived'  = IF e.id \in applied /\ ~Recorded(r, e) THEN revived \union {e.id} ELSE revived

(* DEFECT: the failed transaction is taken for a written one. *)
WriteSwallowed(i, r) ==
  LET e == job[i].e
  IN /\ IF Recorded(r, e) \/ ~ForeignKeyHolds(e)
          THEN UNCHANGED <<row, recorded>>
          ELSE row' = Apply(r, e) /\ Remember(r, e)
     /\ job' = [job EXCEPT ![i].at = "commit"]
     /\ UNCHANGED <<api, pipeline, doc, committed, owner>>

(* The update of one transaction; a violated foreign key fails it. *)
Write(i, r) ==
  LET e == job[i].e
  IN IF ~Recorded(r, e) /\ ~ForeignKeyHolds(e)
       THEN Reconnect(i)
       ELSE /\ row' = IF Recorded(r, e) THEN r ELSE Apply(r, e)
            /\ Remember(r, e)
            /\ job' = [job EXCEPT ![i].at = "commit"]
            /\ UNCHANGED <<api, pipeline, doc, committed, owner>>

(* The row is there and locked FOR UPDATE, or not there and not locked. *)
Record(i) ==
  /\ job[i] # Idle /\ job[i].at = "record"
  /\ IF row = NoRow
       THEN /\ job' = [job EXCEPT ![i].at = "insert"]
            /\ UNCHANGED <<api, pipeline, doc, committed, owner, row, recorded>>
       ELSE Write(i, row)
  /\ UNCHANGED faults

(* The insert loses to create_request or to the other instance: the         *)
(* transaction fails on the primary key.                                    *)
Insert(i) ==
  /\ job[i] # Idle /\ job[i].at = "insert"
  /\ IF row = NoRow THEN Write(i, PendingRow) ELSE Reconnect(i)
  /\ UNCHANGED faults

(* DEFECT: an instance that lost the partition moves the offset too. *)
CommitUnfenced(i) ==
  /\ job[i] # Idle /\ job[i].at = "commit"
  /\ LET p == job[i].p
     IN committed' = [committed EXCEPT ![p] = IF @ < Len(log[p]) THEN @ + 1 ELSE @]
  /\ job' = [job EXCEPT ![i] = Idle]
  /\ UNCHANGED <<api, pipeline, doc, owner, row, recorded, faults>>

(* The commit; it fails for an instance that lost the partition. *)
Commit(i) ==
  /\ job[i] # Idle /\ job[i].at = "commit"
  /\ LET p == job[i].p
     IN committed' = IF owner[p] = i THEN [committed EXCEPT ![p] = @ + 1] ELSE committed
  /\ job' = [job EXCEPT ![i] = Idle]
  /\ UNCHANGED <<api, pipeline, doc, owner, row, recorded, faults>>

------------------------------------------------------------------------------
Project(i) == \/ Record(i) \/ Insert(i) \/ Commit(i)
              \/ \E p \in Partitions : Next1(i, p)

Environment == \/ \E s \in Stages : Replay(s) \/ \E o \in Outcomes[s] : StageRuns(s, o)
               \/ OtherIndexes \/ DeleteDocument
               \/ \E e \in flying : Append1(e)

Drained == /\ flying = {} /\ api \in {"ok", "error"}
           /\ \A p \in Partitions : committed[p] = Len(log[p])

Quiet == Drained /\ UNCHANGED vars

Next == \/ Submit \/ FindRow \/ InsertRow \/ Environment \/ Quiet
        \/ \E i \in Projectors :
             \/ Project(i) \/ Crash(i)
             \/ \E p \in Partitions : TakeOver(i, p)

Spec == Init /\ [][Next]_vars

(* The API call goes on, the broker appends, the projector instances run.   *)
FairSpec == /\ Spec
            /\ WF_vars(FindRow \/ InsertRow)
            /\ WF_vars(\E e \in flying : Append1(e))
            /\ \A i \in Projectors : WF_vars(Project(i))

------------------------------------------------------------------------------
EventsIn(p)  == {log[p][k] : k \in DOMAIN log[p]}
AllPublished == flying \union EventsIn("url") \union EventsIn("doc")

(* The history is the timeline of the events recorded so far: none twice,    *)
(* whatever was redelivered, in the order they were recorded in, and none    *)
(* lost but to the limit of its length, whoever inserted the row             *)
(* (record_status_event is idempotent, create_request leaves an existing row *)
(* alone).  "Repeating the same event_id changes nothing" ends at the limit: *)
(* an event that was cut from the history is not known any more, and is      *)
(* recorded a second time; that takes more than HISTORY_MAX events.          *)
HistoryIsTheTimeline ==
  row # NoRow =>
    /\ \A j, k \in DOMAIN row.history : j # k => row.history[j] # row.history[k]
    /\ IF revived = {}
         THEN row.history = Trim(timeline)
         ELSE Len(timeline) > HISTORY_MAX /\ Len(row.history) = HISTORY_MAX

(* The group's offset never passes an event the row does not have: the       *)
(* database is written first and the offset second, across rebalances, lost *)
(* inserts and failed transactions.                                         *)
CommittedIsRecorded ==
  \A p \in Partitions : \A k \in 1..committed[p] : log[p][k].id \in applied

(* Whatever the order the partitions were read in and whoever inserted the   *)
(* row, a request whose stages only made progress ends at the furthest of    *)
(* the published statuses.                                                  *)
ProgressConverges ==
  (Drained /\ AllPublished # {} /\ \A e \in AllPublished : e.status \in Progress)
    => /\ \E e \in AllPublished : e.status = row.status
       /\ \A e \in AllPublished : RankOf(e.status) <= RankOf(row.status)

(* A row that says 'indexed' is never taken back to an earlier stage by a    *)
(* late or repeated event (README: a late fetched does not roll back an      *)
(* already recorded indexed).                                               *)
IndexedStays ==
  [][row.status = "indexed" => row'.status \in TERMINAL_STATUSES]_row

(* Every event of a document that still exists reaches the row in the end,   *)
(* as long as a projector that reconnects reaches the broker                 *)
(* (consumer.start(), projector.py:52; Api shows what happens otherwise).    *)
EventsAreProjected ==
  \A id \in 1..MaxEvents :
    (\E e \in AllPublished : e.id = id) ~> (id \in applied \/ doc = "deleted")
=============================================================================
