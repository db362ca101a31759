--------------------------- MODULE PipelineProofs ---------------------------
(* Theorems about Pipeline, for any requests, documents, collections,        *)
(* workers, batches and attempts, and any number of faults and replays.     *)
EXTENDS Pipeline, TLAPS

------------------------------------------------------------------------------
(* The invariant, in four groups that are inductive one after the other.     *)

(* 1. The worker around the handlers. *)

(* Who holds a partition is busy with the message at its head. *)
OwnerHasHead ==
  \A p \in Partitions : owner[p] # NoWorker =>
    /\ owner[p] \in Workers /\ Busy(owner[p]) /\ Part(owner[p]) = p
    /\ queue[p] # <<>> /\ Head(queue[p]) = job[owner[p]].req

(* A worker goes on without its partition only after somebody took it over.  *)
ZombiesRaced ==
  \A w \in Workers : Zombie(w) => Part(w) \in raced

(* A message is in the partition of its key. *)
QueuedByKey ==
  \A p \in Partitions : \A i \in DOMAIN queue[p] : Key(p[1], queue[p][i]) = p[2]

PointsOf == [fetch |-> {"save_text", "publish", "commit"},
             chunk |-> {"check", "count", "save_chunks", "mark", "publish", "commit"},
             embed |-> {"check", "wipe", "upsert", "mark", "publish", "commit"}]
ResultsOf == [fetch |-> {"next", "failed"},
              chunk |-> {"next", "skipped", "failed"},
              embed |-> {"indexed", "skipped", "failed"}]

(* A worker is where the handler of its stage goes, with an outcome the      *)
(* stage has; only force leads to a wipe, and force is never skipped.       *)
Fits(w) ==
  /\ job[w].at \in PointsOf[w[1]]
  /\ job[w].at = "publish" => job[w].result \in ResultsOf[w[1]]
  /\ job[w].at \in {"check", "wipe"} => job[w].batch = 0
  /\ job[w].at = "wipe" => Forced(w)
  /\ job[w].at = "publish" /\ job[w].result = "skipped" => ~Forced(w)

PointsFit == \A w \in Workers : Busy(w) => Fits(w)

IWork == TypeOK /\ OwnerHasHead /\ ZombiesRaced /\ QueuedByKey /\ PointsFit

(* 2. Requests. *)

Later == [fetch |-> {"chunk", "embed"}, chunk |-> {"embed"}, embed |-> {}]

HandedOn(r, s) == Ended(r) \/ \E t \in Later[s] : InQueue(r, <<t, DocOf[r]>>)

(* Before an offset passes a message, a later stage has it or it has ended;  *)
(* an earlier stage would not do, it may be about to commit as well.        *)
OutcomeBeforeCommit ==
  \A w \in Workers : Busy(w) /\ job[w].at = "commit" => HandedOn(job[w].req, w[1])

IRequests == OutcomeBeforeCommit /\ RequestsConserved

(* 3. Rows. *)

(* Chunks are saved all at once, never changed, and only passed on when they *)
(* are there.                                                               *)
ChunksWhole ==
  /\ \A d \in Docs : chunks[d] \in {0, BatchesOf[d]}
  /\ \A w \in Workers :
       /\ Busy(w) /\ w[1] = "chunk"
       /\ job[w].at = "mark" \/ (job[w].at = "publish" /\ job[w].result = "next")
       => chunks[Doc(w)] = BatchesOf[Doc(w)]

RowBeforeEvent ==
  \A w \in Workers :
    /\ Busy(w) /\ w[1] = "fetch" /\ job[w].at = "publish" /\ job[w].result = "next"
    => status[Doc(w)] # "none"

(* The status of d is as far as its chunks, or is about to be, or an attempt *)
(* stopped before it was.                                                   *)
Marked(d) == Rank[status[d]] >= Rank["chunked"] \/ Marking(d) \/ d \in unmarked

(* That holds of every document that has chunks or is passed on.             *)
ChunkedIsMarked ==
  /\ \A d \in Docs : chunks[d] > 0 => Marked(d)
  /\ \A w \in Workers :
       Busy(w) /\ w[1] = "chunk" /\ job[w].at = "publish" /\ job[w].result = "next"
         => Marked(Doc(w))

(* Nothing of d has ever reached embed. *)
Untouched(d) ==
  /\ status[d] # "indexed" /\ queue[<<"embed", d>>] = <<>>
  /\ \A w \in Workers : Busy(w) /\ Doc(w) = d =>
       /\ w[1] # "embed"
       /\ ~(w[1] = "chunk" /\ job[w].at = "publish" /\ job[w].result = "next")
  /\ \A q \in Requests : DocOf[q] = d => <<"embed", q>> \notin dlq

(* A document comes to embed after its chunks were saved, and, when a single *)
(* worker had the chunk message, after it was marked.                       *)
FirstChunking ==
  \A d \in Docs : BatchesOf[d] > 0 =>
    /\ chunks[d] = 0 => Untouched(d)
    /\ Marking(d) /\ <<"chunk", d>> \notin raced => Untouched(d)

IRows == /\ ChunksWhole /\ RowBeforeEvent /\ ChunkedIsMarked /\ FirstChunking
         /\ EventsFollowStore

(* 4. Upserts. *)

(* What waits, is dead or is in hand has been submitted. *)
OnlySubmitted ==
  /\ \A p \in Partitions : \A i \in DOMAIN queue[p] : queue[p][i] \in submitted
  /\ \A e \in dlq : e[2] \in submitted
  /\ \A w \in Workers : Busy(w) => job[w].req \in submitted

(* Somebody may delete upserts of d in c under the feet of an embed worker.  *)
Disturbed(d, c) ==
  /\ <<"embed", d>> \in raced
  /\ \E q \in submitted : DocOf[q] = d /\ CollOf[q] = c /\ ForceOf[q]

(* The batches a worker has upserted are accepted, and all of them when it   *)
(* marks the document or says `indexed`.                                    *)
UpsertsStay ==
  \A w \in Workers : Busy(w) /\ w[1] = "embed" /\ ~Disturbed(Doc(w), Coll(w)) =>
    /\ job[w].at = "upsert" =>
         \A b \in 1..job[w].batch : <<Doc(w), Coll(w), b>> \in accepted
    /\ job[w].at = "mark" \/ (job[w].at = "publish" /\ job[w].result = "indexed")
         => AllAccepted(Doc(w), Coll(w))

(* The head of p is as good as done. *)
Settled(p) ==
  /\ owner[p] # NoWorker
  /\ \/ job[owner[p]].at = "commit"
     \/ job[owner[p]].at = "publish" /\ job[owner[p]].result = "indexed"

(* A forced message that will upsert all batches of d into c once more. *)
Pending(d, c) ==
  \E q \in Requests :
    /\ DocOf[q] = d /\ CollOf[q] = c /\ ForceOf[q]
    /\ \/ <<"embed", q>> \in dlq
       \/ \E i \in DOMAIN queue[<<"embed", d>>] :
            queue[<<"embed", d>>][i] = q /\ (i = 1 => ~Settled(<<"embed", d>>))

(* All batches are accepted, or somebody is left who makes it so.            *)
Mended(d, c) == AllAccepted(d, c) \/ Pending(d, c) \/ Disturbed(d, c)

(* Every collection a request was told about is mended. *)
IndexedMended ==
  \A r \in Requests : Says(r, "indexed") => Mended(DocOf[r], CollOf[r])

StatusMended ==
  \A d \in Docs : status[d] = "indexed" =>
    \E q \in Requests : DocOf[q] = d /\ Mended(d, CollOf[q])

SkipMended ==
  \A w \in Workers :
    /\ Busy(w) /\ job[w].at = "publish" /\ job[w].result = "skipped"
    /\ OneCollection(Doc(w))
    => Mended(Doc(w), Coll(w))

SkippedMended ==
  \A r \in Requests :
    Says(r, "skipped") /\ OneCollection(DocOf[r]) => Mended(DocOf[r], CollOf[r])

IUpserts == /\ OnlySubmitted /\ UpsertsStay
            /\ IndexedMended /\ StatusMended /\ SkipMended /\ SkippedMended

IInv == IWork /\ IRequests /\ IRows /\ IUpserts

------------------------------------------------------------------------------
(* Types. *)

LEMMA WorkerType ==
  ASSUME NEW w \in Workers
  PROVE  /\ w[1] \in Stages /\ w # NoWorker /\ MaxAttempts[w[1]] \in Nat \ {0}
  BY WorkersAssumption DEF Stages, NoWorker

LEMMA RequestType ==
  ASSUME NEW r \in Requests
  PROVE  /\ UrlOf[r] \in Urls /\ DocOf[r] \in Docs /\ CollOf[r] \in Colls
         /\ ForceOf[r] \in BOOLEAN
         /\ \A s \in Stages : <<s, Key(s, r)>> \in Partitions
  BY RequestsAssumption DEF Key, Stages, Partitions

LEMMA BatchesType == ASSUME NEW d \in Docs PROVE BatchesOf[d] \in Nat
  BY RequestsAssumption

LEMMA RankType ==
  /\ DOMAIN Rank = {"none", "fetched", "chunked", "indexed"}
  /\ Rank["none"] = 0 /\ Rank["fetched"] = 1 /\ Rank["chunked"] = 2 /\ Rank["indexed"] = 3
  BY DEF Rank

(* A job is a record unless the worker is idle. *)
LEMMA JobType ==
  ASSUME TypeOK, NEW w \in Workers
  PROVE  /\ job[w].at # "idle" => Busy(w)
         /\ Busy(w) => /\ job[w] \in Jobs(w) /\ job[w].at \in Points
                       /\ job[w].req \in Requests /\ job[w].batch \in Nat
                       /\ Part(w) \in Partitions /\ Part(w)[1] = w[1]
                       /\ Doc(w) \in Docs /\ Coll(w) \in Colls
         /\ ~Busy(w) => job[w].at = "idle"
<1>1. job[w].at # "idle" => Busy(w)
  BY DEF Busy, Idle
<1>2. ~Busy(w) => job[w].at = "idle"
  BY DEF Busy, Idle
<1>3. ASSUME Busy(w)
      PROVE  /\ job[w] \in Jobs(w) /\ job[w].at \in Points
             /\ job[w].req \in Requests /\ job[w].batch \in Nat
  <2>1. job[w] \in Jobs(w)
    BY <1>3 DEF TypeOK, Busy
  <2> QED
    BY <2>1 DEF Jobs
<1>4. ASSUME Busy(w)
      PROVE  /\ Part(w) \in Partitions /\ Part(w)[1] = w[1]
             /\ Doc(w) \in Docs /\ Coll(w) \in Colls
  BY <1>3, <1>4, WorkerType, RequestType DEF Part, Doc, Coll
<1> QED
  BY <1>1, <1>2, <1>3, <1>4

------------------------------------------------------------------------------
(* Steps of one worker. *)

(* w goes on with its message, the others stay where they are. *)
Steps(w) ==
  /\ Busy(w) /\ job'[w] \in Jobs(w) /\ job'[w].req = job[w].req
  /\ DOMAIN job' = Workers
  /\ \A v \in Workers : v # w => job'[v] = job[v]

LEMMA JobIs ==
  ASSUME TypeOK, NEW w \in Workers, NEW j, job' = [job EXCEPT ![w] = j]
  PROVE  /\ job'[w] = j /\ DOMAIN job' = Workers
         /\ \A v \in Workers : v # w => job'[v] = job[v]
  BY DEF TypeOK

LEMMA GotoSteps ==
  ASSUME TypeOK, NEW w \in Workers, Busy(w), NEW point \in Points, Goto(w, point)
  PROVE  /\ Steps(w) /\ job'[w].at = point
         /\ job'[w].batch = job[w].batch /\ job'[w].result = job[w].result
<1> DEFINE j == [job[w] EXCEPT !.at = point]
<1>1. job' = [job EXCEPT ![w] = j]
  BY DEF Goto
<1>2. job[w] \in Jobs(w)
  BY JobType
<1>3. /\ j \in Jobs(w) /\ j.at = point /\ j.req = job[w].req
      /\ j.batch = job[w].batch /\ j.result = job[w].result
  BY <1>2 DEF Jobs
<1> HIDE DEF j
<1> QED
  BY <1>1, <1>3, JobIs DEF Steps

LEMMA FinishSteps ==
  ASSUME TypeOK, NEW w \in Workers, Busy(w), NEW res \in Results, Finish(w, res)
  PROVE  Steps(w) /\ job'[w].at = "publish" /\ job'[w].result = res
<1> DEFINE j == [job[w] EXCEPT !.at = "publish", !.result = res]
<1>1. job' = [job EXCEPT ![w] = j]
  BY DEF Finish
<1>2. job[w] \in Jobs(w)
  BY JobType
<1>3. j \in Jobs(w) /\ j.at = "publish" /\ j.req = job[w].req /\ j.result = res
  BY <1>2 DEF Jobs, Points
<1> HIDE DEF j
<1> QED
  BY <1>1, <1>3, JobIs DEF Steps

LEMMA RaiseSteps ==
  ASSUME TypeOK, NEW w \in Workers, Busy(w), Raise(w)
  PROVE  /\ Steps(w)
         /\ \/ job'[w].at = Entry(w[1]) /\ job'[w].batch = 0
            \/ job'[w].at = "publish" /\ job'[w].result = "failed"
<1>1. CASE job[w].try < MaxAttempts[w[1]]
  <2> DEFINE j == [job[w] EXCEPT !.at = Entry(w[1]), !.try = @ + 1, !.batch = 0]
  <2>1. job' = [job EXCEPT ![w] = j]
    BY <1>1 DEF Raise
  <2>2. job[w] \in Jobs(w)
    BY JobType
  <2>3. Entry(w[1]) \in Points
    BY DEF Entry, Points
  <2>4. job[w].try + 1 \in 1..MaxAttempts[w[1]]
    BY <1>1, <2>2, WorkerType DEF Jobs
  <2>5. j \in Jobs(w) /\ j.at = Entry(w[1]) /\ j.req = job[w].req /\ j.batch = 0
    BY <2>2, <2>3, <2>4 DEF Jobs
  <2> HIDE DEF j
  <2> QED
    BY <2>1, <2>5, JobIs DEF Steps
<1>2. CASE ~(job[w].try < MaxAttempts[w[1]])
  BY <1>2, FinishSteps DEF Raise, Results
<1> QED
  BY <1>1, <1>2

LEMMA BatchSteps ==
  ASSUME TypeOK, NEW w \in Workers, Busy(w), NEW b \in Nat, NEW point \in Points,
         job' = [job EXCEPT ![w].batch = b, ![w].at = point]
  PROVE  Steps(w) /\ job'[w].at = point /\ job'[w].batch = b
<1> DEFINE j == [job[w] EXCEPT !.batch = b, !.at = point]
<1>1. job' = [job EXCEPT ![w] = j]
  OBVIOUS
<1>2. job[w] \in Jobs(w)
  BY JobType
<1>3. j \in Jobs(w) /\ j.at = point /\ j.req = job[w].req /\ j.batch = b
  BY <1>2 DEF Jobs
<1> HIDE DEF j
<1> QED
  BY <1>1, <1>3, JobIs DEF Steps

(* A step of w changes where w is, and neither who is busy nor with what. *)
LEMMA StepsKeep ==
  ASSUME TypeOK, NEW w \in Workers, Steps(w)
  PROVE  /\ \A v \in Workers : Busy(v)' = Busy(v)
         /\ \A v \in Workers : job'[v].req = job[v].req /\ Part(v)' = Part(v) /\ Doc(v)' = Doc(v)
                               /\ Coll(v)' = Coll(v) /\ Forced(v)' = Forced(v)
         /\ \A v \in Workers : v # w => job'[v] = job[v]
         /\ \A v \in Workers : job'[v] \in Jobs(v) \union {Idle}
         /\ job'[w].at \in Points /\ job'[w].batch \in Nat
<1>1. job'[w].at \in Points /\ job'[w].batch \in Nat /\ Busy(w)'
  BY DEF Steps, Jobs, Points, Busy, Idle
<1>2. \A v \in Workers : job'[v].req = job[v].req
  BY DEF Steps
<1>3. \A v \in Workers : Busy(v)' = Busy(v)
  <2> TAKE v \in Workers
  <2>1. CASE v = w
    BY <1>1, <2>1 DEF Steps
  <2>2. CASE v # w
    BY <2>2 DEF Steps, Busy
  <2> QED
    BY <2>1, <2>2
<1>4. \A v \in Workers : job'[v] \in Jobs(v) \union {Idle}
  BY DEF Steps, TypeOK
<1> QED
  BY <1>1, <1>2, <1>3, <1>4 DEF Part, Doc, Coll, Forced, Steps

(* What all handlers have in common. *)
Outside == <<queue, events, dlq, owner, submitted, raced>>

StoreType == /\ status \in [Docs -> DOMAIN Rank] /\ chunks \in [Docs -> Nat]
             /\ accepted \subseteq Docs \X Colls \X Nat

BudgetType == faults \in [FaultKinds -> Nat] /\ unmarked \subseteq Docs

LEMMA FaultType ==
  ASSUME TypeOK, NEW kind \in FaultKinds, Fault(kind)
  PROVE  faults' \in [FaultKinds -> Nat]
  BY DEF TypeOK, Fault

LEMMA StopsBudget ==
  ASSUME TypeOK, NEW w \in Workers, Busy(w), Fault("stop"), Unmark(w)
  PROVE  BudgetType'
<1>1. faults' \in [FaultKinds -> Nat]
  BY FaultType DEF FaultKinds
<1>2. unmarked' \subseteq Docs
  BY JobType DEF Unmark, TypeOK
<1> QED
  BY <1>1, <1>2 DEF BudgetType

LEMMA SaveTextEffect ==
  ASSUME IWork, NEW w \in Workers, SaveText(w)
  PROVE  /\ Busy(w) /\ Steps(w) /\ job'[w].at = "publish" /\ job'[w].result = "next"
  BY JobType, FinishSteps DEF IWork, SaveText, At, Results

LEMMA CheckEffect ==
  ASSUME IWork, NEW w \in Workers, Check(w)
  PROVE  /\ Busy(w) /\ Steps(w) /\ w[1] \in {"chunk", "embed"}
         /\ \/ /\ ~Forced(w) /\ status[Doc(w)] = "indexed"
               /\ job'[w].at = "publish" /\ job'[w].result = "skipped"
            \/ /\ w[1] = "chunk" /\ job'[w].at = "count"
            \/ /\ w[1] = "embed" /\ Forced(w) /\ job'[w].at = "wipe" /\ job'[w].batch = 0
            \/ /\ w[1] = "embed" /\ ~Forced(w) /\ job'[w].at = "upsert" /\ job'[w].batch = 0
<1>1. Busy(w) /\ job[w].at = "check"
  BY JobType DEF IWork, Check
<1>2. job[w].batch = 0 /\ w[1] \in {"chunk", "embed"}
  BY <1>1, WorkerType DEF IWork, PointsFit, Fits, PointsOf, Stages
<1>3. CASE ~Forced(w) /\ status[Doc(w)] = "indexed"
  BY <1>1, <1>2, <1>3, FinishSteps DEF IWork, Check, Results
<1>4. CASE ~(~Forced(w) /\ status[Doc(w)] = "indexed")
  <2> DEFINE pt == IF w[1] = "chunk" THEN "count" ELSE IF Forced(w) THEN "wipe" ELSE "upsert"
  <2>1. Goto(w, pt) /\ pt \in Points
    BY <1>2, <1>4 DEF Check, Points
  <2>2. /\ w[1] = "chunk" => pt = "count"
        /\ w[1] = "embed" /\ Forced(w) => pt = "wipe"
        /\ w[1] = "embed" /\ ~Forced(w) => pt = "upsert"
    OBVIOUS
  <2> HIDE DEF pt
  <2>3. Steps(w) /\ job'[w].at = pt /\ job'[w].batch = job[w].batch
    BY <1>1, <2>1, GotoSteps DEF IWork
  <2> QED
    BY <1>1, <1>2, <2>2, <2>3
<1> QED
  BY <1>3, <1>4

LEMMA CountChunksEffect ==
  ASSUME IWork, NEW w \in Workers, CountChunks(w)
  PROVE  /\ Busy(w) /\ Steps(w)
         /\ \/ chunks[Doc(w)] > 0 /\ job'[w].at = "publish" /\ job'[w].result = "next"
            \/ ~(chunks[Doc(w)] > 0) /\ job'[w].at = "save_chunks"
  BY JobType, FinishSteps, GotoSteps DEF IWork, CountChunks, At, Results, Points

LEMMA SaveChunksEffect ==
  ASSUME IWork, NEW w \in Workers, SaveChunks(w)
  PROVE  /\ Busy(w) /\ Steps(w)
         /\ \/ /\ UNCHANGED chunks
               /\ \/ job'[w].at = "check" /\ job'[w].batch = 0
                  \/ job'[w].at = "publish" /\ job'[w].result = "failed"
            \/ /\ ~(chunks[Doc(w)] > 0) /\ job'[w].at = "mark"
               /\ chunks' = [chunks EXCEPT ![Doc(w)] = BatchesOf[Doc(w)]]
<1>1. Busy(w) /\ w[1] = "chunk" /\ Entry(w[1]) = "check"
  BY JobType DEF IWork, SaveChunks, At, Entry
<1> QED
  BY <1>1, RaiseSteps, GotoSteps DEF IWork, SaveChunks, Points

LEMMA MarkChunkedEffect ==
  ASSUME IWork, NEW w \in Workers, MarkChunked(w)
  PROVE  Busy(w) /\ Steps(w) /\ job'[w].at = "publish" /\ job'[w].result = "next"
  BY JobType, FinishSteps DEF IWork, MarkChunked, At, Results

LEMMA WipeEffect ==
  ASSUME IWork, NEW w \in Workers, Wipe(w)
  PROVE  Busy(w) /\ Forced(w) /\ Steps(w) /\ job'[w].at = "upsert" /\ job'[w].batch = 0
<1>1. Busy(w) /\ job[w].at = "wipe"
  BY JobType DEF IWork, Wipe, At
<1>2. Forced(w) /\ job[w].batch = 0
  BY <1>1 DEF IWork, PointsFit, Fits
<1> QED
  BY <1>1, <1>2, GotoSteps DEF IWork, Wipe, Points

LEMMA UpsertEffect ==
  ASSUME IWork, NEW w \in Workers, Upsert(w)
  PROVE  /\ Busy(w) /\ Steps(w)
         /\ \/ chunks[Doc(w)] = 0 /\ job'[w].at = "mark" /\ UNCHANGED accepted
            \/ /\ chunks[Doc(w)] # 0
               /\ accepted' = accepted \union {<<Doc(w), Coll(w), job[w].batch + 1>>}
               /\ job'[w].batch = job[w].batch + 1
               /\ job'[w].at = IF job[w].batch + 1 = chunks[Doc(w)] THEN "mark" ELSE "upsert"
<1>1. Busy(w) /\ job[w].at = "upsert"
  BY JobType DEF IWork, Upsert, At
<1>2. CASE chunks[Doc(w)] = 0
  BY <1>1, <1>2, GotoSteps DEF IWork, Upsert, Points
<1>3. CASE chunks[Doc(w)] # 0
  <2> DEFINE b  == job[w].batch + 1
             pt == IF b = chunks[Doc(w)] THEN "mark" ELSE job[w].at
  <2>1. /\ accepted' = accepted \union {<<Doc(w), Coll(w), b>>}
        /\ job' = [job EXCEPT ![w].batch = b, ![w].at = pt]
    BY <1>3 DEF Upsert
  <2>2. b \in Nat /\ pt \in Points
    BY <1>1, JobType DEF IWork, Points
  <2> HIDE DEF b, pt
  <2>3. Steps(w) /\ job'[w].at = pt /\ job'[w].batch = b
    BY <1>1, <2>1, <2>2, BatchSteps DEF IWork
  <2> QED
    BY <1>1, <1>3, <2>1, <2>3 DEF b, pt
<1> QED
  BY <1>2, <1>3

LEMMA MarkIndexedEffect ==
  ASSUME IWork, NEW w \in Workers, MarkIndexed(w)
  PROVE  Busy(w) /\ Steps(w) /\ job'[w].at = "publish" /\ job'[w].result = "indexed"
  BY JobType, FinishSteps DEF IWork, MarkIndexed, At, Results

LEMMA RaisesEffect ==
  ASSUME IWork, NEW w \in Workers, HandlerRaises(w)
  PROVE  /\ Busy(w) /\ Steps(w)
         /\ \/ job'[w].at = Entry(w[1]) /\ job'[w].batch = 0
            \/ job'[w].at = "publish" /\ job'[w].result = "failed"
         /\ BudgetType' /\ Unmark(w)
         /\ UNCHANGED Outside /\ UNCHANGED store
<1>1. BudgetType'
  BY StopsBudget DEF HandlerRaises, IWork
<1>2. UNCHANGED Outside /\ UNCHANGED store /\ Busy(w) /\ Raise(w) /\ Unmark(w)
  BY DEF HandlerRaises, Outside, bus
<1> QED
  BY <1>1, <1>2, RaiseSteps DEF IWork

(* Every handler step, for what does not depend on which one it is. *)
LEMMA HandlerEffect ==
  ASSUME IWork, NEW w \in Workers, Handler(w)
  PROVE  /\ Steps(w) /\ job[w].at \notin {"publish", "commit"} /\ job'[w].at # "commit"
         /\ UNCHANGED Outside /\ UNCHANGED budget /\ StoreType'
         /\ Fits(w)'
<1> USE DEF IWork
<1>1. job[w].at \notin {"publish", "commit"} /\ UNCHANGED Outside /\ UNCHANGED budget
  <2>1. Handler(w) => UNCHANGED Outside /\ UNCHANGED budget
    BY DEF Handler, SaveText, Check, CountChunks, SaveChunks, MarkChunked, Wipe, Upsert,
           MarkIndexed, Outside, bus, budget
  <2>2. Handler(w) => job[w].at \notin {"publish", "commit"}
    BY DEF Handler, SaveText, Check, CountChunks, SaveChunks, MarkChunked, Wipe, Upsert,
           MarkIndexed, At
  <2> QED
    BY <2>1, <2>2
<1>2. StoreType
  BY DEF TypeOK, StoreType
<1>4. ASSUME SaveText(w)
      PROVE  Steps(w) /\ job'[w].at # "commit" /\ Fits(w)' /\ StoreType'
  <2>1. Steps(w) /\ job'[w].at = "publish" /\ job'[w].result = "next"
    BY <1>4, SaveTextEffect
  <2>2. Fits(w)'
    BY <1>4, <2>1 DEF Fits, PointsOf, ResultsOf, SaveText, At
  <2>3. StoreType'
    BY <1>2, <1>4, RankType DEF SaveText, StoreType
  <2> QED
    BY <2>1, <2>2, <2>3
<1>5. ASSUME Check(w)
      PROVE  Steps(w) /\ job'[w].at # "commit" /\ Fits(w)' /\ StoreType'
  <2>1. Steps(w) /\ Forced(w)' = Forced(w)
    BY <1>5, CheckEffect, StepsKeep
  <2>2. Fits(w)' /\ job'[w].at # "commit"
    BY <1>5, <2>1, CheckEffect DEF Fits, PointsOf, ResultsOf
  <2>3. StoreType'
    BY <1>2, <1>5 DEF Check, StoreType, store
  <2> QED
    BY <2>1, <2>2, <2>3
<1>6. ASSUME CountChunks(w)
      PROVE  Steps(w) /\ job'[w].at # "commit" /\ Fits(w)' /\ StoreType'
  <2>1. Steps(w) /\ Fits(w)' /\ job'[w].at # "commit"
    BY <1>6, CountChunksEffect DEF Fits, PointsOf, ResultsOf, CountChunks, At
  <2>2. StoreType'
    BY <1>2, <1>6 DEF CountChunks, StoreType, store
  <2> QED
    BY <2>1, <2>2
<1>7. ASSUME SaveChunks(w)
      PROVE  Steps(w) /\ job'[w].at # "commit" /\ Fits(w)' /\ StoreType'
  <2>1. Steps(w) /\ Fits(w)' /\ job'[w].at # "commit"
    BY <1>7, SaveChunksEffect DEF Fits, PointsOf, ResultsOf, SaveChunks, At
  <2>2. chunks' \in [Docs -> Nat]
    BY <1>2, <1>7, SaveChunksEffect, BatchesType, JobType DEF StoreType
  <2>3. StoreType'
    BY <1>2, <1>7, <2>2 DEF SaveChunks, StoreType
  <2> QED
    BY <2>1, <2>3
<1>8. ASSUME MarkChunked(w)
      PROVE  Steps(w) /\ job'[w].at # "commit" /\ Fits(w)' /\ StoreType'
  <2>1. /\ Steps(w) /\ w[1] = "chunk"
        /\ job'[w].at = "publish" /\ job'[w].result = "next"
    BY <1>8, MarkChunkedEffect DEF MarkChunked, At
  <2>2. Fits(w)'
    BY <2>1 DEF Fits, PointsOf, ResultsOf
  <2>3. StoreType'
    BY <1>2, <1>8, RankType DEF MarkChunked, StoreType
  <2> QED
    BY <2>1, <2>2, <2>3
<1>9. ASSUME Wipe(w)
      PROVE  Steps(w) /\ job'[w].at # "commit" /\ Fits(w)' /\ StoreType'
  <2>1. Steps(w) /\ Fits(w)' /\ job'[w].at # "commit"
    BY <1>9, WipeEffect DEF Fits, PointsOf, ResultsOf, Wipe, At
  <2>2. StoreType'
    BY <1>2, <1>9 DEF Wipe, StoreType
  <2> QED
    BY <2>1, <2>2
<1>10. ASSUME Upsert(w)
       PROVE  Steps(w) /\ job'[w].at # "commit" /\ Fits(w)' /\ StoreType'
  <2>1. Steps(w) /\ Fits(w)' /\ job'[w].at # "commit"
    BY <1>10, UpsertEffect DEF Fits, PointsOf, ResultsOf, Upsert, At
  <2>2. accepted' \subseteq Docs \X Colls \X Nat
    <3>1. Doc(w) \in Docs /\ Coll(w) \in Colls /\ job[w].batch + 1 \in Nat
      BY <1>10, UpsertEffect, JobType
    <3> QED
      BY <1>2, <1>10, <3>1, UpsertEffect DEF StoreType
  <2>3. StoreType'
    BY <1>2, <1>10, <2>2 DEF Upsert, StoreType
  <2> QED
    BY <2>1, <2>3
<1>11. ASSUME MarkIndexed(w)
       PROVE  Steps(w) /\ job'[w].at # "commit" /\ Fits(w)' /\ StoreType'
  <2>1. /\ Steps(w) /\ w[1] = "embed"
        /\ job'[w].at = "publish" /\ job'[w].result = "indexed"
    BY <1>11, MarkIndexedEffect DEF MarkIndexed, At
  <2>2. Fits(w)'
    BY <2>1 DEF Fits, PointsOf, ResultsOf
  <2>3. StoreType'
    BY <1>2, <1>11, RankType DEF MarkIndexed, StoreType
  <2> QED
    BY <2>1, <2>2, <2>3
<1> QED
  BY <1>1, <1>4, <1>5, <1>6, <1>7, <1>8, <1>9, <1>10, <1>11 DEF Handler

------------------------------------------------------------------------------
(* Queues. *)

LEMMA AppendFacts ==
  ASSUME NEW s \in Seq(Requests), NEW r \in Requests
  PROVE  /\ Append(s, r) \in Seq(Requests) /\ Append(s, r) # <<>>
         /\ s # <<>> => Head(Append(s, r)) = Head(s)
         /\ DOMAIN s \subseteq DOMAIN Append(s, r)
         /\ Len(s) + 1 \in DOMAIN Append(s, r) /\ Append(s, r)[Len(s) + 1] = r
         /\ \A i \in DOMAIN s : Append(s, r)[i] = s[i]
         /\ \A i \in DOMAIN Append(s, r) : i \in DOMAIN s \/ (i = Len(s) + 1 /\ Append(s, r)[i] = r)
<1>1. /\ Append(s, r) \in Seq(Requests) /\ Len(Append(s, r)) = Len(s) + 1 /\ Len(s) \in Nat
      /\ DOMAIN s = 1..Len(s) /\ DOMAIN Append(s, r) = 1..Len(s) + 1
  OBVIOUS
<1>2. \A i \in 1..Len(s) + 1 : Append(s, r)[i] = IF i = Len(s) + 1 THEN r ELSE s[i]
  OBVIOUS
<1>3. Append(s, r) # <<>>
  BY <1>1
<1>4. s # <<>> => Head(Append(s, r)) = Head(s)
  OBVIOUS
<1> QED
  BY <1>1, <1>2, <1>3, <1>4

LEMMA TailFacts ==
  ASSUME NEW s \in Seq(Requests), s # <<>>
  PROVE  /\ Tail(s) \in Seq(Requests) /\ Head(s) \in Requests
         /\ 1 \in DOMAIN s /\ Head(s) = s[1]
         /\ \A i \in DOMAIN Tail(s) : i + 1 \in DOMAIN s /\ i + 1 # 1 /\ Tail(s)[i] = s[i + 1]
         /\ \A i \in DOMAIN s : i # 1 => i - 1 \in DOMAIN Tail(s) /\ Tail(s)[i - 1] = s[i]
<1>1. /\ Tail(s) \in Seq(Requests) /\ Head(s) \in Requests /\ Head(s) = s[1]
      /\ Len(s) \in Nat \ {0} /\ Len(Tail(s)) = Len(s) - 1
      /\ DOMAIN s = 1..Len(s) /\ DOMAIN Tail(s) = 1..Len(Tail(s))
  OBVIOUS
<1>2. \A j \in 1..Len(Tail(s)) : Tail(s)[j] = s[j + 1]
  BY <1>1
<1> QED
  BY <1>1, <1>2

LEMMA PartitionType ==
  ASSUME NEW p \in Partitions
  PROVE  p = <<p[1], p[2]>> /\ p[1] \in Stages
  BY DEF Partitions, Stages

LEMMA QueueType ==
  ASSUME TypeOK, NEW p \in Partitions
  PROVE  queue[p] \in Seq(Requests) /\ \A i \in DOMAIN queue[p] : queue[p][i] \in Requests
<1>1. queue[p] \in Seq(Requests)
  BY DEF TypeOK
<1> QED
  BY <1>1

(* A message put at the end of a queue: every message that was in a queue is *)
(* still there, at its place, and the one in front stays in front.          *)
Enqueues(r, p) == queue' = [queue EXCEPT ![p] = Append(@, r)]

LEMMA EnqueueFacts ==
  ASSUME TypeOK, NEW p \in Partitions, NEW r \in Requests, Enqueues(r, p)
  PROVE  /\ queue' \in [Partitions -> Seq(Requests)]
         /\ \A t \in Partitions : t # p => queue'[t] = queue[t]
         /\ queue'[p] = Append(queue[p], r)
         /\ InQueue(r, p)'
         /\ Len(queue[p]) + 1 \in DOMAIN queue'[p] /\ queue'[p][Len(queue[p]) + 1] = r
         /\ \A t \in Partitions : queue[t] # <<>> => queue'[t] # <<>> /\ Head(queue'[t]) = Head(queue[t])
         /\ \A t \in Partitions : \A q : InQueue(q, t) => InQueue(q, t)'
         /\ \A t \in Partitions : \A i \in DOMAIN queue'[t] :
              \/ i \in DOMAIN queue[t] /\ queue'[t][i] = queue[t][i]
              \/ t = p /\ queue'[t][i] = r
         /\ \A t \in Partitions : \A i \in DOMAIN queue[t] :
              i \in DOMAIN queue'[t] /\ queue'[t][i] = queue[t][i]
<1>1. queue \in [Partitions -> Seq(Requests)] /\ queue[p] \in Seq(Requests)
  BY DEF TypeOK
<1>2. /\ queue'[p] = Append(queue[p], r)
      /\ \A t \in Partitions : t # p => queue'[t] = queue[t]
      /\ queue' \in [Partitions -> Seq(Requests)]
  BY <1>1, AppendFacts DEF Enqueues
<1>3. \A t \in Partitions :
        /\ queue[t] # <<>> => queue'[t] # <<>> /\ Head(queue'[t]) = Head(queue[t])
        /\ \A i \in DOMAIN queue'[t] :
             \/ i \in DOMAIN queue[t] /\ queue'[t][i] = queue[t][i]
             \/ t = p /\ queue'[t][i] = r
        /\ \A i \in DOMAIN queue[t] :
             i \in DOMAIN queue'[t] /\ queue'[t][i] = queue[t][i]
  <2> TAKE t \in Partitions
  <2>1. CASE t = p
    <3> DEFINE s == queue[p]
               u == queue'[p]
    <3>1. s \in Seq(Requests) /\ u = Append(s, r)
      BY <1>1, <1>2
    <3> HIDE DEF s, u
    <3>2. s # <<>> => u # <<>> /\ Head(u) = Head(s)
      BY <3>1, AppendFacts
    <3>3. \A i \in DOMAIN u : (i \in DOMAIN s /\ u[i] = s[i]) \/ u[i] = r
      BY <3>1, AppendFacts
    <3>4. \A i \in DOMAIN s : i \in DOMAIN u /\ u[i] = s[i]
      BY <3>1, AppendFacts
    <3> QED
      BY <2>1, <3>2, <3>3, <3>4 DEF s, u
  <2>2. CASE t # p
    BY <1>2, <2>2
  <2> QED
    BY <2>1, <2>2
<1>4. /\ Len(queue[p]) + 1 \in DOMAIN queue'[p] /\ queue'[p][Len(queue[p]) + 1] = r
      /\ InQueue(r, p)'
  BY <1>1, <1>2, AppendFacts DEF InQueue
<1>5. \A t \in Partitions : \A q : InQueue(q, t) => InQueue(q, t)'
  BY <1>3 DEF InQueue
<1> QED
  BY <1>2, <1>3, <1>4, <1>5

(* The message in front of a queue is committed. *)
Dequeues(p) == queue' = [queue EXCEPT ![p] = Tail(@)]

LEMMA DequeueFacts ==
  ASSUME TypeOK, NEW p \in Partitions, queue[p] # <<>>, Dequeues(p)
  PROVE  /\ queue' \in [Partitions -> Seq(Requests)]
         /\ \A t \in Partitions : t # p => queue'[t] = queue[t]
         /\ \A i \in DOMAIN queue'[p] :
              i + 1 \in DOMAIN queue[p] /\ i + 1 # 1 /\ queue'[p][i] = queue[p][i + 1]
         /\ \A i \in DOMAIN queue[p] : i # 1 =>
              i - 1 \in DOMAIN queue'[p] /\ queue'[p][i - 1] = queue[p][i]
         /\ \A t \in Partitions : \A q :
              InQueue(q, t) => InQueue(q, t)' \/ (t = p /\ q = Head(queue[p]))
<1>1. queue \in [Partitions -> Seq(Requests)] /\ queue[p] \in Seq(Requests)
  BY DEF TypeOK
<1>2. /\ queue'[p] = Tail(queue[p])
      /\ \A t \in Partitions : t # p => queue'[t] = queue[t]
      /\ queue' \in [Partitions -> Seq(Requests)]
  BY <1>1, TailFacts DEF Dequeues
<1>3. /\ \A i \in DOMAIN queue'[p] :
           i + 1 \in DOMAIN queue[p] /\ i + 1 # 1 /\ queue'[p][i] = queue[p][i + 1]
      /\ \A i \in DOMAIN queue[p] : i # 1 =>
           i - 1 \in DOMAIN queue'[p] /\ queue'[p][i - 1] = queue[p][i]
      /\ Head(queue[p]) = queue[p][1]
  BY <1>1, <1>2, TailFacts
<1>4. \A t \in Partitions : \A q :
        InQueue(q, t) => InQueue(q, t)' \/ (t = p /\ q = Head(queue[p]))
  <2> TAKE t \in Partitions
  <2> TAKE q
  <2> HAVE InQueue(q, t)
  <2>1. PICK i \in DOMAIN queue[t] : queue[t][i] = q
    BY DEF InQueue
  <2>2. CASE t # p
    BY <1>2, <2>1, <2>2 DEF InQueue
  <2>3. CASE t = p /\ i = 1
    BY <1>3, <2>1, <2>3
  <2>4. CASE t = p /\ i # 1
    BY <1>3, <2>1, <2>4 DEF InQueue
  <2> QED
    BY <2>2, <2>3, <2>4
<1> QED
  BY <1>2, <1>3, <1>4

------------------------------------------------------------------------------
(* The steps of the worker around the handlers. *)

(* What is said of a worker that does not move. *)
LEMMA SameJob ==
  ASSUME NEW v, job'[v] = job[v]
  PROVE  /\ Busy(v)' = Busy(v) /\ Part(v)' = Part(v) /\ Doc(v)' = Doc(v)
         /\ Coll(v)' = Coll(v) /\ Forced(v)' = Forced(v) /\ Fits(v)' = Fits(v)
  BY DEF Busy, Part, Doc, Coll, Forced, Fits

(* w begins with the head of p. *)
Begins(w, p) ==
  /\ p \in Partitions /\ p[1] = w[1] /\ queue[p] # <<>> /\ ~Busy(w)
  /\ Busy(w)' /\ job'[w] \in Jobs(w) /\ job'[w].req = Head(queue[p])
  /\ job'[w].at = Entry(w[1]) /\ job'[w].batch = 0
  /\ Part(w)' = p /\ Head(queue[p]) \in Requests
  /\ DOMAIN job' = Workers /\ \A v \in Workers : v # w => job'[v] = job[v]
  /\ owner' \in [Partitions -> Workers \union {NoWorker}]
  /\ owner'[p] = w /\ \A t \in Partitions : t # p => owner'[t] = owner[t]
  /\ UNCHANGED bus /\ UNCHANGED store /\ UNCHANGED submitted

LEMMA StartEffect ==
  ASSUME IWork, NEW w \in Workers, NEW p \in Partitions, p[1] = w[1], queue[p] # <<>>,
         ~Busy(w), Start(w, p)
  PROVE  Begins(w, p)
<1> DEFINE r == Head(queue[p])
           j == [at |-> Entry(w[1]), req |-> r, try |-> 1, batch |-> 0, result |-> "none"]
<1>1. r \in Requests /\ 1 \in DOMAIN queue[p] /\ r = queue[p][1]
  BY QueueType, TailFacts DEF IWork
<1>2. Key(w[1], r) = p[2]
  BY <1>1 DEF IWork, QueuedByKey
<1>3. job' = [job EXCEPT ![w] = j]
  BY DEF Start
<1>4. Entry(w[1]) \in Points /\ Entry(w[1]) # "idle"
  BY DEF Entry, Points
<1>5. j \in Jobs(w) /\ j.req = r /\ j.at = Entry(w[1]) /\ j.batch = 0
  BY <1>1, <1>4, WorkerType DEF Jobs, Points
<1> HIDE DEF j, r
<1>6. /\ job'[w] = j /\ DOMAIN job' = Workers
      /\ \A v \in Workers : v # w => job'[v] = job[v]
  BY <1>3, JobIs DEF IWork
<1>7. Busy(w)'
  BY <1>4, <1>5, <1>6 DEF Busy, Idle
<1>8. Part(w)' = p
  BY <1>2, <1>5, <1>6, PartitionType DEF Part
<1>9. /\ owner' \in [Partitions -> Workers \union {NoWorker}]
      /\ owner'[p] = w /\ \A t \in Partitions : t # p => owner'[t] = owner[t]
  BY DEF IWork, TypeOK, Start
<1> QED
  BY <1>1, <1>5, <1>6, <1>7, <1>8, <1>9 DEF Begins, Start, r

LEMMA TakeEffect ==
  ASSUME IWork, NEW w \in Workers, Take(w)
  PROVE  \E p \in Partitions : Begins(w, p) /\ owner[p] = NoWorker /\ UNCHANGED budget
  BY StartEffect DEF Take

LEMMA TakeOverEffect ==
  ASSUME IWork, NEW w \in Workers, TakeOver(w)
  PROVE  \E p \in Partitions :
           /\ Begins(w, p) /\ raced' = raced \union {p}
           /\ BudgetType' /\ unmarked' = unmarked
<1>1. BudgetType' /\ unmarked' = unmarked
  BY FaultType DEF TakeOver, FaultKinds, BudgetType, IWork, TypeOK
<1> QED
  BY <1>1, StartEffect DEF TakeOver

LEMMA PublishEffect ==
  ASSUME IWork, NEW w \in Workers, Publish(w)
  PROVE  /\ Busy(w) /\ Steps(w) /\ job[w].at = "publish" /\ job'[w].at = "commit"
         /\ job[w].result \in ResultsOf[w[1]]
         /\ events' = [events EXCEPT ![job[w].req] = @ \union {<<w[1], Word(w[1], job[w].result)>>}]
         /\ \/ /\ job[w].result = "next" /\ w[1] \in {"fetch", "chunk"} /\ dlq' = dlq
               /\ Enqueues(job[w].req, <<NextStage[w[1]], Doc(w)>>)
               /\ <<NextStage[w[1]], Doc(w)>> \in Partitions
            \/ /\ job[w].result = "failed" /\ queue' = queue
               /\ dlq' = dlq \union {<<w[1], job[w].req>>}
            \/ job[w].result \in {"skipped", "indexed"} /\ queue' = queue /\ dlq' = dlq
         /\ UNCHANGED <<owner, status, chunks, accepted, submitted, raced, unmarked, faults>>
<1>1. Busy(w) /\ job[w].at = "publish" /\ job[w].req \in Requests /\ Doc(w) \in Docs
  BY JobType DEF IWork, Publish
<1>2. job[w].result \in ResultsOf[w[1]]
  BY <1>1 DEF IWork, PointsFit, Fits
<1>3. Steps(w) /\ job'[w].at = "commit"
  BY <1>1, GotoSteps DEF IWork, Publish, Points
<1>4. job[w].result = "next" => w[1] \in {"fetch", "chunk"}
  BY <1>2, WorkerType DEF ResultsOf, Stages
<1>5. job[w].result \in Results
  BY <1>2, WorkerType DEF ResultsOf, Stages, Results
<1>6. job[w].result = "next" => <<NextStage[w[1]], Doc(w)>> \in Partitions
  BY <1>1, <1>4 DEF Partitions, NextStage
<1>7. job[w].result = "next" =>
        queue' = [queue EXCEPT ![<<NextStage[w[1]], Doc(w)>>] = Append(@, job[w].req)]
  BY DEF Publish, Doc
<1>8. /\ job[w].result # "next" => queue' = queue
      /\ job[w].result = "failed" => dlq' = dlq \union {<<w[1], job[w].req>>}
      /\ job[w].result # "failed" => dlq' = dlq
      /\ events' = [events EXCEPT ![job[w].req] = @ \union {<<w[1], Word(w[1], job[w].result)>>}]
      /\ UNCHANGED <<owner, status, chunks, accepted, submitted, raced, unmarked, faults>>
  BY DEF Publish, store, budget
<1> QED
  BY <1>1, <1>2, <1>3, <1>4, <1>5, <1>6, <1>7, <1>8 DEF Enqueues, Results

(* w is idle afterwards. *)
Stops(w) ==
  /\ Busy(w) /\ ~Busy(w)' /\ job'[w] = Idle /\ DOMAIN job' = Workers
  /\ \A v \in Workers : v # w => job'[v] = job[v]

Releases(w) ==
  /\ owner[Part(w)] = w /\ owner' \in [Partitions -> Workers \union {NoWorker}]
  /\ owner'[Part(w)] = NoWorker
  /\ \A t \in Partitions : t # Part(w) => owner'[t] = owner[t]

LEMMA CommitEffect ==
  ASSUME IWork, NEW w \in Workers, Commit(w)
  PROVE  /\ Stops(w) /\ job[w].at = "commit"
         /\ \/ Zombie(w) /\ UNCHANGED <<queue, owner>>
            \/ Releases(w) /\ Dequeues(Part(w)) /\ queue[Part(w)] # <<>>
               /\ Head(queue[Part(w)]) = job[w].req
         /\ UNCHANGED <<events, dlq, status, chunks, accepted, submitted, raced, unmarked, faults>>
<1>1. Busy(w) /\ job[w].at = "commit" /\ Part(w) \in Partitions
  BY JobType DEF IWork, Commit
<1>2. Stops(w)
  BY <1>1, JobIs DEF IWork, Commit, Stops, Busy
<1>3. UNCHANGED <<events, dlq, status, chunks, accepted, submitted, raced, unmarked, faults>>
  BY DEF Commit, store, budget
<1>4. CASE Zombie(w)
  BY <1>1, <1>2, <1>3, <1>4 DEF Commit
<1>5. CASE ~Zombie(w)
  <2>1. owner[Part(w)] = w
    BY <1>1, <1>5 DEF Zombie
  <2>2. queue[Part(w)] # <<>> /\ Head(queue[Part(w)]) = job[w].req
    BY <1>1, <2>1, WorkerType DEF IWork, OwnerHasHead
  <2>3. Dequeues(Part(w)) /\ Releases(w)
    BY <1>1, <1>5, <2>1 DEF Commit, Dequeues, Releases, IWork, TypeOK
  <2> QED
    BY <1>1, <1>2, <1>3, <2>2, <2>3
<1> QED
  BY <1>4, <1>5

LEMMA CrashEffect ==
  ASSUME IWork, NEW w \in Workers, Crash(w)
  PROVE  /\ Stops(w)
         /\ (Zombie(w) /\ UNCHANGED owner) \/ Releases(w)
         /\ BudgetType' /\ Unmark(w)
         /\ UNCHANGED <<queue, events, dlq, status, chunks, accepted, submitted, raced>>
<1>1. Busy(w) /\ Part(w) \in Partitions
  BY JobType DEF IWork, Crash
<1>2. Stops(w)
  BY <1>1, JobIs DEF IWork, Crash, Stops, Busy
<1>3. (Zombie(w) /\ UNCHANGED owner) \/ Releases(w)
  BY <1>1 DEF Crash, Zombie, Releases, IWork, TypeOK
<1>4. BudgetType' /\ Unmark(w)
  BY <1>1, StopsBudget DEF Crash, IWork
<1>5. UNCHANGED <<queue, events, dlq, status, chunks, accepted, submitted, raced>>
  BY DEF Crash, bus, store
<1> QED
  BY <1>2, <1>3, <1>4, <1>5

LEMMA SubmitEffect ==
  ASSUME IWork, NEW r \in Requests, Submit(r)
  PROVE  /\ <<"fetch", UrlOf[r]>> \in Partitions /\ Enqueues(r, <<"fetch", UrlOf[r]>>)
         /\ submitted' = submitted \union {r}
         /\ UNCHANGED <<owner, job, status, chunks, accepted, events, dlq, raced, unmarked,
                      faults>>
<1>1. <<"fetch", UrlOf[r]>> \in Partitions
  BY RequestType DEF Partitions
<1> QED
  BY <1>1 DEF Submit, Enqueues, store, budget

LEMMA ReplayEffect ==
  ASSUME IWork, NEW e \in dlq, Replay(e)
  PROVE  /\ e[1] \in Stages /\ e[2] \in Requests /\ e = <<e[1], e[2]>>
         /\ <<e[1], Key(e[1], e[2])>> \in Partitions
         /\ Enqueues(e[2], <<e[1], Key(e[1], e[2])>>)
         /\ dlq' \subseteq dlq /\ \A f \in dlq : f # e => f \in dlq'
         /\ UNCHANGED <<owner, job, status, chunks, accepted, events, submitted, raced, unmarked, faults>>
<1>1. e[1] \in Stages /\ e[2] \in Requests /\ e = <<e[1], e[2]>>
  BY DEF IWork, TypeOK
<1>2. <<e[1], Key(e[1], e[2])>> \in Partitions
  BY <1>1, RequestType
<1> QED
  BY <1>1, <1>2 DEF Replay, Enqueues, store

------------------------------------------------------------------------------
(* Group 1 is inductive. *)

BusType == /\ queue \in [Partitions -> Seq(Requests)]
           /\ events \in [Requests -> SUBSET (Stages \X (DOMAIN Rank \union Results))]
           /\ dlq \subseteq Stages \X Requests
           /\ submitted \subseteq Requests

HeadsStay == \A p \in Partitions : queue[p] # <<>> =>
               queue'[p] # <<>> /\ Head(queue'[p]) = Head(queue[p])

LEMMA InitWork == Init => IWork
<1> SUFFICES ASSUME Init PROVE IWork
  OBVIOUS
<1>1. \A w \in Workers : ~Busy(w)
  BY DEF Init, Busy
<1>2. TypeOK
  <2>1. queue \in [Partitions -> Seq(Requests)]
    BY DEF Init
  <2>2. faults \in [FaultKinds -> Nat]
    BY DEF Init
  <2> QED
    BY <2>1, <2>2, RankType DEF Init, TypeOK
<1> QED
  BY <1>1, <1>2 DEF Init, IWork, OwnerHasHead, ZombiesRaced, QueuedByKey, PointsFit, Zombie

(* Nobody starts, nobody stops, and no queue loses its head. *)
LEMMA StayWork ==
  ASSUME IWork, DOMAIN job' = Workers,
         \A v \in Workers : /\ job'[v] \in Jobs(v) \union {Idle}
                            /\ Busy(v)' = Busy(v) /\ job'[v].req = job[v].req
                            /\ Busy(v) => Fits(v)',
         owner' = owner, raced' = raced, BudgetType',
         StoreType', BusType', QueuedByKey', HeadsStay
  PROVE  IWork'
<1>1. TypeOK'
  BY DEF IWork, TypeOK, StoreType, BusType, BudgetType
<1>2. \A v \in Workers : Part(v)' = Part(v)
  BY DEF Part
<1>3. OwnerHasHead'
  BY <1>2 DEF IWork, OwnerHasHead, HeadsStay
<1>4. ZombiesRaced'
  BY <1>2 DEF IWork, ZombiesRaced, Zombie
<1>5. PointsFit'
  BY DEF PointsFit
<1> QED
  BY <1>1, <1>3, <1>4, <1>5 DEF IWork

LEMMA StepsWork ==
  ASSUME IWork, NEW w \in Workers, Steps(w), Fits(w)', owner' = owner, raced' = raced,
         BudgetType',
         StoreType', BusType', QueuedByKey', HeadsStay
  PROVE  IWork'
<1>1. \A v \in Workers : /\ job'[v] \in Jobs(v) \union {Idle}
                         /\ Busy(v)' = Busy(v) /\ job'[v].req = job[v].req
  BY StepsKeep DEF IWork
<1>2. \A v \in Workers : Busy(v) => Fits(v)'
  <2> TAKE v \in Workers
  <2>1. CASE v = w
    BY <2>1
  <2>2. CASE v # w
    <3>1. job'[v] = job[v]
      BY <2>2 DEF Steps
    <3> QED
      BY <3>1, SameJob DEF IWork, PointsFit
  <2> QED
    BY <2>1, <2>2
<1>3. DOMAIN job' = Workers
  BY DEF Steps
<1> QED
  BY <1>1, <1>2, <1>3, StayWork

LEMMA OutsideWork ==
  ASSUME IWork, UNCHANGED Outside
  PROVE  BusType' /\ QueuedByKey' /\ HeadsStay
  BY DEF IWork, TypeOK, BusType, Outside, QueuedByKey, HeadsStay

LEMMA HandlerWork ==
  ASSUME IWork, NEW w \in Workers, Handler(w)
  PROVE  IWork'
<1>1. /\ Steps(w) /\ Fits(w)' /\ StoreType'
      /\ UNCHANGED Outside /\ UNCHANGED <<unmarked, faults>>
  BY HandlerEffect DEF budget
<1>2. BudgetType'
  BY <1>1 DEF IWork, TypeOK, BudgetType
<1> QED
  BY <1>1, <1>2, OutsideWork, StepsWork DEF Outside

LEMMA RaisesWork ==
  ASSUME IWork, NEW w \in Workers, HandlerRaises(w)
  PROVE  IWork'
<1>1. /\ Busy(w) /\ Steps(w) /\ UNCHANGED Outside /\ UNCHANGED store
      /\ BudgetType'
  BY RaisesEffect
<1>3. w[1] \in Stages
  BY WorkerType
<1>4. Fits(w)'
  BY <1>3, RaisesEffect DEF Fits, PointsOf, ResultsOf, Entry, Stages
<1>5. StoreType'
  BY <1>1 DEF IWork, TypeOK, StoreType, store
<1> QED
  BY <1>1, <1>4, <1>5, OutsideWork, StepsWork DEF Outside

LEMMA BeginsWork ==
  ASSUME IWork, NEW w \in Workers, NEW p \in Partitions, Begins(w, p),
         \/ owner[p] = NoWorker /\ raced' = raced /\ UNCHANGED <<unmarked, faults>>
         \/ raced' = raced \union {p} /\ BudgetType'
  PROVE  IWork'
<1>1. BudgetType'
  BY DEF IWork, TypeOK, BudgetType
<1>2. TypeOK'
  <2>1. raced' \subseteq Partitions
    BY DEF IWork, TypeOK
  <2>2. \A v \in Workers : job'[v] \in Jobs(v) \union {Idle}
    BY DEF IWork, TypeOK, Begins
  <2> QED
    BY <1>1, <2>1, <2>2 DEF IWork, TypeOK, Begins, bus, store, BudgetType
<1>3. OwnerHasHead'
  <2> SUFFICES ASSUME NEW t \in Partitions, owner'[t] # NoWorker
               PROVE  /\ owner'[t] \in Workers /\ Busy(owner[t])' /\ Part(owner[t])' = t
                      /\ queue'[t] # <<>> /\ Head(queue'[t]) = job'[owner'[t]].req
    BY DEF OwnerHasHead
  <2>1. queue' = queue
    BY DEF Begins, bus
  <2>2. CASE t = p
    BY <2>1, <2>2 DEF Begins
  <2>3. CASE t # p
    <3>1. owner'[t] = owner[t]
      BY <2>3 DEF Begins
    <3>2. /\ owner[t] \in Workers /\ Busy(owner[t]) /\ Part(owner[t]) = t
          /\ queue[t] # <<>> /\ Head(queue[t]) = job[owner[t]].req
      BY <3>1 DEF IWork, OwnerHasHead
    <3>3. job'[owner[t]] = job[owner[t]]
      BY <3>2 DEF Begins
    <3> QED
      BY <2>1, <3>1, <3>2, <3>3 DEF Busy, Part
  <2> QED
    BY <2>2, <2>3
<1>4. ZombiesRaced'
  <2>1. ASSUME NEW v \in Workers, Zombie(v)'
        PROVE  Part(v)' \in raced'
    <3>1. CASE v = w
      BY <2>1, <3>1 DEF Zombie, Begins
    <3>2. CASE v # w
      <4>1. job'[v] = job[v]
        BY <3>2 DEF Begins
      <4>2. Busy(v) /\ Part(v)' = Part(v)
        BY <2>1, <4>1, SameJob DEF Zombie
      <4>3. CASE Part(v) = p
        <5>1. owner[p] = NoWorker => Zombie(v)
          BY <4>2, <4>3, WorkerType DEF Zombie
        <5> QED
          BY <4>2, <4>3, <5>1 DEF IWork, ZombiesRaced
      <4>4. CASE Part(v) # p
        <5>1. Part(v) \in Partitions
          BY <4>2, JobType DEF IWork
        <5>2. owner'[Part(v)] = owner[Part(v)]
          BY <4>4, <5>1 DEF Begins
        <5>3. Zombie(v)
          BY <2>1, <4>2, <5>2 DEF Zombie
        <5> QED
          BY <4>2, <5>3 DEF IWork, ZombiesRaced
      <4> QED
        BY <4>3, <4>4
    <3> QED
      BY <3>1, <3>2
  <2> QED
    BY <2>1 DEF ZombiesRaced
<1>5. QueuedByKey'
  BY DEF IWork, QueuedByKey, Begins, bus
<1>6. PointsFit'
  <2> SUFFICES ASSUME NEW v \in Workers, Busy(v)' PROVE Fits(v)'
    BY DEF PointsFit
  <2>1. CASE v = w
    BY <2>1, WorkerType DEF Begins, Fits, PointsOf, Entry, Stages
  <2>2. CASE v # w
    <3>1. job'[v] = job[v]
      BY <2>2 DEF Begins
    <3> QED
      BY <3>1, SameJob DEF IWork, PointsFit
  <2> QED
    BY <2>1, <2>2
<1> QED
  BY <1>2, <1>3, <1>4, <1>5, <1>6 DEF IWork

LEMMA StopsWork ==
  ASSUME IWork, NEW w \in Workers, Stops(w),
         (Zombie(w) /\ UNCHANGED owner) \/ Releases(w),
         \/ queue' = queue
         \/ Releases(w) /\ Dequeues(Part(w)) /\ queue[Part(w)] # <<>>,
         UNCHANGED <<events, dlq, status, chunks, accepted, submitted, raced>>,
         BudgetType'
  PROVE  IWork'
<1>1. Busy(w) /\ Part(w) \in Partitions
  BY JobType DEF IWork, Stops
<1>2. queue' \in [Partitions -> Seq(Requests)]
  BY <1>1, DequeueFacts DEF IWork, TypeOK
<1>3. TypeOK'
  <2>1. \A v \in Workers : job'[v] \in Jobs(v) \union {Idle}
    BY DEF IWork, TypeOK, Stops
  <2>2. owner' \in [Partitions -> Workers \union {NoWorker}]
    BY DEF IWork, TypeOK, Releases
  <2> QED
    BY <1>2, <2>1, <2>2 DEF IWork, TypeOK, Stops, BudgetType
<1>4. OwnerHasHead'
  <2> SUFFICES ASSUME NEW t \in Partitions, owner'[t] # NoWorker
               PROVE  /\ owner'[t] \in Workers /\ Busy(owner[t])' /\ Part(owner[t])' = t
                      /\ queue'[t] # <<>> /\ Head(queue'[t]) = job'[owner'[t]].req
    BY DEF OwnerHasHead
  <2>1. owner'[t] = owner[t]
    BY DEF Releases
  <2>2. /\ owner[t] \in Workers /\ Busy(owner[t]) /\ Part(owner[t]) = t
        /\ queue[t] # <<>> /\ Head(queue[t]) = job[owner[t]].req
    BY <2>1 DEF IWork, OwnerHasHead
  <2>3. owner[t] # w
    BY <2>1, <2>2, WorkerType DEF Zombie, Releases
  <2>4. job'[owner[t]] = job[owner[t]]
    BY <2>2, <2>3 DEF Stops
  <2>5. queue'[t] = queue[t]
    <3>1. Releases(w) => t # Part(w)
      BY <2>1, <2>2, <2>3 DEF Releases
    <3> QED
      BY <1>1, <3>1, DequeueFacts DEF IWork
  <2> QED
    BY <2>1, <2>2, <2>4, <2>5 DEF Busy, Part
<1>5. ZombiesRaced'
  <2>1. ASSUME NEW v \in Workers, Zombie(v)'
        PROVE  Part(v)' \in raced'
    <3>1. v # w
      BY <2>1 DEF Zombie, Stops
    <3>2. job'[v] = job[v]
      BY <3>1 DEF Stops
    <3>3. Busy(v) /\ Part(v)' = Part(v)
      BY <2>1, <3>2, SameJob DEF Zombie
    <3>4. Part(v) \in Partitions
      BY <3>3, JobType DEF IWork
    <3>5. Zombie(v)
      BY <2>1, <3>1, <3>3, <3>4 DEF Zombie, Releases
    <3> QED
      BY <3>3, <3>5 DEF IWork, ZombiesRaced
  <2> QED
    BY <2>1 DEF ZombiesRaced
<1>6. QueuedByKey'
  <2> SUFFICES ASSUME NEW t \in Partitions, NEW i \in DOMAIN queue'[t]
               PROVE  Key(t[1], queue'[t][i]) = t[2]
    BY DEF QueuedByKey
  <2>1. CASE queue'[t] = queue[t]
    BY <2>1 DEF IWork, QueuedByKey
  <2>2. CASE queue'[t] # queue[t]
    <3>1. t = Part(w) /\ Dequeues(Part(w)) /\ queue[Part(w)] # <<>>
      BY <1>1, <2>2, DequeueFacts DEF IWork
    <3>2. i + 1 \in DOMAIN queue[t] /\ queue'[t][i] = queue[t][i + 1]
      BY <1>1, <3>1, DequeueFacts DEF IWork
    <3> QED
      BY <3>2 DEF IWork, QueuedByKey
  <2> QED
    BY <2>1, <2>2
<1>7. PointsFit'
  <2> SUFFICES ASSUME NEW v \in Workers, Busy(v)' PROVE Fits(v)'
    BY DEF PointsFit
  <2>1. job'[v] = job[v]
    BY DEF Stops
  <2> QED
    BY <2>1, SameJob DEF IWork, PointsFit
<1> QED
  BY <1>3, <1>4, <1>5, <1>6, <1>7 DEF IWork

LEMMA EnqueueWork ==
  ASSUME IWork, NEW p \in Partitions, NEW r \in Requests, Enqueues(r, p),
         Key(p[1], r) = p[2]
  PROVE  queue' \in [Partitions -> Seq(Requests)] /\ QueuedByKey' /\ HeadsStay
<1>1. QueuedByKey'
  BY EnqueueFacts DEF IWork, QueuedByKey
<1> QED
  BY <1>1, EnqueueFacts DEF IWork, HeadsStay

LEMMA PublishWork ==
  ASSUME IWork, NEW w \in Workers, Publish(w)
  PROVE  IWork'
<1>1. /\ Busy(w) /\ Steps(w) /\ job'[w].at = "commit" /\ owner' = owner /\ raced' = raced
      /\ UNCHANGED <<unmarked, faults>> /\ UNCHANGED <<status, chunks, accepted, submitted>>
  BY PublishEffect
<1>2. w[1] \in Stages /\ job[w].req \in Requests
  BY <1>1, WorkerType, JobType DEF IWork
<1>3. Fits(w)'
  BY <1>1, <1>2 DEF Fits, PointsOf, Stages
<1>4. queue' \in [Partitions -> Seq(Requests)] /\ QueuedByKey' /\ HeadsStay
  <2>1. CASE queue' = queue
    BY <2>1 DEF IWork, TypeOK, QueuedByKey, HeadsStay
  <2>2. CASE queue' # queue
    <3> DEFINE p == <<NextStage[w[1]], Doc(w)>>
    <3>1. p \in Partitions /\ Enqueues(job[w].req, p) /\ w[1] \in {"fetch", "chunk"}
      BY <2>2, PublishEffect
    <3>2. Key(p[1], job[w].req) = p[2]
      BY <3>1 DEF Key, NextStage, Doc
    <3> HIDE DEF p
    <3> QED
      BY <1>2, <3>1, <3>2, EnqueueWork
  <2> QED
    BY <2>1, <2>2
<1>5. BusType'
  <2>1. job[w].result \in ResultsOf[w[1]]
    BY PublishEffect
  <2>2. Word(w[1], job[w].result) \in DOMAIN Rank \union Results
    BY <1>2, <2>1, RankType DEF Word, ResultsOf, Stages, Results
  <2>3. events' \in [Requests -> SUBSET (Stages \X (DOMAIN Rank \union Results))]
    <3> DEFINE R == DOMAIN Rank \union Results
               e == <<w[1], Word(w[1], job[w].result)>>
    <3>1. events \in [Requests -> SUBSET (Stages \X R)]
      BY DEF IWork, TypeOK
    <3>2. e \in Stages \X R
      BY <1>2, <2>2
    <3>3. events' = [events EXCEPT ![job[w].req] = @ \union {e}]
      BY PublishEffect
    <3> HIDE DEF R, e
    <3>4. events' \in [Requests -> SUBSET (Stages \X R)]
      BY <3>1, <3>2, <3>3
    <3> QED
      BY <3>4 DEF R
  <2>4. dlq' \subseteq Stages \X Requests
    <3>1. dlq \subseteq Stages \X Requests /\ <<w[1], job[w].req>> \in Stages \X Requests
      BY <1>2 DEF IWork, TypeOK
    <3>2. dlq' = dlq \/ dlq' = dlq \union {<<w[1], job[w].req>>}
      BY PublishEffect
    <3> QED
      BY <3>1, <3>2
  <2> QED
    BY <1>1, <1>4, <2>3, <2>4 DEF BusType, IWork, TypeOK
<1>6. StoreType' /\ BudgetType'
  BY <1>1 DEF IWork, TypeOK, StoreType, BudgetType
<1> QED
  BY <1>1, <1>3, <1>4, <1>5, <1>6, StepsWork

(* A message comes in from outside. *)
LEMMA ArrivesWork ==
  ASSUME IWork, NEW p \in Partitions, NEW r \in Requests, Enqueues(r, p),
         Key(p[1], r) = p[2],
         UNCHANGED <<owner, job, status, chunks, accepted, events, raced, unmarked, faults>>,
         submitted' \subseteq Requests, dlq' \subseteq dlq
  PROVE  IWork'
<1>1. queue' \in [Partitions -> Seq(Requests)] /\ QueuedByKey' /\ HeadsStay
  BY EnqueueWork
<1>2. BusType' /\ StoreType' /\ BudgetType'
  BY <1>1 DEF IWork, TypeOK, BusType, StoreType, BudgetType
<1>3. DOMAIN job' = Workers
  BY DEF IWork, TypeOK
<1>4. \A v \in Workers : /\ job'[v] \in Jobs(v) \union {Idle}
                         /\ Busy(v)' = Busy(v) /\ job'[v].req = job[v].req
                         /\ Busy(v) => Fits(v)'
  BY SameJob DEF IWork, TypeOK, PointsFit
<1> QED
  BY <1>1, <1>2, <1>3, <1>4, StayWork

LEMMA SameWork == ASSUME IWork, UNCHANGED vars PROVE IWork'
<1>1. UNCHANGED <<queue, owner, job, status, chunks, accepted, submitted, events, dlq,
                  raced, unmarked, faults>>
  BY DEF vars
<1>2. TypeOK'
  BY <1>1 DEF IWork, TypeOK
<1> QED
  BY <1>1, <1>2 DEF IWork, OwnerHasHead, ZombiesRaced, QueuedByKey, PointsFit,
                     Busy, Part, Zombie, Fits, Forced

(* What happens in a step, as the lemmas above and below split it. *)
LEMMA WorkKept ==
  ASSUME IWork, [Next]_vars
  PROVE  IWork'
<1>1. ASSUME NEW w \in Workers, Take(w) PROVE IWork'
  BY <1>1, TakeEffect, BeginsWork DEF budget
<1>2. ASSUME NEW w \in Workers, TakeOver(w) PROVE IWork'
  BY <1>2, TakeOverEffect, BeginsWork
<1>3. ASSUME NEW w \in Workers, Commit(w) PROVE IWork'
  <2>1. BudgetType'
    BY <1>3, CommitEffect DEF IWork, TypeOK, BudgetType
  <2> QED
    BY <1>3, <2>1, CommitEffect, StopsWork
<1>4. ASSUME NEW w \in Workers, Crash(w) PROVE IWork'
  <2>1. BudgetType'
    BY <1>4, CrashEffect
  <2> QED
    BY <1>4, <2>1, CrashEffect, StopsWork
<1>5. ASSUME NEW r \in Requests, Submit(r) PROVE IWork'
  <2>1. Key("fetch", r) = UrlOf[r]
    BY DEF Key
  <2>2. submitted' \subseteq Requests
    BY <1>5, SubmitEffect DEF IWork, TypeOK
  <2> QED
    BY <1>5, <2>1, <2>2, SubmitEffect, ArrivesWork
<1>6. ASSUME NEW e \in dlq, Replay(e) PROVE IWork'
  <2>1. submitted' \subseteq Requests
    BY <1>6, ReplayEffect DEF IWork, TypeOK
  <2> QED
    BY <1>6, <2>1, ReplayEffect, ArrivesWork
<1> QED
  BY <1>1, <1>2, <1>3, <1>4, <1>5, <1>6, HandlerWork, RaisesWork, PublishWork, SameWork
  DEF Next, Advance, Quiet

------------------------------------------------------------------------------
(* Group 2: a request is always somewhere. *)

LEMMA LaterStages ==
  ASSUME NEW s \in Stages, NEW t \in Later[s]
  PROVE  t \in {"chunk", "embed"} /\ t # s /\ Later[t] \subseteq Later[s]
  BY DEF Stages, Later

LEMMA HandedOnKept ==
  ASSUME NEW s \in Stages, NEW r \in Requests, HandedOn(r, s),
         Ended(r) => Ended(r)',
         \A t \in Partitions : InQueue(r, t) => InQueue(r, t)'
  PROVE  HandedOn(r, s)'
<1>1. \A t \in Later[s] : <<t, DocOf[r]>> \in Partitions
  BY LaterStages, RequestType DEF Partitions
<1> QED
  BY <1>1 DEF HandedOn

(* Nothing that was in a queue leaves it, no status stream is taken back.     *)
LEMMA StayRequests ==
  ASSUME IWork, IRequests, DOMAIN job' = Workers,
         \A r \in Requests : Ended(r) => Ended(r)',
         \A t \in Partitions : \A q : InQueue(q, t) => InQueue(q, t)',
         \A v \in Workers : Busy(v)' /\ job'[v].at = "commit" =>
           \/ Busy(v) /\ job[v].at = "commit" /\ job'[v].req = job[v].req
           \/ HandedOn(job[v].req, v[1])' /\ job'[v].req = job[v].req,
         \A r \in submitted' : r \in submitted \/ \E p \in Partitions : InQueue(r, p)'
  PROVE  IRequests'
<1>1. OutcomeBeforeCommit'
  <2> SUFFICES ASSUME NEW v \in Workers, Busy(v)', job'[v].at = "commit"
               PROVE  HandedOn(job[v].req, v[1])'
    BY DEF OutcomeBeforeCommit
  <2>1. CASE Busy(v) /\ job[v].at = "commit" /\ job'[v].req = job[v].req
    <3>1. HandedOn(job[v].req, v[1]) /\ job[v].req \in Requests /\ v[1] \in Stages
      BY <2>1, WorkerType, JobType DEF IWork, IRequests, OutcomeBeforeCommit
    <3>2. PICK q \in Requests : q = job[v].req
      BY <3>1
    <3>3. HandedOn(q, v[1])'
      BY <3>1, <3>2, HandedOnKept
    <3>4. q = job'[v].req
      BY <2>1, <3>2
    <3> QED
      BY <3>3, <3>4 DEF HandedOn, Ended, InQueue
  <2> QED
    BY <2>1
<1>2. RequestsConserved'
  <2> SUFFICES ASSUME NEW r \in submitted'
               PROVE  Ended(r)' \/ \E p \in Partitions : InQueue(r, p)'
    BY DEF RequestsConserved, InQueue
  <2>1. r \in submitted => Ended(r) \/ \E p \in Partitions : InQueue(r, p)
    BY DEF IRequests, RequestsConserved, InQueue
  <2>2. r \in submitted => r \in Requests
    BY DEF IWork, TypeOK
  <2> QED
    BY <2>1, <2>2
<1> QED
  BY <1>1, <1>2 DEF IRequests

LEMMA InitRequests == Init => IRequests
  BY DEF Init, IRequests, OutcomeBeforeCommit, RequestsConserved, Busy

(* A worker that goes on, but not to its commit. *)
LEMMA StepsRequests ==
  ASSUME IWork, IRequests, NEW w \in Workers, Steps(w), job'[w].at # "commit",
         UNCHANGED <<queue, events, submitted>>
  PROVE  IRequests'
<1>1. \A r \in Requests : Ended(r) => Ended(r)'
  BY DEF Ended
<1>2. \A t \in Partitions : \A q : InQueue(q, t) => InQueue(q, t)'
  BY DEF InQueue
<1>3. \A v \in Workers : Busy(v)' /\ job'[v].at = "commit" =>
        Busy(v) /\ job[v].at = "commit" /\ job'[v].req = job[v].req
  BY StepsKeep DEF IWork, Steps
<1>4. DOMAIN job' = Workers
  BY DEF Steps
<1> QED
  BY <1>1, <1>2, <1>3, <1>4, StayRequests

LEMMA BeginsRequests ==
  ASSUME IWork, IRequests, NEW w \in Workers, NEW p \in Partitions, Begins(w, p)
  PROVE  IRequests'
<1>1. \A r \in Requests : Ended(r) => Ended(r)'
  BY DEF Ended, Begins, bus
<1>2. \A t \in Partitions : \A q : InQueue(q, t) => InQueue(q, t)'
  BY DEF InQueue, Begins, bus
<1>3. \A v \in Workers : Busy(v)' /\ job'[v].at = "commit" =>
        Busy(v) /\ job[v].at = "commit" /\ job'[v].req = job[v].req
  <2> TAKE v \in Workers
  <2> HAVE Busy(v)' /\ job'[v].at = "commit"
  <2>1. v # w
    BY DEF Begins, Entry
  <2> QED
    BY <2>1 DEF Begins, Busy
<1>4. DOMAIN job' = Workers /\ submitted' = submitted
  BY DEF Begins
<1> QED
  BY <1>1, <1>2, <1>3, <1>4, StayRequests

LEMMA PublishRequests ==
  ASSUME IWork, IRequests, NEW w \in Workers, Publish(w)
  PROVE  IRequests'
<1>1. /\ Busy(w) /\ Steps(w) /\ submitted' = submitted /\ job'[w].req = job[w].req
      /\ job[w].req \in Requests /\ Doc(w) \in Docs /\ w[1] \in Stages
  BY PublishEffect, JobType, WorkerType DEF IWork, Steps
<1>2. PICK r \in Requests : r = job[w].req
  BY <1>1
<1> DEFINE e == <<w[1], Word(w[1], job[w].result)>>
<1>3. events' = [events EXCEPT ![r] = @ \union {e}]
  BY <1>2, PublishEffect
<1>4. events \in [Requests -> SUBSET (Stages \X (DOMAIN Rank \union Results))]
  BY DEF IWork, TypeOK
<1> HIDE DEF e
<1>5. /\ \A q \in Requests : events[q] \subseteq events'[q]
      /\ e \in events'[r]
  BY <1>2, <1>3, <1>4
<1>6. \A q \in Requests : Ended(q) => Ended(q)'
  BY <1>5 DEF Ended
<1>7. \A t \in Partitions : \A q : InQueue(q, t) => InQueue(q, t)'
  BY <1>1, PublishEffect, EnqueueFacts DEF IWork, InQueue
<1>8. HandedOn(r, w[1])'
  <2>1. CASE job[w].result = "next"
    <3>1. /\ w[1] \in {"fetch", "chunk"} /\ <<NextStage[w[1]], Doc(w)>> \in Partitions
          /\ Enqueues(job[w].req, <<NextStage[w[1]], Doc(w)>>)
      BY <2>1, PublishEffect
    <3>2. NextStage[w[1]] \in Later[w[1]] /\ Doc(w) = DocOf[r]
      BY <1>2, <3>1 DEF NextStage, Later, Doc
    <3>3. InQueue(r, <<NextStage[w[1]], DocOf[r]>>)'
      BY <1>2, <3>1, <3>2, EnqueueFacts DEF IWork
    <3> QED
      BY <3>2, <3>3 DEF HandedOn
  <2>2. CASE job[w].result # "next"
    <3>1. job[w].result \in Final
      BY <1>1, <2>2, PublishEffect DEF ResultsOf, Stages, Final
    <3>2. e[2] \in Final
      BY <2>2, <3>1 DEF e, Word
    <3>3. \E x \in events'[r] : x[2] \in Final
      BY <1>5, <3>2
    <3> QED
      BY <3>3 DEF HandedOn, Ended
  <2> QED
    BY <2>1, <2>2
<1>9. \A v \in Workers : Busy(v)' /\ job'[v].at = "commit" =>
        \/ Busy(v) /\ job[v].at = "commit" /\ job'[v].req = job[v].req
        \/ HandedOn(job[v].req, v[1])' /\ job'[v].req = job[v].req
  <2> TAKE v \in Workers
  <2> HAVE Busy(v)' /\ job'[v].at = "commit"
  <2>1. CASE v = w
    <3>1. r = job'[v].req
      BY <1>1, <1>2, <2>1
    <3> QED
      BY <1>1, <1>8, <2>1, <3>1 DEF HandedOn, Ended, InQueue
  <2>2. CASE v # w
    BY <1>1, <2>2 DEF Steps, Busy
  <2> QED
    BY <2>1, <2>2
<1>10. DOMAIN job' = Workers
  BY <1>1 DEF Steps
<1> QED
  BY <1>1, <1>6, <1>7, <1>9, <1>10, StayRequests

(* The message whose offset is committed was handed on: it is in a later     *)
(* stage, which is not the one it is committed in.                           *)
LEMMA StopsRequests ==
  ASSUME IWork, IRequests, NEW w \in Workers, Stops(w),
         \/ queue' = queue
         \/ /\ job[w].at = "commit" /\ Dequeues(Part(w)) /\ queue[Part(w)] # <<>>
            /\ Head(queue[Part(w)]) = job[w].req,
         UNCHANGED <<events, submitted>>
  PROVE  IRequests'
<1>1. Busy(w) /\ w[1] \in Stages /\ job[w].req \in Requests /\ Part(w) \in Partitions
  BY WorkerType, JobType DEF IWork, Stops
<1>2. PICK r \in Requests : r = job[w].req
  BY <1>1
<1>3. \A q \in Requests : Ended(q)' <=> Ended(q)
  BY DEF Ended
<1>4. \A t \in Partitions : \A q :
        InQueue(q, t) => InQueue(q, t)' \/ (t = Part(w) /\ q = r /\ HandedOn(r, w[1]))
  <2>1. CASE queue' = queue
    BY <2>1 DEF InQueue
  <2>2. CASE queue' # queue
    <3>1. HandedOn(r, w[1])
      BY <1>1, <1>2, <2>2 DEF IRequests, OutcomeBeforeCommit
    <3> QED
      BY <1>1, <1>2, <2>2, <3>1, DequeueFacts DEF IWork
  <2> QED
    BY <2>1, <2>2
<1>5. HandedOn(r, w[1]) => HandedOn(r, w[1])'
  <2>1. \A t \in Later[w[1]] : <<t, DocOf[r]>> \in Partitions /\ <<t, DocOf[r]>> # Part(w)
    BY <1>1, LaterStages, RequestType DEF Partitions, Part
  <2> QED
    BY <1>3, <1>4, <2>1 DEF HandedOn
<1>6. ASSUME NEW v \in Workers, Busy(v)', job'[v].at = "commit"
      PROVE  HandedOn(job[v].req, v[1])'
  <2>1. job'[v] = job[v] /\ Busy(v) /\ job[v].at = "commit" /\ v # w
    BY <1>6 DEF Stops, Busy
  <2>2. v[1] \in Stages /\ job[v].req \in Requests /\ HandedOn(job[v].req, v[1])
    BY <2>1, WorkerType, JobType DEF IWork, IRequests, OutcomeBeforeCommit
  <2>3. PICK q \in Requests : q = job[v].req
    BY <2>2
  <2>4. HandedOn(q, v[1])'
    <3>1. CASE Ended(q)
      BY <1>3, <3>1 DEF HandedOn
    <3>2. CASE ~Ended(q)
      <4>1. PICK t \in Later[v[1]] : InQueue(q, <<t, DocOf[q]>>)
        BY <2>2, <2>3, <3>2 DEF HandedOn
      <4>2. <<t, DocOf[q]>> \in Partitions
        BY <2>2, <4>1, LaterStages, RequestType DEF Partitions
      <4>3. CASE InQueue(q, <<t, DocOf[q]>>)'
        BY <4>1, <4>3 DEF HandedOn
      <4>4. CASE q = r /\ <<t, DocOf[q]>> = Part(w) /\ HandedOn(r, w[1])
        <5>1. t = w[1] /\ HandedOn(q, w[1])'
          BY <1>5, <4>4 DEF Part
        <5>2. Later[w[1]] \subseteq Later[v[1]]
          BY <2>2, <4>1, <5>1, LaterStages
        <5> QED
          BY <5>1, <5>2 DEF HandedOn
      <4> QED
        BY <1>4, <4>1, <4>2, <4>3, <4>4
    <3> QED
      BY <3>1, <3>2
  <2>5. q = job'[v].req
    BY <2>1, <2>3
  <2> QED
    BY <2>4, <2>5 DEF HandedOn, Ended, InQueue
<1>7. OutcomeBeforeCommit'
  BY <1>6 DEF OutcomeBeforeCommit
<1>8. RequestsConserved'
  <2> SUFFICES ASSUME NEW q \in submitted', ~Ended(q)'
               PROVE  \E p \in Partitions : InQueue(q, p)'
    BY DEF RequestsConserved, InQueue
  <2>1. q \in Requests /\ q \in submitted
    BY DEF IWork, TypeOK
  <2>2. PICK p \in Partitions : InQueue(q, p)
    BY <1>3, <2>1 DEF IRequests, RequestsConserved, InQueue
  <2>3. CASE InQueue(q, p)'
    BY <2>3
  <2>4. CASE q = r /\ HandedOn(r, w[1])
    <3>1. PICK t \in Later[w[1]] : InQueue(q, <<t, DocOf[q]>>)'
      BY <1>5, <2>4 DEF HandedOn
    <3>2. <<t, DocOf[q]>> \in Partitions
      BY <1>1, <2>1, <3>1, LaterStages, RequestType DEF Partitions
    <3> QED
      BY <3>1, <3>2
  <2> QED
    BY <1>4, <2>2, <2>3, <2>4
<1> QED
  BY <1>7, <1>8 DEF IRequests

LEMMA ArrivesRequests ==
  ASSUME IWork, IRequests, NEW p \in Partitions, NEW r \in Requests, Enqueues(r, p),
         UNCHANGED <<job, events>>, submitted' \subseteq submitted \union {r}
  PROVE  IRequests'
<1>1. \A q \in Requests : Ended(q) => Ended(q)'
  BY DEF Ended
<1>2. \A t \in Partitions : \A q : InQueue(q, t) => InQueue(q, t)'
  BY EnqueueFacts DEF IWork
<1>3. \A v \in Workers : Busy(v)' /\ job'[v].at = "commit" =>
        Busy(v) /\ job[v].at = "commit" /\ job'[v].req = job[v].req
  BY DEF Busy
<1>4. DOMAIN job' = Workers
  BY DEF IWork, TypeOK
<1>5. InQueue(r, p)'
  BY EnqueueFacts DEF IWork
<1> QED
  BY <1>1, <1>2, <1>3, <1>4, <1>5, StayRequests

LEMMA RequestsKept ==
  ASSUME IWork, IRequests, [Next]_vars
  PROVE  IRequests'
<1>1. ASSUME NEW w \in Workers, Take(w) \/ TakeOver(w) PROVE IRequests'
  BY <1>1, TakeEffect, TakeOverEffect, BeginsRequests
<1>2. ASSUME NEW w \in Workers, Handler(w) PROVE IRequests'
  BY <1>2, HandlerEffect, StepsRequests DEF Outside
<1>3. ASSUME NEW w \in Workers, HandlerRaises(w) PROVE IRequests'
  <2>1. job'[w].at # "commit"
    BY <1>3, RaisesEffect DEF Entry
  <2> QED
    BY <1>3, <2>1, RaisesEffect, StepsRequests DEF Outside
<1>4. ASSUME NEW w \in Workers, Commit(w) PROVE IRequests'
  BY <1>4, CommitEffect, StopsRequests
<1>5. ASSUME NEW w \in Workers, Crash(w) PROVE IRequests'
  BY <1>5, CrashEffect, StopsRequests
<1>6. ASSUME NEW r \in Requests, Submit(r) PROVE IRequests'
  BY <1>6, SubmitEffect, ArrivesRequests
<1>7. ASSUME NEW e \in dlq, Replay(e) PROVE IRequests'
  BY <1>7, ReplayEffect, ArrivesRequests
<1>8. ASSUME UNCHANGED vars PROVE IRequests'
  BY <1>8 DEF vars, IRequests, OutcomeBeforeCommit, RequestsConserved, HandedOn, Ended,
             InQueue, Busy
<1> QED
  BY <1>1, <1>2, <1>3, <1>4, <1>5, <1>6, <1>7, <1>8, PublishRequests
  DEF Next, Advance, Quiet

------------------------------------------------------------------------------
(* Where a worker comes from, and what a step may do to the store.           *)

Stays(v) == Busy(v) /\ job'[v] = job[v]

(* A worker that is busy after a step stayed, made a step of its handler, or *)
(* is at one of the points the worker around it puts it.                     *)
LEMMA Moves ==
  ASSUME IWork, [Next]_vars, NEW v \in Workers, Busy(v)'
  PROVE  \/ Stays(v)
         \/ Handler(v)
         \/ job'[v].at = Entry(v[1]) /\ job'[v].batch = 0
         \/ job'[v].at = "commit"
         \/ Busy(v) /\ Steps(v) /\ job'[v].at = "publish" /\ job'[v].result = "failed"
<1>1. ASSUME NEW w \in Workers, v # w, \A u \in Workers : u # w => job'[u] = job[u]
      PROVE  Stays(v)
  BY <1>1, SameJob DEF Stays
<1>2. ASSUME NEW w \in Workers, Take(w) \/ TakeOver(w)
      PROVE  Stays(v) \/ (job'[v].at = Entry(v[1]) /\ job'[v].batch = 0)
  BY <1>1, <1>2, TakeEffect, TakeOverEffect DEF Begins
<1>3. ASSUME NEW w \in Workers, Handler(w)
      PROVE  Stays(v) \/ Handler(v)
  BY <1>1, <1>3, HandlerEffect DEF Steps
<1>4. ASSUME NEW w \in Workers, HandlerRaises(w)
      PROVE  \/ Stays(v)
             \/ job'[v].at = Entry(v[1]) /\ job'[v].batch = 0
             \/ Busy(v) /\ Steps(v) /\ job'[v].at = "publish" /\ job'[v].result = "failed"
  BY <1>1, <1>4, RaisesEffect DEF Steps
<1>5. ASSUME NEW w \in Workers, Publish(w)
      PROVE  Stays(v) \/ job'[v].at = "commit"
  BY <1>1, <1>5, PublishEffect DEF Steps
<1>6. ASSUME NEW w \in Workers, Commit(w) \/ Crash(w)
      PROVE  Stays(v)
  BY <1>1, <1>6, CommitEffect, CrashEffect DEF Stops
<1>7. ASSUME job' = job PROVE Stays(v)
  BY <1>7 DEF Stays, Busy
<1>8. ASSUME UNCHANGED vars PROVE job' = job
  BY <1>8 DEF vars
<1> QED
  BY <1>2, <1>3, <1>4, <1>5, <1>6, <1>7, <1>8, SubmitEffect, ReplayEffect
  DEF Next, Advance, Quiet

LEMMA ToChunkMark ==
  ASSUME IWork, [Next]_vars, NEW v \in Workers, Busy(v)', v[1] = "chunk", job'[v].at = "mark"
  PROVE  Stays(v) \/ SaveChunks(v)
<1>1. Stays(v) \/ Handler(v)
  BY Moves DEF Entry
<1> QED
  BY <1>1, SaveTextEffect, CheckEffect, CountChunksEffect, MarkChunkedEffect, MarkIndexedEffect
  DEF Handler, Wipe, Upsert, At

LEMMA ToNext ==
  ASSUME IWork, [Next]_vars, NEW v \in Workers, Busy(v)',
         job'[v].at = "publish", job'[v].result = "next"
  PROVE  Stays(v) \/ SaveText(v) \/ MarkChunked(v) \/ (CountChunks(v) /\ chunks[Doc(v)] > 0)
<1>1. Stays(v) \/ Handler(v)
  BY Moves DEF Entry
<1> QED
  BY <1>1, CheckEffect, CountChunksEffect, SaveChunksEffect, WipeEffect, UpsertEffect,
     MarkIndexedEffect DEF Handler

LEMMA ToSkipped ==
  ASSUME IWork, [Next]_vars, NEW v \in Workers, Busy(v)',
         job'[v].at = "publish", job'[v].result = "skipped"
  PROVE  Stays(v) \/ (Check(v) /\ ~Forced(v) /\ status[Doc(v)] = "indexed")
<1>1. Stays(v) \/ Handler(v)
  BY Moves DEF Entry
<1> QED
  BY <1>1, SaveTextEffect, CheckEffect, CountChunksEffect, SaveChunksEffect, WipeEffect,
     UpsertEffect, MarkChunkedEffect, MarkIndexedEffect DEF Handler

LEMMA ToIndexed ==
  ASSUME IWork, [Next]_vars, NEW v \in Workers, Busy(v)',
         job'[v].at = "publish", job'[v].result = "indexed"
  PROVE  Stays(v) \/ MarkIndexed(v)
<1>1. Stays(v) \/ Handler(v)
  BY Moves DEF Entry
<1> QED
  BY <1>1, SaveTextEffect, CheckEffect, CountChunksEffect, SaveChunksEffect, WipeEffect,
     UpsertEffect, MarkChunkedEffect DEF Handler

LEMMA ToUpsert ==
  ASSUME IWork, [Next]_vars, NEW v \in Workers, Busy(v)', v[1] = "embed",
         job'[v].at \in {"upsert", "mark"}
  PROVE  Stays(v) \/ Upsert(v) \/ (job'[v].at = "upsert" /\ job'[v].batch = 0)
<1>1. Stays(v) \/ Handler(v)
  BY Moves DEF Entry
<1> QED
  BY <1>1, SaveTextEffect, CheckEffect, WipeEffect, MarkIndexedEffect
  DEF Handler, CountChunks, SaveChunks, MarkChunked, At

(* The store changes in handlers only. *)
LEMMA StoreChanges ==
  ASSUME IWork, [Next]_vars
  PROVE  UNCHANGED store \/ \E w \in Workers : Handler(w)
<1>1. ASSUME NEW w \in Workers, Take(w) \/ TakeOver(w) PROVE UNCHANGED store
  BY <1>1, TakeEffect, TakeOverEffect DEF Begins
<1>2. ASSUME NEW w \in Workers, Commit(w) \/ Crash(w) PROVE UNCHANGED store
  BY <1>2, CommitEffect, CrashEffect DEF store
<1>3. ASSUME UNCHANGED vars PROVE UNCHANGED store
  BY <1>3 DEF vars, store
<1> QED
  BY <1>1, <1>2, <1>3, PublishEffect, RaisesEffect, SubmitEffect, ReplayEffect
  DEF Next, Advance, Quiet, store

LEMMA StatusChange ==
  ASSUME IWork, [Next]_vars, NEW d \in Docs
  PROVE  \/ status'[d] = status[d]
         \/ status[d] = "none" /\ status'[d] = "fetched"
         \/ \E w \in Workers : Doc(w) = d /\ MarkChunked(w) /\ status'[d] = "chunked"
         \/ \E w \in Workers : Doc(w) = d /\ MarkIndexed(w) /\ status'[d] = "indexed"
<1>1. status \in [Docs -> DOMAIN Rank]
  BY DEF IWork, TypeOK
<1>2. CASE UNCHANGED store
  BY <1>2 DEF store
<1>3. ASSUME NEW w \in Workers, Handler(w)
      PROVE  \/ status'[d] = status[d]
             \/ status[d] = "none" /\ status'[d] = "fetched"
             \/ Doc(w) = d /\ MarkChunked(w) /\ status'[d] = "chunked"
             \/ Doc(w) = d /\ MarkIndexed(w) /\ status'[d] = "indexed"
  <2>1. CASE SaveText(w)
    BY <1>1, <2>1 DEF SaveText
  <2>2. CASE MarkChunked(w)
    BY <1>1, <2>2 DEF MarkChunked
  <2>3. CASE MarkIndexed(w)
    BY <1>1, <2>3 DEF MarkIndexed
  <2>4. CASE ~(SaveText(w) \/ MarkChunked(w) \/ MarkIndexed(w))
    BY <1>3, <2>4 DEF Handler, Check, CountChunks, SaveChunks, Wipe, Upsert, store
  <2> QED
    BY <2>1, <2>2, <2>3, <2>4
<1> QED
  BY <1>2, <1>3, StoreChanges

LEMMA ChunksChange ==
  ASSUME IWork, [Next]_vars, NEW d \in Docs
  PROVE  \/ chunks'[d] = chunks[d]
         \/ /\ chunks[d] = 0 /\ chunks'[d] = BatchesOf[d]
            /\ \E w \in Workers : Doc(w) = d /\ SaveChunks(w) /\ job'[w].at = "mark"
<1>1. chunks \in [Docs -> Nat]
  BY DEF IWork, TypeOK
<1>2. CASE UNCHANGED store
  BY <1>2 DEF store
<1>3. ASSUME NEW w \in Workers, Handler(w)
      PROVE  \/ chunks'[d] = chunks[d]
             \/ /\ chunks[d] = 0 /\ chunks'[d] = BatchesOf[d]
                /\ Doc(w) = d /\ SaveChunks(w) /\ job'[w].at = "mark"
  <2>1. CASE SaveChunks(w)
    BY <1>1, <2>1, SaveChunksEffect
  <2>2. CASE ~SaveChunks(w)
    BY <1>3, <2>2 DEF Handler, SaveText, Check, CountChunks, MarkChunked, Wipe, Upsert,
                      MarkIndexed, store
  <2> QED
    BY <2>1, <2>2
<1> QED
  BY <1>2, <1>3, StoreChanges

(* Only a wipe takes accepted upserts away. *)
LEMMA AcceptedChange ==
  ASSUME IWork, [Next]_vars, NEW d \in Docs, NEW c \in Colls, NEW b,
         <<d, c, b>> \in accepted, <<d, c, b>> \notin accepted'
  PROVE  \E w \in Workers : Wipe(w) /\ Doc(w) = d /\ Coll(w) = c
<1>1. PICK w \in Workers : Handler(w)
  BY StoreChanges DEF store
<1>2. CASE Wipe(w)
  BY <1>2 DEF Wipe
<1>3. CASE Upsert(w)
  BY <1>3 DEF Upsert
<1>4. CASE ~(Wipe(w) \/ Upsert(w))
  BY <1>1, <1>4 DEF Handler, SaveText, Check, CountChunks, SaveChunks, MarkChunked,
                    MarkIndexed, store
<1> QED
  BY <1>2, <1>3, <1>4

(* A new event is that of a publication. *)
LEMMA EventsChange ==
  ASSUME IWork, [Next]_vars, NEW r \in Requests, NEW x \in events'[r], x \notin events[r]
  PROVE  \E w \in Workers : /\ Publish(w) /\ job[w].req = r
                            /\ x = <<w[1], Word(w[1], job[w].result)>>
<1>1. events \in [Requests -> SUBSET (Stages \X (DOMAIN Rank \union Results))]
  BY DEF IWork, TypeOK
<1>2. events' # events
  OBVIOUS
<1>3. PICK w \in Workers : Publish(w)
  <2>1. ASSUME NEW w \in Workers, Take(w) \/ TakeOver(w) PROVE events' = events
    BY <2>1, TakeEffect, TakeOverEffect DEF Begins, bus
  <2>2. ASSUME NEW w \in Workers, Commit(w) \/ Crash(w) PROVE events' = events
    BY <2>2, CommitEffect, CrashEffect
  <2>3. ASSUME UNCHANGED vars PROVE events' = events
    BY <2>3 DEF vars
  <2>4. ASSUME NEW w \in Workers, Handler(w) \/ HandlerRaises(w) PROVE events' = events
    BY <2>4, HandlerEffect, RaisesEffect DEF Outside
  <2> QED
    BY <1>2, <2>1, <2>2, <2>3, <2>4, SubmitEffect, ReplayEffect DEF Next, Advance, Quiet
<1> DEFINE e == <<w[1], Word(w[1], job[w].result)>>
<1>4. events' = [events EXCEPT ![job[w].req] = @ \union {e}]
  BY <1>3, PublishEffect
<1> HIDE DEF e
<1>5. job[w].req = r /\ x = e
  BY <1>1, <1>4
<1> QED
  BY <1>3, <1>5 DEF e

LEMMA BudgetGrows ==
  ASSUME IWork, [Next]_vars
  PROVE  raced \subseteq raced' /\ unmarked \subseteq unmarked'
<1> DEFINE Grows == raced \subseteq raced' /\ unmarked \subseteq unmarked'
<1>1. ASSUME NEW w \in Workers, Take(w) \/ TakeOver(w) PROVE Grows
  BY <1>1, TakeEffect, TakeOverEffect DEF budget
<1>2. ASSUME NEW w \in Workers, Commit(w) \/ Crash(w) PROVE Grows
  BY <1>2, CommitEffect, CrashEffect DEF Unmark
<1>3. ASSUME NEW w \in Workers, Handler(w) \/ HandlerRaises(w) PROVE Grows
  BY <1>3, HandlerEffect, RaisesEffect DEF Outside, budget, Unmark
<1>4. ASSUME UNCHANGED vars PROVE Grows
  BY <1>4 DEF vars
<1>5. Grows
  BY <1>1, <1>2, <1>3, <1>4, PublishEffect, SubmitEffect, ReplayEffect DEF Next, Advance, Quiet
<1> QED
  BY <1>5

(* Two workers have the same message only when its partition was raced.      *)
LEMMA SoleWorker ==
  ASSUME IWork, NEW v \in Workers, NEW w \in Workers, Busy(v), Busy(w),
         Part(v) = Part(w), Part(v) \notin raced
  PROVE  v = w
  BY DEF IWork, ZombiesRaced, Zombie

------------------------------------------------------------------------------
(* Group 3: rows and chunks. *)

LEMMA InitRows == Init => IRows
<1> SUFFICES ASSUME Init PROVE IRows
  OBVIOUS
<1>1. \A w \in Workers : ~Busy(w)
  BY DEF Init, Busy
<1>2. ChunksWhole /\ RowBeforeEvent
  BY <1>1 DEF Init, ChunksWhole, RowBeforeEvent
<1>3. ChunkedIsMarked
  BY <1>1 DEF Init, ChunkedIsMarked
<1>4. FirstChunking
  <2>1. \A d \in Docs : Untouched(d)
    BY <1>1 DEF Init, Untouched, Partitions
  <2> QED
    BY <2>1 DEF FirstChunking
<1>5. EventsFollowStore
  BY DEF Init, EventsFollowStore, Says
<1> QED
  BY <1>2, <1>3, <1>4, <1>5 DEF IRows

LEMMA StatusGrows ==
  ASSUME IWork, [Next]_vars, NEW d \in Docs
  PROVE  /\ Rank[status[d]] \in Nat /\ Rank[status'[d]] \in Nat
         /\ status[d] # "none" => status'[d] # "none"
         /\ Rank[status[d]] >= 2 => Rank[status'[d]] >= 2
<1>1. status[d] \in DOMAIN Rank
  BY DEF IWork, TypeOK
<1> QED
  BY <1>1, StatusChange, RankType

LEMMA ChunksWholeKept ==
  ASSUME IWork, ChunksWhole, [Next]_vars
  PROVE  ChunksWhole'
<1>1. ASSUME NEW d \in Docs
      PROVE  /\ chunks'[d] \in {0, BatchesOf[d]}
             /\ chunks[d] = BatchesOf[d] => chunks'[d] = BatchesOf[d]
  BY ChunksChange DEF ChunksWhole
<1>2. ASSUME NEW v \in Workers, Busy(v)', v[1] = "chunk",
             job'[v].at = "mark" \/ (job'[v].at = "publish" /\ job'[v].result = "next")
      PROVE  chunks'[Doc(v)'] = BatchesOf[Doc(v)']
  <2>1. CASE Stays(v)
    <3>1. Doc(v)' = Doc(v) /\ chunks[Doc(v)] = BatchesOf[Doc(v)] /\ Doc(v) \in Docs
      BY <1>2, <2>1, SameJob, JobType DEF Stays, ChunksWhole, IWork
    <3> QED
      BY <1>1, <3>1
  <2>2. CASE SaveChunks(v) /\ job'[v].at = "mark"
    <3>1. /\ Busy(v) /\ Steps(v)
          /\ chunks' = [chunks EXCEPT ![Doc(v)] = BatchesOf[Doc(v)]]
      BY <2>2, SaveChunksEffect
    <3>2. Doc(v)' = Doc(v) /\ Doc(v) \in Docs /\ chunks \in [Docs -> Nat]
      BY <3>1, StepsKeep, JobType DEF IWork, TypeOK
    <3> QED
      BY <3>1, <3>2
  <2>3. CASE CountChunks(v) /\ chunks[Doc(v)] > 0
    <3>1. Busy(v) /\ Steps(v)
      BY <2>3, CountChunksEffect
    <3>2. Doc(v)' = Doc(v) /\ Doc(v) \in Docs
      BY <3>1, StepsKeep, JobType DEF IWork
    <3>3. chunks[Doc(v)] = BatchesOf[Doc(v)]
      BY <2>3, <3>2 DEF ChunksWhole
    <3> QED
      BY <1>1, <3>2, <3>3
  <2>4. CASE MarkChunked(v)
    <3>1. Busy(v) /\ Steps(v) /\ job[v].at = "mark"
      BY <2>4, MarkChunkedEffect DEF MarkChunked, At
    <3>2. Doc(v)' = Doc(v) /\ Doc(v) \in Docs
      BY <3>1, StepsKeep, JobType DEF IWork
    <3>3. chunks[Doc(v)] = BatchesOf[Doc(v)]
      BY <1>2, <3>1 DEF ChunksWhole
    <3> QED
      BY <1>1, <3>2, <3>3
  <2> QED
    BY <1>2, <2>1, <2>2, <2>3, <2>4, ToChunkMark, ToNext DEF SaveText, At
<1> QED
  BY <1>1, <1>2 DEF ChunksWhole

LEMMA RowBeforeEventKept ==
  ASSUME IWork, RowBeforeEvent, [Next]_vars
  PROVE  RowBeforeEvent'
<1> SUFFICES ASSUME NEW v \in Workers, Busy(v)', v[1] = "fetch", job'[v].at = "publish",
                    job'[v].result = "next"
             PROVE  status'[Doc(v)'] # "none"
  BY DEF RowBeforeEvent
<1>1. CASE Stays(v)
  <2>1. Doc(v)' = Doc(v) /\ Doc(v) \in Docs /\ status[Doc(v)] # "none"
    BY <1>1, SameJob, JobType DEF Stays, RowBeforeEvent, IWork
  <2> QED
    BY <2>1, StatusGrows
<1>2. CASE SaveText(v)
  <2>1. Doc(v)' = Doc(v) /\ Doc(v) \in Docs /\ status \in [Docs -> DOMAIN Rank]
    BY <1>2, SaveTextEffect, StepsKeep, JobType DEF IWork, TypeOK
  <2> QED
    BY <1>2, <2>1 DEF SaveText
<1> QED
  BY <1>1, <1>2, ToNext DEF MarkChunked, CountChunks, At

(* A worker about to mark the document does so next, or it stops there.      *)
LEMMA MarkingStays ==
  ASSUME IWork, [Next]_vars, NEW v \in Workers, Busy(v), At(v, "chunk", "mark")
  PROVE  job'[v] = job[v] \/ MarkChunked(v) \/ Doc(v) \in unmarked'
<1>1. ASSUME NEW w \in Workers, Take(w) \/ TakeOver(w) PROVE job'[v] = job[v]
  BY <1>1, TakeEffect, TakeOverEffect DEF Begins
<1>2. ASSUME NEW w \in Workers, w # v, HandlerRaises(w) \/ Crash(w) PROVE job'[v] = job[v]
  BY <1>2, RaisesEffect, CrashEffect DEF Steps, Stops
<1>3. ASSUME HandlerRaises(v) \/ Crash(v) PROVE Doc(v) \in unmarked'
  BY <1>3, RaisesEffect, CrashEffect DEF Unmark
<1>4. ASSUME NEW w \in Workers, Handler(w), w # v PROVE job'[v] = job[v]
  BY <1>4, HandlerEffect DEF Steps
<1>5. ASSUME Handler(v) PROVE MarkChunked(v)
  BY <1>5 DEF Handler, SaveText, Check, CountChunks, SaveChunks, Wipe, Upsert, MarkIndexed, At
<1>6. ASSUME NEW w \in Workers, Publish(w) PROVE job'[v] = job[v]
  BY <1>6, PublishEffect DEF Steps, At
<1>7. ASSUME NEW w \in Workers, Commit(w) PROVE job'[v] = job[v]
  BY <1>7, CommitEffect DEF Stops, At
<1>8. ASSUME UNCHANGED vars PROVE job' = job
  BY <1>8 DEF vars
<1> QED
  BY <1>1, <1>2, <1>3, <1>4, <1>5, <1>6, <1>7, <1>8, SubmitEffect, ReplayEffect
  DEF Next, Advance, Quiet

LEMMA MarkChunkedMarks ==
  ASSUME IWork, NEW v \in Workers, MarkChunked(v)
  PROVE  Doc(v) \in Docs /\ Doc(v)' = Doc(v) /\ Rank[status'[Doc(v)]] = 2
<1>1. Doc(v) \in Docs /\ Doc(v)' = Doc(v)
  BY MarkChunkedEffect, StepsKeep, JobType DEF IWork
<1>2. status'[Doc(v)] = "chunked"
  BY <1>1 DEF MarkChunked, IWork, TypeOK
<1> QED
  BY <1>1, <1>2, RankType

LEMMA MarkedStays ==
  ASSUME IWork, [Next]_vars, NEW d \in Docs, Marked(d)
  PROVE  Marked(d)'
<1>1. CASE Rank[status[d]] >= 2
  BY <1>1, StatusGrows, RankType DEF Marked
<1>2. CASE d \in unmarked
  BY <1>2, BudgetGrows DEF Marked
<1>3. CASE Marking(d)
  <2>1. PICK v \in Workers : Busy(v) /\ At(v, "chunk", "mark") /\ Doc(v) = d
    BY <1>3 DEF Marking
  <2>2. CASE job'[v] = job[v]
    BY <2>1, <2>2, SameJob DEF Marked, Marking, At
  <2>3. CASE MarkChunked(v)
    BY <2>1, <2>3, MarkChunkedMarks, RankType DEF Marked
  <2>4. CASE d \in unmarked'
    BY <2>4 DEF Marked
  <2> QED
    BY <2>1, <2>2, <2>3, <2>4, MarkingStays
<1> QED
  BY <1>1, <1>2, <1>3, RankType DEF Marked

LEMMA MarkedKept ==
  ASSUME IWork, ChunkedIsMarked, [Next]_vars
  PROVE  ChunkedIsMarked'
<1>1. ASSUME NEW d \in Docs, chunks'[d] > 0
      PROVE  Marked(d)'
  <2>1. CASE chunks[d] > 0
    BY <2>1, MarkedStays DEF ChunkedIsMarked
  <2>2. CASE ~(chunks[d] > 0)
    <3>1. PICK v \in Workers : Doc(v) = d /\ SaveChunks(v) /\ job'[v].at = "mark"
      BY <1>1, <2>2, ChunksChange
    <3>2. Busy(v)' /\ Doc(v)' = d
      BY <3>1, SaveChunksEffect, StepsKeep DEF IWork
    <3> QED
      BY <3>1, <3>2 DEF Marked, Marking, SaveChunks, At
  <2> QED
    BY <2>1, <2>2
<1>2. ASSUME NEW v \in Workers, Busy(v)', v[1] = "chunk",
             job'[v].at = "publish", job'[v].result = "next"
      PROVE  Marked(Doc(v))'
  <2>1. PICK d \in Docs : d = Doc(v)'
    <3>1. job'[v].req \in Requests
      BY <1>2, WorkKept, JobType DEF IWork, TypeOK, Busy, Jobs
    <3> QED
      BY <3>1, RequestType DEF Doc
  <2>2. CASE Stays(v)
    <3>1. Doc(v) = d /\ Marked(Doc(v))
      BY <1>2, <2>1, <2>2, SameJob DEF Stays, ChunkedIsMarked
    <3> QED
      BY <2>1, <3>1, MarkedStays DEF Marked, Marking
  <2>3. CASE CountChunks(v) /\ chunks[Doc(v)] > 0
    <3>1. Doc(v) = d
      BY <2>1, <2>3, CountChunksEffect, StepsKeep DEF IWork
    <3> QED
      BY <2>1, <2>3, <3>1, MarkedStays DEF ChunkedIsMarked, Marked, Marking
  <2>4. CASE MarkChunked(v)
    <3>1. Rank[status'[d]] = 2
      BY <2>1, <2>4, MarkChunkedMarks
    <3> QED
      BY <2>1, <3>1, RankType DEF Marked
  <2> QED
    BY <1>2, <2>2, <2>3, <2>4, ToNext DEF SaveText, At
<1> QED
  BY <1>1, <1>2 DEF ChunkedIsMarked

(* Nothing of d reaches embed unless a worker of stage chunk passes it on.   *)
LEMMA UntouchedKept ==
  ASSUME IWork, [Next]_vars, NEW d \in Docs, Untouched(d)
  PROVE  \/ Untouched(d)'
         \/ \E w \in Workers :
              /\ Doc(w) = d /\ Busy(w) /\ Part(w) = <<"chunk", d>>
              /\ job[w].at # "publish" /\ job'[w].at # "mark"
              /\ MarkChunked(w) \/ (CountChunks(w) /\ chunks[d] > 0)
<1> SUFFICES ASSUME ~ \E w \in Workers :
                        /\ Doc(w) = d /\ Busy(w) /\ Part(w) = <<"chunk", d>>
                        /\ job[w].at # "publish" /\ job'[w].at # "mark"
                        /\ MarkChunked(w) \/ (CountChunks(w) /\ chunks[d] > 0)
             PROVE  Untouched(d)'
  OBVIOUS
<1>1. \A w \in Workers : Busy(w) /\ Doc(w) = d =>
        w[1] # "embed" /\ ~(w[1] = "chunk" /\ job[w].at = "publish" /\ job[w].result = "next")
  BY DEF Untouched
<1>2. status'[d] # "indexed"
  <2>1. \A w \in Workers : ~(Doc(w) = d /\ MarkIndexed(w))
    BY <1>1, MarkIndexedEffect DEF MarkIndexed, At
  <2> QED
    BY <2>1, StatusChange DEF Untouched
<1>3. queue'[<<"embed", d>>] = <<>>
  <2> DEFINE p == <<"embed", d>>
  <2>1. p \in Partitions /\ queue[p] = <<>> /\ p[1] = "embed"
    BY DEF Partitions, Untouched
  <2>2. ASSUME NEW w \in Workers, Publish(w) PROVE queue'[p] = queue[p]
    <3>1. CASE queue' = queue
      BY <3>1
    <3>2. CASE queue' # queue
      <4>1. /\ Busy(w) /\ job[w].at = "publish" /\ job[w].result = "next"
            /\ w[1] \in {"fetch", "chunk"} /\ Enqueues(job[w].req, <<NextStage[w[1]], Doc(w)>>)
            /\ <<NextStage[w[1]], Doc(w)>> \in Partitions /\ job[w].req \in Requests
        BY <2>2, <3>2, PublishEffect, JobType DEF IWork
      <4>2. <<NextStage[w[1]], Doc(w)>> # p
        BY <1>1, <4>1 DEF NextStage
      <4> QED
        BY <2>1, <4>1, <4>2, EnqueueFacts DEF IWork
    <3> QED
      BY <3>1, <3>2
  <2>3. ASSUME NEW w \in Workers, Commit(w) PROVE queue'[p] = queue[p]
    <3>1. CASE queue' = queue
      BY <3>1
    <3>2. CASE queue' # queue
      <4>1. /\ Busy(w) /\ Dequeues(Part(w)) /\ queue[Part(w)] # <<>>
            /\ Part(w) \in Partitions
        BY <2>3, <3>2, CommitEffect, JobType DEF Stops, IWork
      <4> QED
        BY <2>1, <4>1, DequeueFacts DEF IWork
    <3> QED
      BY <3>1, <3>2
  <2>4. ASSUME NEW w \in Workers, Take(w) \/ TakeOver(w) PROVE queue' = queue
    BY <2>4, TakeEffect, TakeOverEffect DEF Begins, bus
  <2>5. ASSUME NEW w \in Workers, Handler(w) \/ HandlerRaises(w) \/ Crash(w) PROVE queue' = queue
    BY <2>5, HandlerEffect, RaisesEffect, CrashEffect DEF Outside
  <2>6. ASSUME NEW r \in Requests, Submit(r) PROVE queue'[p] = queue[p]
    <3>1. /\ <<"fetch", UrlOf[r]>> \in Partitions /\ Enqueues(r, <<"fetch", UrlOf[r]>>)
          /\ <<"fetch", UrlOf[r]>> # p
      BY <2>6, SubmitEffect
    <3> QED
      BY <2>1, <3>1, EnqueueFacts DEF IWork
  <2>7. ASSUME NEW e \in dlq, Replay(e) PROVE queue'[p] = queue[p]
    <3>1. /\ e[1] \in Stages /\ e[2] \in Requests /\ e = <<e[1], e[2]>>
          /\ <<e[1], Key(e[1], e[2])>> \in Partitions
          /\ Enqueues(e[2], <<e[1], Key(e[1], e[2])>>)
      BY <2>7, ReplayEffect
    <3>2. <<e[1], Key(e[1], e[2])>> # p
      BY <3>1 DEF Untouched, Key
    <3> QED
      BY <2>1, <3>1, <3>2, EnqueueFacts DEF IWork
  <2>8. ASSUME UNCHANGED vars PROVE queue' = queue
    BY <2>8 DEF vars
  <2> HIDE DEF p
  <2>9. queue'[p] = queue[p]
    BY <2>2, <2>3, <2>4, <2>5, <2>6, <2>7, <2>8 DEF Next, Advance, Quiet
  <2> QED
    BY <2>1, <2>9 DEF p
<1>4. ASSUME NEW v \in Workers, Busy(v)', Doc(v)' = d
      PROVE  v[1] # "embed" /\ ~(v[1] = "chunk" /\ job'[v].at = "publish" /\ job'[v].result = "next")
  <2>1. CASE Busy(v) /\ job'[v].req = job[v].req
    <3>1. Doc(v) = d
      BY <1>4, <2>1 DEF Doc
    <3>2. v[1] # "embed"
      BY <1>1, <2>1, <3>1
    <3>3. ASSUME v[1] = "chunk", job'[v].at = "publish", job'[v].result = "next"
          PROVE  FALSE
      <4>1. ~Stays(v)
        BY <1>1, <2>1, <3>1, <3>3 DEF Stays
      <4>2. MarkChunked(v) \/ (CountChunks(v) /\ chunks[Doc(v)] > 0)
        BY <1>4, <3>3, <4>1, ToNext DEF SaveText, At
      <4>3. Part(v) = <<"chunk", d>>
        BY <3>1, <3>3 DEF Part, Key, Doc
      <4>4. job[v].at # "publish"
        BY <4>2 DEF MarkChunked, CountChunks, At
      <4> QED
        BY <2>1, <3>1, <3>3, <4>2, <4>3, <4>4
    <3> QED
      BY <3>2, <3>3
  <2>2. CASE ~(Busy(v) /\ job'[v].req = job[v].req)
    <3>1. PICK p \in Partitions : Begins(v, p)
      <4>1. ASSUME NEW w \in Workers, Handler(w) \/ HandlerRaises(w) \/ Publish(w)
            PROVE  FALSE
        <5>1. Steps(w)
          BY <4>1, HandlerEffect, RaisesEffect, PublishEffect
        <5> QED
          BY <1>4, <2>2, <5>1, StepsKeep DEF IWork
      <4>2. ASSUME NEW w \in Workers, Commit(w) \/ Crash(w)
            PROVE  FALSE
        BY <1>4, <2>2, <4>2, CommitEffect, CrashEffect, SameJob DEF Stops
      <4>3. ASSUME job' = job PROVE FALSE
        BY <1>4, <2>2, <4>3 DEF Busy
      <4>4. ASSUME UNCHANGED vars PROVE job' = job
        BY <4>4 DEF vars
      <4>5. PICK w \in Workers : Take(w) \/ TakeOver(w)
        BY <4>1, <4>2, <4>3, <4>4, SubmitEffect, ReplayEffect DEF Next, Advance, Quiet
      <4>6. PICK p \in Partitions : Begins(w, p)
        BY <4>5, TakeEffect, TakeOverEffect
      <4>7. w = v
        BY <1>4, <2>2, <4>6, SameJob DEF Begins
      <4> QED
        BY <4>6, <4>7
    <3>2. v[1] # "embed"
      <4>1. v[1] = "embed" => p = <<"embed", d>>
        BY <1>4, <3>1 DEF Begins, Part, Key, Doc
      <4> QED
        BY <3>1, <4>1 DEF Begins, Untouched
    <3>3. job'[v].at # "publish"
      BY <3>1 DEF Begins, Entry
    <3> QED
      BY <3>2, <3>3
  <2> QED
    BY <2>1, <2>2
<1>5. ASSUME NEW q \in Requests, DocOf[q] = d
      PROVE  <<"embed", q>> \notin dlq'
  <2>1. <<"embed", q>> \notin dlq
    BY <1>5 DEF Untouched
  <2>2. ASSUME NEW w \in Workers, Publish(w) PROVE <<"embed", q>> \notin dlq'
    <3>1. Busy(w) /\ (dlq' = dlq \/ dlq' = dlq \union {<<w[1], job[w].req>>})
      BY <2>2, PublishEffect
    <3>2. <<w[1], job[w].req>> # <<"embed", q>>
      BY <1>1, <1>5, <3>1 DEF Doc
    <3> QED
      BY <2>1, <3>1, <3>2
  <2>3. ASSUME NEW w \in Workers, Take(w) \/ TakeOver(w) PROVE dlq' = dlq
    BY <2>3, TakeEffect, TakeOverEffect DEF Begins, bus
  <2>4. ASSUME NEW w \in Workers, Handler(w) \/ HandlerRaises(w) \/ Commit(w) \/ Crash(w)
        PROVE  dlq' = dlq
    BY <2>4, HandlerEffect, RaisesEffect, CommitEffect, CrashEffect DEF Outside
  <2>5. ASSUME UNCHANGED vars PROVE dlq' = dlq
    BY <2>5 DEF vars
  <2> QED
    BY <2>1, <2>2, <2>3, <2>4, <2>5, SubmitEffect, ReplayEffect DEF Next, Advance, Quiet
<1> QED
  BY <1>2, <1>3, <1>4, <1>5 DEF Untouched

LEMMA FirstChunkingKept ==
  ASSUME IWork, ChunksWhole, FirstChunking, [Next]_vars
  PROVE  FirstChunking'
<1> SUFFICES ASSUME NEW d \in Docs, BatchesOf[d] > 0,
                    chunks'[d] = 0 \/ (Marking(d)' /\ <<"chunk", d>> \notin raced')
             PROVE  Untouched(d)'
  BY DEF FirstChunking
<1>1. chunks[d] \in Nat /\ BatchesOf[d] \in Nat
  BY BatchesType DEF IWork, TypeOK
<1>2. chunks[d] = 0 \/ (Marking(d) /\ <<"chunk", d>> \notin raced)
  <2>1. CASE chunks'[d] = 0
    BY <2>1, ChunksChange
  <2>2. CASE Marking(d)' /\ <<"chunk", d>> \notin raced'
    <3>1. PICK v \in Workers : Busy(v)' /\ At(v, "chunk", "mark")' /\ Doc(v)' = d
      BY <2>2 DEF Marking
    <3>2. CASE Stays(v)
      <4>1. Marking(d)
        BY <3>1, <3>2, SameJob DEF Stays, Marking, At
      <4> QED
        BY <2>2, <4>1, BudgetGrows
    <3>3. CASE SaveChunks(v) /\ job'[v].at = "mark"
      <4>1. Doc(v) = d /\ ~(chunks[Doc(v)] > 0)
        BY <3>1, <3>3, SaveChunksEffect, StepsKeep DEF IWork
      <4> QED
        BY <1>1, <4>1
    <3> QED
      BY <3>1, <3>2, <3>3, ToChunkMark DEF At
  <2> QED
    BY <2>1, <2>2
<1>3. Untouched(d)
  BY <1>2 DEF FirstChunking
<1>4. ASSUME NEW w \in Workers, Doc(w) = d, Busy(w), Part(w) = <<"chunk", d>>,
             job'[w].at # "mark", MarkChunked(w) \/ (CountChunks(w) /\ chunks[d] > 0)
      PROVE  FALSE
  <2>1. chunks[d] > 0 /\ chunks'[d] = chunks[d]
    <3>1. MarkChunked(w) => chunks[d] = BatchesOf[d]
      BY <1>4, MarkChunkedEffect DEF MarkChunked, At, ChunksWhole
    <3>2. chunks[d] > 0
      BY <1>4, <3>1
    <3> QED
      BY <1>1, <3>2, ChunksChange
  <2>2. Marking(d)' /\ <<"chunk", d>> \notin raced'
    BY <1>1, <2>1
  <2>3. PICK v \in Workers : Busy(v)' /\ At(v, "chunk", "mark")' /\ Doc(v)' = d
    BY <2>2 DEF Marking
  <2>4. v # w
    BY <1>4, <2>3 DEF At
  <2>5. Steps(w)
    BY <1>4, MarkChunkedEffect, CountChunksEffect
  <2>6. Busy(v) /\ Doc(v) = d /\ v[1] = "chunk"
    BY <2>3, <2>4, <2>5, StepsKeep DEF IWork, At
  <2>7. Part(v) = Part(w) /\ Part(v) \notin raced
    BY <1>4, <2>2, <2>6, BudgetGrows DEF Part, Key, Doc
  <2> QED
    BY <1>4, <2>4, <2>6, <2>7, SoleWorker
<1> QED
  BY <1>3, <1>4, UntouchedKept

LEMMA EventsFollowStoreKept ==
  ASSUME IWork, IRows, [Next]_vars
  PROVE  EventsFollowStore'
<1> SUFFICES ASSUME NEW r \in Requests
             PROVE  /\ Says(r, "fetched")' => status'[DocOf[r]] # "none"
                    /\ Says(r, "chunked")' =>
                         /\ chunks'[DocOf[r]] = BatchesOf[DocOf[r]]
                         /\ Marked(DocOf[r])'
  BY DEF EventsFollowStore, Marked
<1>1. PICK d \in Docs : d = DocOf[r]
  BY RequestType
<1>2. ASSUME NEW word, Says(r, word)', ~Says(r, word)
      PROVE  \E w \in Workers : /\ Publish(w) /\ job[w].req = r /\ Busy(w) /\ Doc(w) = d
                                /\ job[w].at = "publish"
                                /\ job[w].result \in ResultsOf[w[1]] /\ w[1] \in Stages
                                /\ word = Word(w[1], job[w].result)
  <2>1. PICK x \in events'[r] : x[2] = word
    BY <1>2 DEF Says
  <2>2. x \notin events[r]
    BY <1>2, <2>1 DEF Says
  <2>3. PICK w \in Workers : /\ Publish(w) /\ job[w].req = r
                             /\ x = <<w[1], Word(w[1], job[w].result)>>
    BY <2>2, EventsChange
  <2> QED
    BY <1>1, <2>1, <2>3, PublishEffect, WorkerType DEF Doc
<1>3. ASSUME Says(r, "fetched")'
      PROVE  status'[d] # "none"
  <2>1. CASE Says(r, "fetched")
    BY <1>1, <2>1, StatusGrows DEF IRows, EventsFollowStore
  <2>2. CASE ~Says(r, "fetched")
    <3>1. PICK w \in Workers : /\ Busy(w) /\ Doc(w) = d /\ job[w].at = "publish"
                               /\ job[w].result \in ResultsOf[w[1]] /\ w[1] \in Stages
                               /\ "fetched" = Word(w[1], job[w].result)
      BY <1>2, <1>3, <2>2
    <3>2. w[1] = "fetch" /\ job[w].result = "next"
      BY <3>1 DEF Word, ResultsOf, Stages
    <3> QED
      BY <3>1, <3>2, StatusGrows DEF IRows, RowBeforeEvent
  <2> QED
    BY <2>1, <2>2
<1>4. ASSUME Says(r, "chunked")'
      PROVE  chunks'[d] = BatchesOf[d] /\ Marked(d)'
  <2>1. chunks[d] = BatchesOf[d] /\ Marked(d)
    <3>1. CASE Says(r, "chunked")
      BY <1>1, <3>1 DEF IRows, EventsFollowStore, Marked
    <3>2. CASE ~Says(r, "chunked")
      <4>1. PICK w \in Workers : /\ Busy(w) /\ Doc(w) = d /\ job[w].at = "publish"
                                 /\ job[w].result \in ResultsOf[w[1]] /\ w[1] \in Stages
                                 /\ "chunked" = Word(w[1], job[w].result)
        BY <1>2, <1>4, <3>2
      <4>2. w[1] = "chunk" /\ job[w].result = "next"
        BY <4>1 DEF Word, ResultsOf, Stages
      <4>3. chunks[d] = BatchesOf[d]
        BY <4>1, <4>2 DEF IRows, ChunksWhole
      <4>4. Marked(d)
        BY <4>1, <4>2 DEF IRows, ChunkedIsMarked
      <4> QED
        BY <4>3, <4>4
    <3> QED
      BY <3>1, <3>2
  <2>2. chunks'[d] = BatchesOf[d]
    BY <2>1, ChunksChange
  <2>3. Marked(d)'
    BY <2>1, MarkedStays
  <2> QED
    BY <2>2, <2>3
<1> QED
  BY <1>1, <1>3, <1>4 DEF Marked, Marking

LEMMA RowsKept ==
  ASSUME IWork, IRows, [Next]_vars
  PROVE  IRows'
  BY ChunksWholeKept, RowBeforeEventKept, MarkedKept, FirstChunkingKept, EventsFollowStoreKept
  DEF IRows

(* The step property StatusRegressesByRaceOnly. *)
LEMMA NoRegress ==
  ASSUME IWork, IRows, [Next]_vars, NEW d \in Docs, Rank[status'[d]] < Rank[status[d]]
  PROVE  BatchesOf[d] = 0 \/ <<"chunk", d>> \in raced
<1>1. status[d] \in DOMAIN Rank
  BY DEF IWork, TypeOK
<1>2. PICK w \in Workers : Doc(w) = d /\ MarkChunked(w) /\ status[d] = "indexed"
  BY <1>1, StatusChange, RankType
<1>3. Marking(d)
  BY <1>2, MarkChunkedEffect DEF Marking, MarkChunked
<1>4. ~Untouched(d)
  BY <1>2 DEF Untouched
<1> QED
  BY <1>3, <1>4, BatchesType DEF IRows, FirstChunking

------------------------------------------------------------------------------
(* Group 4: upserts. *)

LEMMA InitUpserts == Init => IUpserts
<1> SUFFICES ASSUME Init PROVE IUpserts
  OBVIOUS
<1>1. /\ \A w \in Workers : ~Busy(w)
      /\ \A r \in Requests : events[r] = {}
      /\ \A d \in Docs : status[d] = "none"
      /\ \A p \in Partitions : queue[p] = <<>>
      /\ dlq = {}
  BY DEF Init, Busy
<1>2. OnlySubmitted
  BY <1>1 DEF OnlySubmitted
<1>3. UpsertsStay /\ StatusMended /\ SkipMended
  BY <1>1 DEF UpsertsStay, StatusMended, SkipMended
<1>4. IndexedMended /\ SkippedMended
  BY <1>1 DEF IndexedMended, SkippedMended, Says
<1> QED
  BY <1>2, <1>3, <1>4 DEF IUpserts

(* A message comes into a topic, the DLQ or a hand from where it was already, *)
(* or by a submission.                                                       *)
LEMMA SubmittedGrows ==
  ASSUME IWork, [Next]_vars
  PROVE  submitted \subseteq submitted'
<1>1. ASSUME NEW w \in Workers, Take(w) \/ TakeOver(w) PROVE submitted' = submitted
  BY <1>1, TakeEffect, TakeOverEffect DEF Begins
<1>2. ASSUME NEW w \in Workers, Handler(w) \/ HandlerRaises(w) \/ Commit(w) \/ Crash(w)
      PROVE  submitted' = submitted
  BY <1>2, HandlerEffect, RaisesEffect, CommitEffect, CrashEffect DEF Outside
<1>3. ASSUME UNCHANGED vars PROVE submitted' = submitted
  BY <1>3 DEF vars
<1> QED
  BY <1>1, <1>2, <1>3, PublishEffect, SubmitEffect, ReplayEffect DEF Next, Advance, Quiet

LEMMA OnlySubmittedKept ==
  ASSUME IWork, OnlySubmitted, [Next]_vars
  PROVE  OnlySubmitted'
<1> DEFINE Queues == \A p \in Partitions : \A i \in DOMAIN queue'[p] : queue'[p][i] \in submitted'
           Dead   == \A e \in dlq' : e[2] \in submitted'
           Hands  == \A v \in Workers : Busy(v)' => job'[v].req \in submitted'
<1>1. ASSUME queue' = queue PROVE Queues
  BY <1>1, SubmittedGrows DEF OnlySubmitted
<1>2. ASSUME NEW p \in Partitions, NEW r \in Requests, Enqueues(r, p), r \in submitted'
      PROVE  Queues
  BY <1>2, SubmittedGrows, EnqueueFacts DEF OnlySubmitted, IWork
<1>3. ASSUME NEW w \in Workers, Commit(w) PROVE Queues
  <2>1. CASE queue' # queue
    <3>1. Dequeues(Part(w)) /\ queue[Part(w)] # <<>> /\ Part(w) \in Partitions
      BY <1>3, <2>1, CommitEffect, JobType DEF IWork, Stops
    <3> QED
      BY <3>1, SubmittedGrows, DequeueFacts DEF OnlySubmitted, IWork
  <2> QED
    BY <1>1, <2>1
<1>4. ASSUME dlq' \subseteq dlq PROVE Dead
  BY <1>4, SubmittedGrows DEF OnlySubmitted
<1>5. ASSUME job' = job PROVE Hands
  BY <1>5, SubmittedGrows DEF OnlySubmitted, Busy
<1>6. ASSUME NEW w \in Workers, Steps(w) PROVE Hands
  BY <1>6, SubmittedGrows, StepsKeep DEF OnlySubmitted, IWork
<1>7. ASSUME NEW w \in Workers, Stops(w) PROVE Hands
  BY <1>7, SubmittedGrows, SameJob DEF OnlySubmitted, Stops
<1>8. ASSUME NEW w \in Workers, NEW p \in Partitions, Begins(w, p) PROVE Hands
  <2>1. Head(queue[p]) \in submitted
    <3>1. 1 \in DOMAIN queue[p] /\ Head(queue[p]) = queue[p][1]
      BY <1>8, QueueType, TailFacts DEF Begins, IWork
    <3> QED
      BY <3>1 DEF OnlySubmitted
  <2> QED
    BY <1>8, <2>1, SubmittedGrows, SameJob DEF OnlySubmitted, Begins
<1> HIDE DEF Queues, Dead, Hands
<1> DEFINE Goal == Queues /\ Dead /\ Hands
<1>9. ASSUME NEW w \in Workers, Take(w) \/ TakeOver(w) PROVE Goal
  BY <1>1, <1>4, <1>8, <1>9, TakeEffect, TakeOverEffect DEF Begins, bus
<1>10. ASSUME NEW w \in Workers, Handler(w) \/ HandlerRaises(w) PROVE Goal
  BY <1>1, <1>4, <1>6, <1>10, HandlerEffect, RaisesEffect DEF Outside
<1>11. ASSUME NEW w \in Workers, Publish(w) PROVE Goal
  <2>1. /\ Busy(w) /\ Steps(w) /\ job[w].req \in Requests /\ job[w].req \in submitted'
    BY <1>11, PublishEffect, JobType, SubmittedGrows DEF IWork, OnlySubmitted
  <2>2. Queues
    BY <1>1, <1>2, <1>11, <2>1, PublishEffect
  <2>3. Dead
    <3>1. dlq' \subseteq dlq \union {<<w[1], job[w].req>>}
      BY <1>11, PublishEffect
    <3> QED
      BY <2>1, <3>1, SubmittedGrows DEF OnlySubmitted, Dead
  <2> QED
    BY <1>6, <2>1, <2>2, <2>3
<1>12. ASSUME NEW w \in Workers, Commit(w) PROVE Goal
  BY <1>3, <1>4, <1>7, <1>12, CommitEffect
<1>13. ASSUME NEW w \in Workers, Crash(w) PROVE Goal
  BY <1>1, <1>4, <1>7, <1>13, CrashEffect
<1>14. ASSUME NEW r \in Requests, Submit(r) PROVE Goal
  BY <1>2, <1>4, <1>5, <1>14, SubmitEffect
<1>15. ASSUME NEW e \in dlq, Replay(e) PROVE Goal
  <2>1. e[2] \in submitted'
    BY SubmittedGrows DEF OnlySubmitted
  <2> QED
    BY <1>2, <1>4, <1>5, <1>15, <2>1, ReplayEffect
<1>16. ASSUME UNCHANGED vars PROVE Goal
  BY <1>1, <1>4, <1>5, <1>16 DEF vars
<1> HIDE DEF Goal
<1>17. Goal
  BY <1>9, <1>10, <1>11, <1>12, <1>13, <1>14, <1>15, <1>16 DEF Next, Advance, Quiet
<1> QED
  BY <1>17 DEF Goal, Queues, Dead, Hands, OnlySubmitted

LEMMA ToCommit ==
  ASSUME IWork, [Next]_vars, NEW v \in Workers, Busy(v)', job'[v].at = "commit"
  PROVE  Stays(v) \/ Publish(v)
<1>1. ASSUME NEW w \in Workers, Take(w) \/ TakeOver(w) PROVE Stays(v)
  BY <1>1, TakeEffect, TakeOverEffect, SameJob DEF Begins, Entry, Stays
<1>2. ASSUME NEW w \in Workers, Handler(w) \/ HandlerRaises(w) PROVE Stays(v)
  BY <1>2, HandlerEffect, RaisesEffect, SameJob DEF Steps, Entry, Stays
<1>3. ASSUME NEW w \in Workers, Publish(w) PROVE Stays(v) \/ Publish(v)
  BY <1>3, PublishEffect, SameJob DEF Steps, Stays
<1>4. ASSUME NEW w \in Workers, Commit(w) \/ Crash(w) PROVE Stays(v)
  BY <1>4, CommitEffect, CrashEffect, SameJob DEF Stops, Stays
<1>5. ASSUME job' = job PROVE Stays(v)
  BY <1>5 DEF Stays, Busy
<1>6. ASSUME UNCHANGED vars PROVE job' = job
  BY <1>6 DEF vars
<1> QED
  BY <1>1, <1>2, <1>3, <1>4, <1>5, <1>6, SubmitEffect, ReplayEffect DEF Next, Advance, Quiet

(* A message stays at its place until the one in front is committed.         *)
LEMMA QueueChange ==
  ASSUME IWork, [Next]_vars, NEW p \in Partitions, NEW i \in DOMAIN queue[p]
  PROVE  \/ i \in DOMAIN queue'[p] /\ queue'[p][i] = queue[p][i]
         \/ \E w \in Workers : /\ job[w].at = "commit" /\ Part(w) = p
                               /\ Releases(w) /\ Dequeues(p) /\ queue[p] # <<>>
<1> DEFINE Same == i \in DOMAIN queue'[p] /\ queue'[p][i] = queue[p][i]
<1>1. ASSUME queue' = queue PROVE Same
  BY <1>1
<1>2. ASSUME NEW t \in Partitions, NEW r \in Requests, Enqueues(r, t) PROVE Same
  BY <1>2, EnqueueFacts DEF IWork
<1>3. ASSUME NEW w \in Workers, Take(w) \/ TakeOver(w) PROVE queue' = queue
  BY <1>3, TakeEffect, TakeOverEffect DEF Begins, bus
<1>4. ASSUME NEW w \in Workers, Handler(w) \/ HandlerRaises(w) \/ Crash(w) PROVE queue' = queue
  BY <1>4, HandlerEffect, RaisesEffect, CrashEffect DEF Outside
<1>5. ASSUME NEW w \in Workers, Publish(w) PROVE Same
  BY <1>1, <1>2, <1>5, PublishEffect, JobType DEF IWork
<1>6. ASSUME NEW w \in Workers, Commit(w), Part(w) # p PROVE Same
  <2>1. CASE queue' # queue
    <3>1. Dequeues(Part(w)) /\ queue[Part(w)] # <<>> /\ Part(w) \in Partitions
      BY <1>6, <2>1, CommitEffect, JobType DEF IWork, Stops
    <3> QED
      BY <1>6, <3>1, DequeueFacts DEF IWork
  <2> QED
    BY <1>1, <2>1
<1>7. ASSUME NEW w \in Workers, Commit(w), Part(w) = p
      PROVE  \/ Same
             \/ job[w].at = "commit" /\ Releases(w) /\ Dequeues(p) /\ queue[p] # <<>>
  BY <1>1, <1>7, CommitEffect
<1>8. ASSUME NEW r \in Requests, Submit(r) PROVE Same
  BY <1>2, <1>8, SubmitEffect
<1>9. ASSUME NEW e \in dlq, Replay(e) PROVE Same
  BY <1>2, <1>9, ReplayEffect
<1>10. ASSUME UNCHANGED vars PROVE queue' = queue
  BY <1>10 DEF vars
<1> HIDE DEF Same
<1>11. Same \/ \E w \in Workers : /\ job[w].at = "commit" /\ Part(w) = p
                                  /\ Releases(w) /\ Dequeues(p) /\ queue[p] # <<>>
  BY <1>1, <1>3, <1>4, <1>5, <1>6, <1>7, <1>8, <1>9, <1>10 DEF Next, Advance, Quiet
<1> QED
  BY <1>11 DEF Same

(* A dead letter stays until it is replayed. *)
LEMMA DlqChange ==
  ASSUME IWork, [Next]_vars, NEW e \in dlq
  PROVE  e \in dlq' \/ Replay(e)
<1>1. ASSUME NEW w \in Workers, Take(w) \/ TakeOver(w) PROVE dlq' = dlq
  BY <1>1, TakeEffect, TakeOverEffect DEF Begins, bus
<1>2. ASSUME NEW w \in Workers, Handler(w) \/ HandlerRaises(w) \/ Commit(w) \/ Crash(w)
      PROVE  dlq' = dlq
  BY <1>2, HandlerEffect, RaisesEffect, CommitEffect, CrashEffect DEF Outside
<1>3. ASSUME NEW w \in Workers, Publish(w) PROVE e \in dlq'
  BY <1>3, PublishEffect
<1>4. ASSUME NEW f \in dlq, Replay(f), f # e PROVE e \in dlq'
  BY <1>4, ReplayEffect
<1>5. ASSUME UNCHANGED vars PROVE dlq' = dlq
  BY <1>5 DEF vars
<1> QED
  BY <1>1, <1>2, <1>3, <1>4, <1>5, SubmitEffect DEF Next, Advance, Quiet

LEMMA AllAcceptedStays ==
  ASSUME IWork, [Next]_vars, NEW d \in Docs, NEW c \in Colls, AllAccepted(d, c)
  PROVE  \/ AllAccepted(d, c)'
         \/ \E w \in Workers : Wipe(w) /\ Doc(w) = d /\ Coll(w) = c
<1>1. \A b \in 1..BatchesOf[d] : <<d, c, b>> \in accepted
  BY DEF AllAccepted
<1>2. CASE \A b \in 1..BatchesOf[d] : <<d, c, b>> \in accepted'
  BY <1>2 DEF AllAccepted
<1>3. CASE \E b \in 1..BatchesOf[d] : <<d, c, b>> \notin accepted'
  BY <1>1, <1>3, AcceptedChange
<1> QED
  BY <1>2, <1>3

(* Only force wipes, and where nobody is disturbed only the worker that      *)
(* holds the partition.                                                     *)
LEMMA WipeNeedsForce ==
  ASSUME IWork, OnlySubmitted, NEW w \in Workers, Wipe(w)
  PROVE  /\ Busy(w) /\ w[1] = "embed" /\ Part(w) = <<"embed", Doc(w)>>
         /\ Forced(w) /\ job[w].req \in Requests
         /\ ~Disturbed(Doc(w), Coll(w)) => Part(w) \notin raced
<1>1. Busy(w) /\ Forced(w) /\ w[1] = "embed"
  BY WipeEffect DEF Wipe, At
<1>2. Part(w) = <<"embed", Doc(w)>>
  BY <1>1 DEF Part, Key, Doc
<1>3. job[w].req \in Requests /\ job[w].req \in submitted
  BY <1>1, JobType DEF IWork, OnlySubmitted
<1>4. Part(w) \in raced => Disturbed(Doc(w), Coll(w))
  BY <1>1, <1>2, <1>3 DEF Disturbed, Doc, Coll, Forced
<1> QED
  BY <1>1, <1>2, <1>3, <1>4

LEMMA DisturbedStays ==
  ASSUME IWork, [Next]_vars, NEW d, NEW c, Disturbed(d, c)
  PROVE  Disturbed(d, c)'
  BY BudgetGrows, SubmittedGrows DEF Disturbed

(* The batches that were written when a worker is done with the chunks are   *)
(* all batches: it does not come to embed before there are chunks.           *)
LEMMA EmbedHasChunks ==
  ASSUME IWork, IRows, NEW w \in Workers, Busy(w), w[1] = "embed"
  PROVE  chunks[Doc(w)] = BatchesOf[Doc(w)]
<1>1. PICK d \in Docs : d = Doc(w)
  BY JobType DEF IWork
<1>2. ~Untouched(d)
  BY <1>1 DEF Untouched
<1>3. BatchesOf[d] > 0 => chunks[d] # 0
  BY <1>2 DEF IRows, FirstChunking
<1>4. BatchesOf[d] \in Nat /\ (chunks[d] = 0 \/ chunks[d] = BatchesOf[d])
  BY BatchesType DEF IRows, ChunksWhole
<1> QED
  BY <1>1, <1>3, <1>4

LEMMA UpsertsStayKept ==
  ASSUME IWork, IRows, OnlySubmitted, UpsertsStay, [Next]_vars
  PROVE  UpsertsStay'
<1> SUFFICES ASSUME NEW v \in Workers, Busy(v)', v[1] = "embed",
                    ~Disturbed(Doc(v), Coll(v))'
             PROVE  /\ job'[v].at = "upsert" =>
                         \A b \in 1..job'[v].batch : <<Doc(v)', Coll(v)', b>> \in accepted'
                    /\ \/ job'[v].at = "mark"
                       \/ job'[v].at = "publish" /\ job'[v].result = "indexed"
                       => AllAccepted(Doc(v), Coll(v))'
  BY DEF UpsertsStay
<1>1. CASE Stays(v)
  <2>1. PICK d \in Docs, c \in Colls : d = Doc(v) /\ c = Coll(v)
    BY <1>1, JobType DEF Stays, IWork
  <2>2. d = Doc(v)' /\ c = Coll(v)'
    BY <1>1, <2>1, SameJob DEF Stays
  <2>3. ~Disturbed(d, c)
    BY <2>2, DisturbedStays DEF Disturbed
  <2>4. ~ \E w \in Workers : Wipe(w) /\ Doc(w) = d /\ Coll(w) = c
    <3> SUFFICES ASSUME NEW w \in Workers, Wipe(w), Doc(w) = d, Coll(w) = c PROVE FALSE
      OBVIOUS
    <3>1. Busy(w) /\ Part(w) = <<"embed", d>> /\ Part(w) \notin raced
      BY <2>3, WipeNeedsForce
    <3>2. Busy(v) /\ Part(v) = <<"embed", d>>
      BY <1>1, <2>1 DEF Stays, Part, Key, Doc
    <3>3. w = v
      BY <3>1, <3>2, SoleWorker
    <3>4. job'[v].at # job[v].at
      BY <3>3, WipeEffect DEF Wipe, At
    <3> QED
      BY <1>1, <3>4 DEF Stays
  <2>5. job[v].at = "upsert" => \A b \in 1..job[v].batch : <<d, c, b>> \in accepted'
    BY <1>1, <2>1, <2>3, <2>4, AcceptedChange DEF UpsertsStay, Stays
  <2>6. \/ job[v].at = "mark" \/ (job[v].at = "publish" /\ job[v].result = "indexed")
        => AllAccepted(d, c)'
    BY <1>1, <2>1, <2>3, <2>4, AllAcceptedStays DEF UpsertsStay, Stays
  <2> QED
    BY <1>1, <2>2, <2>5, <2>6 DEF Stays, AllAccepted
<1>2. CASE Upsert(v)
  <2>1. Busy(v) /\ Steps(v) /\ job[v].at = "upsert"
    BY <1>2, UpsertEffect DEF Upsert, At
  <2>2. PICK d \in Docs, c \in Colls : d = Doc(v) /\ c = Coll(v)
    BY <2>1, JobType DEF IWork
  <2>3. d = Doc(v)' /\ c = Coll(v)'
    BY <2>1, <2>2, StepsKeep DEF IWork
  <2>4. ~Disturbed(d, c)
    BY <2>3, DisturbedStays DEF Disturbed
  <2>5. \A b \in 1..job[v].batch : <<d, c, b>> \in accepted
    BY <2>1, <2>2, <2>4 DEF UpsertsStay
  <2>6. chunks[d] = BatchesOf[d] /\ BatchesOf[d] \in Nat /\ job[v].batch \in Nat
    BY <2>1, <2>2, EmbedHasChunks, BatchesType, JobType DEF IWork
  <2>7. CASE chunks[d] = 0
    <3>1. job'[v].at = "mark" /\ AllAccepted(d, c)'
      BY <1>2, <2>2, <2>6, <2>7, UpsertEffect DEF AllAccepted
    <3> QED
      BY <2>3, <3>1 DEF AllAccepted
  <2>8. CASE chunks[d] # 0
    <3>1. /\ accepted' = accepted \union {<<d, c, job[v].batch + 1>>}
          /\ job'[v].batch = job[v].batch + 1
          /\ job'[v].at = IF job[v].batch + 1 = chunks[d] THEN "mark" ELSE "upsert"
      BY <1>2, <2>2, <2>8, UpsertEffect
    <3>2. \A b \in 1..job'[v].batch : <<d, c, b>> \in accepted'
      BY <2>5, <2>6, <3>1
    <3>3. job'[v].at = "mark" => AllAccepted(d, c)'
      BY <2>6, <3>1, <3>2 DEF AllAccepted
    <3> QED
      BY <2>3, <3>1, <3>2, <3>3 DEF AllAccepted
  <2> QED
    BY <2>7, <2>8
<1>3. CASE job'[v].at = "upsert" /\ job'[v].batch = 0
  BY <1>3
<1>4. CASE MarkIndexed(v)
  <2>1. /\ Busy(v) /\ Steps(v) /\ job[v].at = "mark" /\ job'[v].at = "publish"
        /\ accepted' = accepted
    BY <1>4, MarkIndexedEffect DEF MarkIndexed, At
  <2>2. Doc(v)' = Doc(v) /\ Coll(v)' = Coll(v)
    BY <2>1, StepsKeep DEF IWork
  <2>3. ~Disturbed(Doc(v), Coll(v))
    BY <2>2, DisturbedStays DEF Disturbed
  <2>4. AllAccepted(Doc(v), Coll(v))
    BY <2>1, <2>3 DEF UpsertsStay
  <2> QED
    BY <2>1, <2>2, <2>4 DEF AllAccepted
<1> QED
  BY <1>1, <1>2, <1>3, <1>4, ToUpsert, ToIndexed

(* Who reports what. *)
LEMMA NewWord ==
  ASSUME IWork, [Next]_vars, NEW r \in Requests, NEW word \in {"indexed", "skipped"},
         Says(r, word)', ~Says(r, word)
  PROVE  \E w \in Workers : /\ Publish(w) /\ Busy(w) /\ job[w].req = r
                            /\ job[w].at = "publish" /\ job[w].result = word
                            /\ word = "indexed" => w[1] = "embed"
                            /\ accepted' = accepted
<1>1. PICK x \in events'[r] : x[2] = word
  BY DEF Says
<1>2. x \notin events[r]
  BY <1>1 DEF Says
<1>3. PICK w \in Workers : /\ Publish(w) /\ job[w].req = r
                           /\ x = <<w[1], Word(w[1], job[w].result)>>
  BY <1>2, EventsChange
<1>4. job[w].result = word
  BY <1>1, <1>3 DEF Word
<1>5. word = "indexed" => w[1] = "embed"
  <2>1. job[w].result \in ResultsOf[w[1]] /\ w[1] \in Stages
    BY <1>3, PublishEffect, WorkerType
  <2> QED
    BY <1>4, <2>1 DEF ResultsOf, Stages
<1> QED
  BY <1>3, <1>4, <1>5, PublishEffect

(* A document whose upserts were deleted has a forced message in topic or DLQ *)
(* that upserts again: the message of the worker that wiped is the head  *)
(* of its queue, and leaves it only with `indexed`, or for the DLQ.          *)
LEMMA PendingInDlq ==
  ASSUME IWork, [Next]_vars, NEW q \in Requests, ForceOf[q], <<"embed", q>> \in dlq
  PROVE  Pending(DocOf[q], CollOf[q])'
<1> DEFINE p == <<"embed", DocOf[q]>>
<1>1. CASE <<"embed", q>> \in dlq'
  BY <1>1 DEF Pending
<1>2. CASE Replay(<<"embed", q>>)
  <2>1. p \in Partitions /\ p = <<"embed", Key("embed", q)>>
    BY RequestType DEF Partitions, Key
  <2>2. Enqueues(q, p) /\ owner' = owner
    BY <1>2, <2>1, ReplayEffect
  <2>3. Len(queue[p]) \in Nat /\ (Len(queue[p]) = 0 => queue[p] = <<>>)
    BY <2>1, QueueType DEF IWork
  <2> DEFINE n == Len(queue[p]) + 1
  <2>4. n \in DOMAIN queue'[p] /\ queue'[p][n] = q
    BY <2>1, <2>2, EnqueueFacts DEF IWork
  <2>5. n = 1 => ~Settled(p)'
    <3>1. queue[p] = <<>> => owner[p] = NoWorker
      BY <2>1 DEF IWork, OwnerHasHead
    <3> QED
      BY <2>2, <2>3, <3>1 DEF Settled
  <2> QED
    BY <2>4, <2>5 DEF Pending
<1> QED
  BY <1>1, <1>2, DlqChange

LEMMA PendingAtHead ==
  ASSUME IWork, IWork', UpsertsStay, [Next]_vars,
         NEW q \in Requests, NEW p \in Partitions, p = <<"embed", DocOf[q]>>,
         p \notin raced, ForceOf[q],
         queue[p] # <<>>, queue'[p] # <<>>, Head(queue[p]) = q, Head(queue'[p]) = q,
         ~Settled(p), Settled(p)'
  PROVE  AllAccepted(DocOf[q], CollOf[q])' \/ <<"embed", q>> \in dlq'
<1>1. PICK v \in Workers : v = owner'[p]
  BY DEF IWork, OwnerHasHead, Settled
<1>2. Busy(v)' /\ Part(v)' = p /\ job'[v].req = q
  BY <1>1 DEF IWork, OwnerHasHead, Settled
<1>3. ASSUME Busy(v), job'[v].req = job[v].req
      PROVE  owner[p] = v /\ Part(v) = p /\ v[1] = "embed" /\ job[v].req = q
  <2>1. Part(v) = p /\ v[1] = "embed" /\ job[v].req = q
    BY <1>2, <1>3 DEF Part
  <2> QED
    BY <1>3, <2>1 DEF IWork, ZombiesRaced, Zombie
<1>4. v # NoWorker
  BY WorkerType
<1>5. ~Stays(v)
  <2> SUFFICES ASSUME Stays(v) PROVE FALSE
    OBVIOUS
  <2>1. owner[p] = v /\ job'[v] = job[v]
    BY <1>3 DEF Stays
  <2> QED
    BY <1>1, <1>4, <2>1 DEF Settled
<1>6. CASE job'[v].at = "commit"
  <2>1. Publish(v)
    BY <1>2, <1>5, <1>6, ToCommit
  <2>2. Busy(v) /\ Steps(v) /\ job[v].at = "publish" /\ job[v].result \in ResultsOf[v[1]]
    BY <2>1, PublishEffect
  <2>3. owner[p] = v /\ v[1] = "embed" /\ job[v].req = q
    BY <1>3, <2>2 DEF Steps
  <2>4. job[v].result # "indexed"
    BY <1>4, <2>2, <2>3 DEF Settled
  <2>5. job[v].result # "skipped"
    BY <2>2, <2>3 DEF IWork, PointsFit, Fits, Forced
  <2>6. job[v].result = "failed"
    BY <2>2, <2>3, <2>4, <2>5 DEF ResultsOf
  <2> QED
    BY <2>1, <2>3, <2>6, PublishEffect
<1>7. CASE job'[v].at = "publish" /\ job'[v].result = "indexed"
  <2>1. MarkIndexed(v)
    BY <1>2, <1>5, <1>7, ToIndexed
  <2>2. Busy(v) /\ Steps(v) /\ job[v].at = "mark" /\ accepted' = accepted
    BY <2>1, MarkIndexedEffect DEF MarkIndexed, At
  <2>3. v[1] = "embed" /\ job[v].req = q
    BY <1>3, <2>2 DEF Steps
  <2>4. AllAccepted(DocOf[q], CollOf[q])
    BY <2>2, <2>3 DEF UpsertsStay, Disturbed, Doc, Coll
  <2> QED
    BY <2>2, <2>4 DEF AllAccepted
<1> QED
  BY <1>1, <1>6, <1>7 DEF Settled

LEMMA PendingInQueue ==
  ASSUME IWork, IWork', UpsertsStay, [Next]_vars,
         NEW q \in Requests, NEW p \in Partitions, p = <<"embed", DocOf[q]>>,
         p \notin raced, ForceOf[q],
         NEW i \in DOMAIN queue[p], queue[p][i] = q, i = 1 => ~Settled(p)
  PROVE  AllAccepted(DocOf[q], CollOf[q])' \/ Pending(DocOf[q], CollOf[q])'
<1>1. CASE i \in DOMAIN queue'[p] /\ queue'[p][i] = queue[p][i]
  <2>1. CASE i = 1 /\ Settled(p)'
    <3>1. /\ queue[p] \in Seq(Requests) /\ queue'[p] \in Seq(Requests)
      BY DEF IWork, TypeOK
    <3>2. /\ queue[p] # <<>> /\ queue'[p] # <<>>
          /\ Head(queue[p]) = q /\ Head(queue'[p]) = q
      BY <1>1, <2>1, <3>1
    <3>3. AllAccepted(DocOf[q], CollOf[q])' \/ <<"embed", q>> \in dlq'
      BY <2>1, <3>2, PendingAtHead
    <3> QED
      BY <3>3 DEF Pending
  <2>2. CASE ~(i = 1 /\ Settled(p)')
    BY <1>1, <2>2 DEF Pending
  <2> QED
    BY <2>1, <2>2
<1>2. ASSUME NEW w \in Workers, job[w].at = "commit", Part(w) = p, Releases(w), Dequeues(p),
             queue[p] # <<>>
      PROVE  Pending(DocOf[q], CollOf[q])'
  <2>1. Settled(p)
    BY <1>2, WorkerType DEF Settled, Releases
  <2>2. i # 1 /\ i - 1 \in DOMAIN queue'[p] /\ queue'[p][i - 1] = q
    BY <1>2, <2>1, DequeueFacts DEF IWork
  <2>3. ~Settled(p)'
    BY <1>2 DEF Releases, Settled
  <2> QED
    BY <2>2, <2>3 DEF Pending
<1> QED
  BY <1>1, <1>2, QueueChange

LEMMA MendedStays ==
  ASSUME IWork, IWork', OnlySubmitted, UpsertsStay, [Next]_vars,
         NEW d \in Docs, NEW c \in Colls, Mended(d, c)
  PROVE  Mended(d, c)'
<1> DEFINE p == <<"embed", d>>
<1>1. CASE Disturbed(d, c)
  BY <1>1, DisturbedStays DEF Mended
<1>2. CASE Pending(d, c) /\ ~Disturbed(d, c)
  <2>1. PICK q \in Requests :
          /\ DocOf[q] = d /\ CollOf[q] = c /\ ForceOf[q]
          /\ \/ <<"embed", q>> \in dlq
             \/ \E i \in DOMAIN queue[p] : queue[p][i] = q /\ (i = 1 => ~Settled(p))
    BY <1>2 DEF Pending
  <2>2. CASE <<"embed", q>> \in dlq
    <3>1. Pending(d, c)'
      BY <2>1, <2>2, PendingInDlq
    <3> QED
      BY <3>1 DEF Mended
  <2>3. CASE \E i \in DOMAIN queue[p] : queue[p][i] = q /\ (i = 1 => ~Settled(p))
    <3>1. p \in Partitions /\ q \in submitted
      BY <2>3 DEF Partitions, OnlySubmitted
    <3>2. p \notin raced
      BY <1>2, <2>1, <3>1 DEF Disturbed
    <3>3. AllAccepted(d, c)' \/ Pending(d, c)'
      BY <2>1, <2>3, <3>1, <3>2, PendingInQueue
    <3> QED
      BY <3>3 DEF Mended
  <2> QED
    BY <2>1, <2>2, <2>3
<1>3. CASE AllAccepted(d, c) /\ ~Disturbed(d, c)
  <2>1. CASE AllAccepted(d, c)'
    BY <2>1 DEF Mended
  <2>2. ASSUME NEW w \in Workers, Wipe(w), Doc(w) = d, Coll(w) = c
        PROVE  Pending(d, c)'
    <3>1. /\ Busy(w) /\ Steps(w) /\ job'[w].at = "upsert" /\ Forced(w) /\ Part(w) = p
          /\ p \notin raced /\ job[w].req \in Requests /\ UNCHANGED <<queue, owner>>
      BY <1>3, <2>2, WipeEffect, WipeNeedsForce DEF IWork, Wipe, bus
    <3>2. p \in Partitions /\ owner[p] = w
      BY <3>1 DEF Partitions, IWork, ZombiesRaced, Zombie
    <3>3. PICK q \in Requests : q = job[w].req
      BY <3>1
    <3>4. 1 \in DOMAIN queue[p] /\ queue[p][1] = q
      <4>1. queue[p] # <<>> /\ Head(queue[p]) = q /\ queue[p] \in Seq(Requests)
        BY <3>2, <3>3, WorkerType DEF IWork, OwnerHasHead, TypeOK
      <4> QED
        BY <4>1
    <3>5. ~Settled(p)'
      BY <3>1, <3>2 DEF Settled
    <3>6. DocOf[q] = d /\ CollOf[q] = c /\ ForceOf[q]
      BY <2>2, <3>1, <3>3 DEF Doc, Coll, Forced
    <3> QED
      BY <3>1, <3>4, <3>5, <3>6 DEF Pending
  <2> QED
    BY <1>3, <2>1, <2>2, AllAcceptedStays DEF Mended
<1> QED
  BY <1>1, <1>2, <1>3 DEF Mended

(* What a worker of embed says at the end is true before it says it.         *)
LEMMA IndexingMends ==
  ASSUME IWork, UpsertsStay, NEW w \in Workers, Busy(w), w[1] = "embed",
         job[w].at = "mark" \/ (job[w].at = "publish" /\ job[w].result = "indexed")
  PROVE  /\ job[w].req \in Requests /\ Doc(w) \in Docs /\ Coll(w) \in Colls
         /\ Mended(Doc(w), Coll(w))
  BY JobType DEF IWork, UpsertsStay, Mended

LEMMA IndexedMendedKept ==
  ASSUME IWork, IWork', OnlySubmitted, UpsertsStay, IndexedMended, [Next]_vars
  PROVE  IndexedMended'
<1> SUFFICES ASSUME NEW r \in Requests, Says(r, "indexed")'
             PROVE  Mended(DocOf[r], CollOf[r])'
  BY DEF IndexedMended
<1>1. Mended(DocOf[r], CollOf[r])
  <2>1. CASE Says(r, "indexed")
    BY <2>1 DEF IndexedMended
  <2>2. CASE ~Says(r, "indexed")
    <3>1. PICK w \in Workers : /\ Busy(w) /\ job[w].req = r /\ w[1] = "embed"
                               /\ job[w].at = "publish" /\ job[w].result = "indexed"
      BY <2>2, NewWord
    <3> QED
      BY <3>1, IndexingMends DEF Doc, Coll
  <2> QED
    BY <2>1, <2>2
<1> QED
  BY <1>1, RequestType, MendedStays

LEMMA StatusMendedKept ==
  ASSUME IWork, IWork', OnlySubmitted, UpsertsStay, StatusMended, [Next]_vars
  PROVE  StatusMended'
<1> SUFFICES ASSUME NEW d \in Docs, status'[d] = "indexed"
             PROVE  \E q \in Requests : DocOf[q] = d /\ Mended(d, CollOf[q])'
  BY DEF StatusMended
<1>1. PICK q \in Requests : DocOf[q] = d /\ Mended(d, CollOf[q])
  <2>1. CASE status[d] = "indexed"
    BY <2>1 DEF StatusMended
  <2>2. CASE status[d] # "indexed"
    <3>1. PICK w \in Workers : Doc(w) = d /\ MarkIndexed(w)
      BY <2>2, StatusChange
    <3>2. Busy(w) /\ job[w].at = "mark" /\ w[1] = "embed"
      BY <3>1, MarkIndexedEffect DEF MarkIndexed, At
    <3> QED
      BY <3>1, <3>2, IndexingMends DEF Doc, Coll
  <2> QED
    BY <2>1, <2>2
<1> QED
  BY <1>1, RequestType, MendedStays

LEMMA SkipMendedKept ==
  ASSUME IWork, IWork', OnlySubmitted, UpsertsStay, StatusMended, SkipMended, [Next]_vars
  PROVE  SkipMended'
<1> SUFFICES ASSUME NEW v \in Workers, Busy(v)', job'[v].at = "publish",
                    job'[v].result = "skipped", OneCollection(Doc(v))'
             PROVE  Mended(Doc(v), Coll(v))'
  BY DEF SkipMended
<1>1. Busy(v) /\ job'[v].req = job[v].req
  <2>1. CASE Stays(v)
    BY <2>1 DEF Stays
  <2>2. CASE Check(v)
    BY <2>2, CheckEffect DEF Steps
  <2> QED
    BY <2>1, <2>2, ToSkipped
<1>2. PICK d \in Docs, c \in Colls : d = Doc(v) /\ c = Coll(v)
  BY <1>1, JobType DEF IWork
<1>3. Doc(v)' = d /\ Coll(v)' = c /\ OneCollection(d)
  BY <1>1, <1>2 DEF Doc, Coll, OneCollection
<1>4. Mended(d, c)
  <2>1. CASE Stays(v)
    BY <1>2, <1>3, <2>1 DEF Stays, SkipMended
  <2>2. CASE Check(v) /\ status[Doc(v)] = "indexed"
    <3>1. PICK q \in Requests : DocOf[q] = d /\ Mended(d, CollOf[q])
      BY <1>2, <2>2 DEF StatusMended
    <3>2. CollOf[q] = c
      <4>1. job[v].req \in Requests
        BY <1>1, JobType DEF IWork
      <4> QED
        BY <1>2, <1>3, <3>1, <4>1 DEF OneCollection, Doc, Coll
    <3> QED
      BY <3>1, <3>2
  <2> QED
    BY <2>1, <2>2, ToSkipped
<1>5. Mended(d, c)'
  BY <1>4, MendedStays
<1> QED
  BY <1>3, <1>5 DEF Mended, AllAccepted, Pending, Disturbed, Settled

LEMMA SkippedMendedKept ==
  ASSUME IWork, IWork', OnlySubmitted, UpsertsStay, SkipMended, SkippedMended, [Next]_vars
  PROVE  SkippedMended'
<1> SUFFICES ASSUME NEW r \in Requests, Says(r, "skipped")', OneCollection(DocOf[r])
             PROVE  Mended(DocOf[r], CollOf[r])'
  BY DEF SkippedMended, OneCollection
<1>1. Mended(DocOf[r], CollOf[r])
  <2>1. CASE Says(r, "skipped")
    BY <2>1 DEF SkippedMended
  <2>2. CASE ~Says(r, "skipped")
    <3>1. PICK w \in Workers : /\ Busy(w) /\ job[w].req = r
                               /\ job[w].at = "publish" /\ job[w].result = "skipped"
      BY <2>2, NewWord
    <3> QED
      BY <3>1 DEF SkipMended, Doc, Coll
  <2> QED
    BY <2>1, <2>2
<1> QED
  BY <1>1, RequestType, MendedStays

LEMMA UpsertsKept ==
  ASSUME IWork, IWork', IRows, IUpserts, [Next]_vars
  PROVE  IUpserts'
  BY OnlySubmittedKept, UpsertsStayKept, IndexedMendedKept, StatusMendedKept, SkipMendedKept,
     SkippedMendedKept DEF IUpserts

(* Who mends a document is a forced request that is at it.                   *)
LEMMA MendedMeans ==
  ASSUME OnlySubmitted, NEW d \in Docs, NEW c \in Colls, Mended(d, c)
  PROVE  AllAccepted(d, c) \/ Reindexing(d, c)
<1>1. CASE AllAccepted(d, c)
  BY <1>1
<1>2. CASE Disturbed(d, c)
  BY <1>2 DEF Disturbed, Reindexing
<1>3. CASE Pending(d, c)
  <2>1. PICK q \in Requests :
          /\ DocOf[q] = d /\ CollOf[q] = c /\ ForceOf[q]
          /\ <<"embed", q>> \in dlq \/ InQueue(q, <<"embed", d>>)
    BY <1>3 DEF Pending, InQueue
  <2>2. q \in submitted
    BY <2>1 DEF OnlySubmitted, InQueue, Partitions
  <2> QED
    BY <2>1, <2>2 DEF Reindexing
<1> QED
  BY <1>1, <1>2, <1>3 DEF Mended

------------------------------------------------------------------------------
(* The theorems. *)

(* The four groups together are an inductive invariant of the pipeline: of   *)
(* the worker around the handlers, the requests, the rows and the upserts.   *)
THEOREM Inductive == Spec => []IInv
<1>1. Init => IInv
  BY InitWork, InitRequests, InitRows, InitUpserts DEF IInv
<1>2. IInv /\ [Next]_vars => IInv'
  <2> SUFFICES ASSUME IInv, [Next]_vars PROVE IInv'
    OBVIOUS
  <2>1. IWork'
    BY WorkKept DEF IInv
  <2> QED
    BY <2>1, RequestsKept, RowsKept, UpsertsKept DEF IInv
<1> QED
  BY <1>1, <1>2, PTL DEF Spec

(* The state of topics, store and workers keeps its shape (TypeOK). *)
THEOREM TypeCorrect == Spec => []TypeOK
<1>1. IInv => TypeOK
  BY DEF IInv, IWork
<1> QED
  BY <1>1, Inductive, PTL

(* No request disappears, whatever crashes, is taken over, raises or is      *)
(* replayed: process_one publishes the outcome before it commits.            *)
THEOREM NoRequestIsLost == Spec => []RequestsConserved
<1>1. IInv => RequestsConserved
  BY DEF IInv, IRequests
<1> QED
  BY <1>1, Inductive, PTL

(* Whoever reads a status event finds the rows it speaks of: the handlers    *)
(* return their emits after the store call.                                  *)
THEOREM EventsComeAfterRows == Spec => []EventsFollowStore
<1>1. IInv => EventsFollowStore
  BY DEF IInv, IRows
<1> QED
  BY <1>1, Inductive, PTL

(* `indexed` means that Qdrant has accepted all batches, and no deletion     *)
(* after them, unless a forced request is at the document: nothing but force *)
(* deletes, and a forced request stays in topic or DLQ until it has upserted *)
(* what it deleted.                                                          *)
THEOREM IndexedMeansAccepted == Spec => []IndexedIsAccepted
<1>1. IInv => IndexedIsAccepted
  BY RequestType, MendedMeans DEF IInv, IUpserts, IndexedMended, IndexedIsAccepted
<1> QED
  BY <1>1, Inductive, PTL

(* `skipped` means the same, for documents of one collection.                *)
THEOREM SkippedMeansAccepted == Spec => []SkippedWasAccepted
<1>1. IInv => SkippedWasAccepted
  BY RequestType, MendedMeans DEF IInv, IUpserts, SkippedMended, SkippedWasAccepted
<1> QED
  BY <1>1, Inductive, PTL

(* content.status moves back only after a race for the chunk message, or for *)
(* a text without chunks: set_status(CHUNKED) does not look at the status.   *)
THEOREM RegressNeedsRace == Spec => StatusRegressesByRaceOnly
<1>1. IInv /\ [Next]_vars =>
        [\A d \in Docs : Rank[status'[d]] < Rank[status[d]] =>
           BatchesOf[d] = 0 \/ <<"chunk", d>> \in raced]_vars
  BY NoRegress DEF IInv
<1> QED
  BY <1>1, Inductive, PTL DEF Spec, StatusRegressesByRaceOnly
=============================================================================
