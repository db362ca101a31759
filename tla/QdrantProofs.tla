---------------------------- MODULE QdrantProofs ----------------------------
(* Theorems about the Qdrant side of the system: VectorStore, for any number *)
(* of workers, documents, batches and faults, and Search, for any points,    *)
(* scores and limits.                                                       *)
EXTENDS VectorStore, Search, FiniteSetTheorems, FunctionTheorems, SequenceTheorems, TLAPS

USE BatchesAssumption

Jobs     == [doc : Docs, kind : Kinds]
Creating == {w \in Workers : pc[w] = "create"}

(* A worker that is not idle has a message, and the one that holds its       *)
(* partition has it from the head of the queue; batches are counted from 1.  *)
InHand ==
  \A w \in Workers : pc[w] # "idle" =>
    /\ job[w] \in Jobs
    /\ Owns(w) => queue[job[w].doc] # <<>>
    /\ pc[w] \notin {"mark", "commit"} => batch[w] \in 1..Batches

(* Once the collection exists nobody else is sent to create it: those who    *)
(* are on their way can fail once each.                                      *)
RacersCount ==
  IF exists THEN failed + Cardinality(Creating) <= (Cardinality(Workers) - 1) + faults
            ELSE failed <= faults

(* The inductive invariant.  RaceFailsOncePerWorker is not inductive: how    *)
(* many creations may still fail depends on who has seen no collection.      *)
IInv == TypeOK /\ InHand /\ RacersCount /\ IndexMissingByFaultOnly

LEMMA CreatingFinite ==
  /\ IsFiniteSet(Creating) /\ Cardinality(Creating) \in Nat
  /\ Cardinality(Workers) \in Nat \ {0} /\ Cardinality(Creating) <= Cardinality(Workers)
<1>1. Creating \subseteq Workers
  BY DEF Creating
<1>2. IsFiniteSet(Creating) /\ Cardinality(Creating) <= Cardinality(Workers)
  BY <1>1, FS_Subset, WorkersAssumption
<1>3. Cardinality(Creating) \in Nat /\ Cardinality(Workers) \in Nat
  BY <1>2, FS_CardinalityType, WorkersAssumption
<1>4. Cardinality(Workers) # 0
  BY <1>3, FS_EmptySet, WorkersAssumption
<1> QED BY <1>2, <1>3, <1>4

LEMMA JobFields ==
  ASSUME NEW d \in Docs, NEW f \in Kinds PROVE [doc |-> d, kind |-> f] \in Jobs
BY DEF Jobs

LEMMA HeadTail ==
  ASSUME NEW S, NEW s \in Seq(S), s # <<>> PROVE Head(s) \in S /\ Tail(s) \in Seq(S)
OBVIOUS

LEMMA InitInductive == Init => IInv
<1> SUFFICES ASSUME Init PROVE IInv
  OBVIOUS
<1>1. TypeOK
  <2>1. exists \in BOOLEAN /\ hasIndex \in BOOLEAN
    BY Zenon DEF Init
  <2>2. queue \in [Docs -> Seq(Kinds)]
    BY RequestsAssumption DEF Init, Kinds
  <2>3. wal \in Seq(Ops) /\ points \subseteq [doc : Docs, batch : 1..Batches]
    BY DEF Init
  <2>4. job \in [Workers -> [doc : Docs, kind : Kinds] \union {NoJob}]
    BY DEF Init
  <2> QED BY <2>1, <2>2, <2>3, <2>4 DEF Init, TypeOK
<1>2. InHand
  BY DEF Init, InHand
<1>3. RacersCount
  BY DEF Init, RacersCount
<1>4. IndexMissingByFaultOnly
  BY DEF Init, IndexMissingByFaultOnly
<1> QED BY <1>1, <1>2, <1>3, <1>4 DEF IInv

(* What a step of w leaves of the invariant to the other workers, as long as *)
(* the queues stay or w takes the head of its own.                           *)
LEMMA OthersInHand ==
  ASSUME IInv, NEW w \in Workers,
         \A v \in Workers : v # w => pc'[v] = pc[v] /\ job'[v] = job[v] /\ batch'[v] = batch[v],
         \A v \in Workers, d \in Docs : v # w /\ owner'[d] = v =>
           owner[d] = v /\ queue'[d] = queue[d]
  PROVE  \A v \in Workers : v # w /\ pc'[v] # "idle" =>
           /\ job'[v] \in Jobs
           /\ owner'[job'[v].doc] = v => queue'[job'[v].doc] # <<>>
           /\ pc'[v] \notin {"mark", "commit"} => batch'[v] \in 1..Batches
BY DEF IInv, InHand, Owns, Jobs

(* The sums RacersCount and its cases compare. *)
Bound(f, c, n, k) == f + c <= n + k

LEMMA SumBefore ==
  ASSUME NEW f \in Nat, NEW f1 \in Nat, NEW k \in Nat, NEW k1 \in Nat,
         f <= k, Bound(f1, k, f, k1)
  PROVE  f1 <= k1
BY DEF Bound

LEMMA SumAfter ==
  ASSUME NEW f \in Nat, NEW f1 \in Nat, NEW k \in Nat, NEW k1 \in Nat,
         NEW c \in Nat, NEW c1 \in Nat, NEW n \in Nat,
         Bound(f, c, n, k), c1 <= c, Bound(f1, k, f, k1)
  PROVE  Bound(f1, c1, n, k1)
BY DEF Bound

LEMMA FaultsGrow ==
  ASSUME NEW f \in Nat, NEW k \in Nat, NEW k1 \in k..MaxFaults
  PROVE  k1 \in Nat /\ k <= k1 /\ Bound(f, k, f, k1)
BY DEF Bound

LEMMA SumRace ==
  ASSUME NEW f \in Nat, NEW k \in Nat, NEW c \in Nat, NEW c1 \in Nat, NEW n \in Nat,
         Bound(f, c, n, k), c1 = c - 1
  PROVE  Bound(f + 1, c1, n, k)
BY DEF Bound

(* How many create once w has taken its step. *)
LEMMA CreatingLeft ==
  ASSUME TypeOK, NEW w \in Workers, \A v \in Workers : v # w => pc'[v] = pc[v],
         pc'[w] # "create"
  PROVE  /\ Cardinality(Creating') \in Nat
         /\ Cardinality(Creating') = IF pc[w] = "create" THEN Cardinality(Creating) - 1
                                                          ELSE Cardinality(Creating)
<1>1. Creating' = Creating \ {w}
  BY DEF Creating
<1>0. Cardinality(Creating') \in Nat
  BY <1>1, CreatingFinite, FS_RemoveElement, FS_CardinalityType, FS_Subset
<1>2. CASE pc[w] = "create"
  <2>1. w \in Creating
    BY <1>2 DEF Creating
  <2> QED BY <1>0, <1>1, <1>2, <2>1, CreatingFinite, FS_RemoveElement
<1>3. CASE pc[w] # "create"
  <2>1. Creating' = Creating
    BY <1>1, <1>3 DEF Creating
  <2> QED BY <1>0, <1>3, <2>1
<1> QED BY <1>2, <1>3

(* A step of w that does not send it to create, and fails a message only     *)
(* with a fault, leaves the count; so it does when it fails to create.       *)
LEMMA RacersStay ==
  ASSUME IInv, NEW w \in Workers, \A v \in Workers : v # w => pc'[v] = pc[v],
         pc'[w] # "create", exists' = exists, failed' \in Nat, faults' \in Nat,
         \/ Bound(failed', faults, failed, faults')
         \/ exists /\ pc[w] = "create" /\ failed' = failed + 1 /\ faults' = faults
  PROVE  RacersCount'
<1> DEFINE c == Cardinality(Creating)  c1 == Cardinality(Creating')  n == Cardinality(Workers) - 1
<1>1. failed \in Nat /\ faults \in Nat
  BY DEF IInv, TypeOK
<1>2. c1 \in Nat /\ c1 = IF pc[w] = "create" THEN c - 1 ELSE c
  BY CreatingLeft DEF IInv
<1>3. c \in Nat /\ n \in Nat
  BY CreatingFinite
<1>4. c1 \in Nat /\ c1 <= c
  BY <1>2, <1>3
<1>5. RacersCount <=> IF exists THEN Bound(failed, c, n, faults) ELSE failed <= faults
  BY Zenon DEF RacersCount, Bound
<1>6. RacersCount' <=> IF exists' THEN Bound(failed', c1, n, faults') ELSE failed' <= faults'
  BY Zenon DEF RacersCount, Bound
<1> HIDE DEF c, c1, n
<1>7. CASE exists /\ Bound(failed', faults, failed, faults')
  <2>1. Bound(failed, c, n, faults)
    BY <1>5, <1>7, Zenon DEF IInv
  <2>2. Bound(failed', c1, n, faults')
    BY <1>1, <1>3, <1>4, <1>7, <2>1, SumAfter, Zenon
  <2> QED BY <1>6, <1>7, <2>2, Zenon
<1>8. CASE exists /\ pc[w] = "create" /\ failed' = failed + 1 /\ faults' = faults
  <2>1. Bound(failed, c, n, faults)
    BY <1>5, <1>8, Zenon DEF IInv
  <2>2. c1 = c - 1
    BY <1>2, <1>8
  <2>3. Bound(failed + 1, c1, n, faults)
    BY <1>1, <1>2, <1>3, <2>1, <2>2, SumRace, Zenon
  <2> QED BY <1>6, <1>8, <2>3, Zenon
<1>9. CASE ~exists /\ Bound(failed', faults, failed, faults')
  <2>1. failed <= faults
    BY <1>5, <1>9, Zenon DEF IInv
  <2>2. failed' <= faults'
    BY <1>1, <1>9, <2>1, SumBefore, Zenon
  <2> QED BY <1>6, <1>9, <2>2, Zenon
<1> QED BY <1>7, <1>8, <1>9, Zenon

(* A step of w that touches neither the collection nor its index. *)
LEMMA IndexStays ==
  ASSUME IInv, NEW w \in Workers, \A v \in Workers : v # w => pc'[v] = pc[v],
         exists' = exists, hasIndex' = hasIndex, faults' \in Nat, faults <= faults',
         pc[w] # "index" \/ faults' > 0
  PROVE  IndexMissingByFaultOnly'
<1>1. SUFFICES ASSUME exists', ~hasIndex' PROVE faults' > 0 \/ \E v \in Workers : pc'[v] = "index"
  BY Zenon DEF IndexMissingByFaultOnly
<1>2. exists /\ ~hasIndex
  BY <1>1, Zenon
<1>3. faults > 0 \/ \E v \in Workers : pc[v] = "index"
  BY <1>2, Zenon DEF IInv, IndexMissingByFaultOnly
<1>4. CASE faults > 0
  BY <1>4 DEF IInv, TypeOK
<1>5. CASE \E v \in Workers : pc[v] = "index"
  <2>1. PICK v \in Workers : pc[v] = "index"
    BY <1>5
  <2>2. CASE v = w
    BY <2>1, <2>2
  <2>3. CASE v # w
    BY <2>1, <2>3
  <2> QED BY <2>2, <2>3
<1> QED BY <1>3, <1>4, <1>5

(* A call of the handler of w: the message in hand stays. *)
Handlers == {"exists", "create", "index", "delete", "wait", "upsert", "mark"}

LEMMA CallKeeps ==
  ASSUME IInv, NEW w \in Workers, NEW to \in Handlers \union {"commit"},
         pc[w] \in Handlers, Goes(w, to), UNCHANGED <<queue, owner, job>>,
         \/ batch' = batch /\ (to \notin {"mark", "commit"} => pc[w] # "mark")
         \/ /\ batch' = [batch EXCEPT ![w] = @ + 1]
            /\ pc[w] = "upsert" /\ to = IF batch[w] = Batches THEN "mark" ELSE "upsert",
         exists' \in BOOLEAN, hasIndex' \in BOOLEAN, wal' \in Seq(Ops),
         points' \subseteq [doc : Docs, batch : 1..Batches],
         status' \in [Docs -> {"chunked", "indexed"}],
         failed' \in Nat, torn' \subseteq Docs, faults' \in 0..MaxFaults
  PROVE  TypeOK' /\ InHand' /\ (\A v \in Workers : v # w => pc'[v] = pc[v]) /\ pc'[w] = to
<1> USE DEF IInv
<1>1. /\ pc' \in [Workers -> {"idle", "exists", "create", "index", "delete", "wait",
                              "upsert", "mark", "commit"}]
      /\ pc'[w] = to /\ \A v \in Workers : v # w => pc'[v] = pc[v]
  BY DEF TypeOK, Goes, Handlers
<1>2. pc[w] \notin {"mark", "commit"} => batch[w] \in 1..Batches
  BY DEF InHand, Handlers
<1>3. /\ batch' \in [Workers -> 1..Batches + 1]
      /\ \A v \in Workers : v # w => batch'[v] = batch[v]
      /\ to \notin {"mark", "commit"} => batch'[w] \in 1..Batches
  <2>1. batch \in [Workers -> 1..Batches + 1]
    BY DEF TypeOK
  <2>2. CASE batch' = batch /\ (to \notin {"mark", "commit"} => pc[w] # "mark")
    BY <1>2, <2>1, <2>2 DEF Handlers
  <2>3. CASE /\ batch' = [batch EXCEPT ![w] = @ + 1]
             /\ pc[w] = "upsert" /\ to = IF batch[w] = Batches THEN "mark" ELSE "upsert"
    <3>1. batch[w] \in 1..Batches
      BY <1>2, <2>3
    <3>2. batch[w] + 1 \in 1..Batches + 1 /\ (batch[w] # Batches => batch[w] + 1 \in 1..Batches)
      BY <3>1
    <3> QED BY <2>1, <2>3, <3>2
  <2> QED BY <2>2, <2>3, Zenon
<1>4. /\ queue' \in [Docs -> Seq(Kinds)] /\ owner' \in [Docs -> Workers \union {NoWorker}]
      /\ job' \in [Workers -> [doc : Docs, kind : Kinds] \union {NoJob}]
  BY DEF TypeOK
<1>5. TypeOK'
  BY <1>1, <1>3, <1>4 DEF TypeOK
<1>6. InHand'
  <2>1. SUFFICES ASSUME NEW v \in Workers, pc'[v] # "idle"
                 PROVE  /\ job[v] \in Jobs
                        /\ owner[job[v].doc] = v => queue[job[v].doc] # <<>>
                        /\ pc'[v] \notin {"mark", "commit"} => batch'[v] \in 1..Batches
    BY DEF InHand, Owns, Jobs
  <2>2. pc[v] # "idle"
    BY <1>1, <2>1 DEF Handlers
  <2>3. job[v] \in Jobs /\ (owner[job[v].doc] = v => queue[job[v].doc] # <<>>)
    BY <2>2 DEF InHand, Owns
  <2>4. pc'[v] \notin {"mark", "commit"} => batch'[v] \in 1..Batches
    BY <1>1, <1>3, <2>2 DEF InHand
  <2> QED BY <2>3, <2>4
<1> QED BY <1>1, <1>5, <1>6

------------------------------------------------------------------------------
LEMMA TakeInductive ==
  ASSUME IInv, NEW w \in Workers, NEW d \in Docs, Take(w, d) PROVE IInv'
<1> USE DEF IInv
<1> DEFINE j == [doc |-> d, kind |-> Head(queue[d])]
<1>1. /\ pc[w] = "idle" /\ queue[d] # <<>>
      /\ owner' = [owner EXCEPT ![d] = w]
      /\ job' = [job EXCEPT ![w] = j]
      /\ batch' = [batch EXCEPT ![w] = 1]
      /\ UNCHANGED <<wal, points, queue, status, failed, torn>>
  BY DEF Take, server, j
<1>2. UNCHANGED <<exists, hasIndex>>
  BY DEF Take, server
<1>3. faults' \in faults..MaxFaults
  BY DEF Take, Fault, TypeOK
<1>4. pc' = [pc EXCEPT ![w] = "exists"] \/ pc' = [pc EXCEPT ![w] = "commit"]
  BY DEF Take, Goes
<1>5. j \in Jobs
  <2>1. queue[d] \in Seq(Kinds)
    BY DEF TypeOK
  <2>2. Head(queue[d]) \in Kinds
    BY <1>1, <2>1, HeadTail
  <2> QED BY <2>2, JobFields
<1> HIDE DEF j
<1>6. TypeOK'
  <2>1. job' \in [Workers -> [doc : Docs, kind : Kinds] \union {NoJob}]
    BY <1>1, <1>5 DEF TypeOK, Jobs
  <2>2. exists' \in BOOLEAN /\ hasIndex' \in BOOLEAN
    BY <1>2, Zenon DEF TypeOK
  <2>3. /\ wal' \in Seq(Ops) /\ points' \subseteq [doc : Docs, batch : 1..Batches]
        /\ queue' \in [Docs -> Seq(Kinds)] /\ owner' \in [Docs -> Workers \union {NoWorker}]
        /\ batch' \in [Workers -> 1..Batches + 1]
        /\ status' \in [Docs -> {"chunked", "indexed"}]
        /\ failed' \in Nat /\ torn' \subseteq Docs /\ faults' \in 0..MaxFaults
    BY <1>1, <1>3 DEF TypeOK
  <2>4. pc' \in [Workers -> {"idle", "exists", "create", "index", "delete", "wait",
                             "upsert", "mark", "commit"}]
    BY <1>4 DEF TypeOK
  <2> QED BY <2>1, <2>2, <2>3, <2>4 DEF TypeOK
<1>7. InHand'
  <2>1. \A v \in Workers : v # w /\ pc'[v] # "idle" =>
           /\ job'[v] \in Jobs
           /\ owner'[job'[v].doc] = v => queue'[job'[v].doc] # <<>>
           /\ pc'[v] \notin {"mark", "commit"} => batch'[v] \in 1..Batches
    BY <1>1, <1>4, OthersInHand DEF TypeOK
  <2>2. job'[w] = j /\ batch'[w] = 1 /\ j.doc = d
    BY <1>1 DEF TypeOK, j
  <2> QED BY <1>1, <1>5, <2>1, <2>2 DEF InHand, Owns
<1>8. pc'[w] # "create" /\ pc'[w] # "index" /\ \A v \in Workers : v # w => pc'[v] = pc[v]
  BY <1>4 DEF TypeOK
<1>9. failed' = failed /\ failed \in Nat /\ faults \in Nat /\ faults' \in faults..MaxFaults
  BY <1>1, <1>3 DEF TypeOK
<1>a. /\ failed' \in Nat /\ faults' \in Nat /\ faults <= faults'
      /\ Bound(failed', faults, failed, faults')
  BY <1>9, FaultsGrow, Zenon
<1>10. RacersCount' /\ IndexMissingByFaultOnly'
  BY <1>1, <1>2, <1>8, <1>a, RacersStay, IndexStays
<1> QED BY <1>6, <1>7, <1>10

(* The steps that change neither the collection nor what is searchable. *)
LEMMA QuietCall ==
  ASSUME IInv, NEW w \in Workers, NEW to \in (Handlers \union {"commit"}) \ {"create"},
         pc[w] \in Handlers \ {"index"}, Goes(w, to), UNCHANGED <<queue, owner, job>>,
         \/ batch' = batch /\ (to \notin {"mark", "commit"} => pc[w] # "mark")
         \/ /\ batch' = [batch EXCEPT ![w] = @ + 1]
            /\ pc[w] = "upsert" /\ to = IF batch[w] = Batches THEN "mark" ELSE "upsert",
         exists' = exists, hasIndex' = hasIndex, wal' \in Seq(Ops), points' = points,
         status' \in [Docs -> {"chunked", "indexed"}],
         torn' \subseteq Docs, failed' = failed, faults' = faults
  PROVE  IInv'
<1>1. /\ failed' \in Nat /\ faults' \in Nat /\ faults' \in 0..MaxFaults /\ faults <= faults'
      /\ Bound(failed', faults, failed, faults')
  BY DEF IInv, TypeOK, Bound
<1>2. exists' \in BOOLEAN /\ hasIndex' \in BOOLEAN
  BY Zenon DEF IInv, TypeOK
<1>3. points' \subseteq [doc : Docs, batch : 1..Batches]
  BY DEF IInv, TypeOK
<1>4. TypeOK' /\ InHand' /\ (\A v \in Workers : v # w => pc'[v] = pc[v]) /\ pc'[w] = to
  BY <1>1, <1>2, <1>3, CallKeeps
<1>5. RacersCount' /\ IndexMissingByFaultOnly'
  BY <1>1, <1>4, RacersStay, IndexStays
<1> QED BY <1>4, <1>5 DEF IInv

LEMMA ReleaseInductive ==
  ASSUME IInv, NEW w \in Workers, pc[w] # "idle", Release(w),
         \/ queue' = queue
         \/ Owns(w) /\ queue' = [queue EXCEPT ![job[w].doc] = Tail(@)],
         torn' \subseteq Docs, UNCHANGED <<server, batch, status, failed>>,
         faults' \in faults..MaxFaults, pc[w] # "index" \/ faults' > 0
  PROVE  IInv'
<1> USE DEF IInv
<1>1. /\ pc' = [pc EXCEPT ![w] = "idle"] /\ job' = [job EXCEPT ![w] = NoJob]
      /\ owner' = IF Owns(w) THEN [owner EXCEPT ![job[w].doc] = NoWorker] ELSE owner
      /\ UNCHANGED <<wal, points, batch, status, failed>>
  BY DEF Release, Goes, server
<1>2. exists' = exists /\ hasIndex' = hasIndex
  BY Zenon DEF server
<1>3. job[w] \in Jobs /\ job[w].doc \in Docs
  BY DEF InHand, Jobs
<1>4. /\ failed' = failed /\ failed \in Nat /\ faults \in Nat
      /\ pc' \in [Workers -> {"idle", "exists", "create", "index", "delete", "wait",
                              "upsert", "mark", "commit"}]
      /\ pc'[w] = "idle" /\ \A v \in Workers : v # w => pc'[v] = pc[v]
  BY <1>1 DEF TypeOK
<1>a. failed' = failed /\ failed \in Nat /\ faults \in Nat /\ faults' \in faults..MaxFaults
  BY <1>4
<1>5. /\ failed' \in Nat /\ faults' \in Nat /\ faults <= faults'
      /\ Bound(failed', faults, failed, faults')
  BY <1>a, FaultsGrow, Zenon
<1>6. faults' \in 0..MaxFaults
  BY <1>4
<1>7. /\ queue' \in [Docs -> Seq(Kinds)]
      /\ \A d \in Docs : queue'[d] # queue[d] => owner[d] = w
  <2>1. CASE queue' = queue
    BY <2>1 DEF TypeOK
  <2>2. CASE Owns(w) /\ queue' = [queue EXCEPT ![job[w].doc] = Tail(@)]
    <3>1. queue[job[w].doc] # <<>> /\ queue \in [Docs -> Seq(Kinds)]
      BY <2>2 DEF InHand, TypeOK
    <3>2. Tail(queue[job[w].doc]) \in Seq(Kinds)
      BY <1>3, <3>1, HeadTail
    <3> QED BY <1>3, <2>2, <3>1, <3>2 DEF Owns
  <2> QED BY <2>1, <2>2
<1>8. /\ owner' \in [Docs -> Workers \union {NoWorker}]
      /\ \A v \in Workers, d \in Docs : v # w /\ owner'[d] = v => owner[d] = v
  BY <1>1, <1>3, WorkersAssumption DEF TypeOK
<1>9. TypeOK'
  <2>1. exists' \in BOOLEAN /\ hasIndex' \in BOOLEAN
    BY <1>2, Zenon DEF TypeOK
  <2>2. /\ job' \in [Workers -> [doc : Docs, kind : Kinds] \union {NoJob}]
        /\ wal' \in Seq(Ops) /\ points' \subseteq [doc : Docs, batch : 1..Batches]
        /\ batch' \in [Workers -> 1..Batches + 1]
        /\ status' \in [Docs -> {"chunked", "indexed"}]
    BY <1>1 DEF TypeOK
  <2> QED BY <1>4, <1>5, <1>6, <1>7, <1>8, <2>1, <2>2 DEF TypeOK
<1>10. InHand'
  <2>1. SUFFICES ASSUME NEW v \in Workers, pc'[v] # "idle"
                 PROVE  /\ job'[v] \in Jobs
                        /\ owner'[job'[v].doc] = v => queue'[job'[v].doc] # <<>>
                        /\ pc'[v] \notin {"mark", "commit"} => batch'[v] \in 1..Batches
    BY DEF InHand, Owns, Jobs
  <2>2. v # w /\ pc[v] # "idle" /\ job'[v] = job[v] /\ batch'[v] = batch[v]
    BY <1>1, <1>4, <2>1 DEF TypeOK
  <2>3. job[v] \in Jobs /\ job[v].doc \in Docs
    BY <2>2 DEF InHand, Jobs
  <2>4. owner'[job[v].doc] = v => queue'[job[v].doc] # <<>>
    BY <1>7, <1>8, <2>2, <2>3 DEF InHand, Owns
  <2>5. pc'[v] \notin {"mark", "commit"} => batch'[v] \in 1..Batches
    BY <1>4, <2>2 DEF InHand
  <2> QED BY <2>2, <2>3, <2>4, <2>5
<1>11. RacersCount' /\ IndexMissingByFaultOnly'
  BY <1>2, <1>4, <1>5, RacersStay, IndexStays
<1> QED BY <1>9, <1>10, <1>11

------------------------------------------------------------------------------
(* The actions. *)

LEMMA FaultCounts ==
  ASSUME TypeOK, Fault
  PROVE  faults' \in faults..MaxFaults /\ faults' > 0 /\ faults' = faults + 1 /\ faults \in Nat
BY DEF TypeOK, Fault

LEMMA CommitInductive ==
  ASSUME IInv, NEW w \in Workers, Commit(w) PROVE IInv'
<1>1. /\ pc[w] = "commit" /\ Release(w) /\ torn' = torn /\ faults' = faults
      /\ UNCHANGED <<server, batch, status, failed>>
      /\ \/ queue' = queue
         \/ Owns(w) /\ queue' = [queue EXCEPT ![job[w].doc] = Tail(@)]
  BY DEF Commit
<1>2. torn' \subseteq Docs /\ faults' \in faults..MaxFaults
  BY <1>1 DEF IInv, TypeOK
<1> QED BY <1>1, <1>2, ReleaseInductive

LEMMA CrashInductive ==
  ASSUME IInv, NEW w \in Workers, Crash(w) PROVE IInv'
<1>1. /\ pc[w] # "idle" /\ Release(w) /\ queue' = queue
      /\ UNCHANGED <<server, batch, status, failed>>
  BY DEF Crash
<1>2. faults' \in faults..MaxFaults /\ faults' > 0
  BY FaultCounts DEF Crash, IInv
<1>3. torn' \subseteq Docs
  <2>1. job[w] \in Jobs
    BY <1>1 DEF IInv, InHand
  <2> QED BY <2>1 DEF Crash, IInv, TypeOK, Jobs
<1> QED BY <1>1, <1>2, <1>3, ReleaseInductive

LEMMA ToDlqInductive ==
  ASSUME IInv, NEW w \in Workers, CallRaises(w) \/ CreateConflicts(w) PROVE IInv'
<1>1. /\ pc[w] \in Handlers /\ Goes(w, "commit") /\ failed' = failed + 1
      /\ UNCHANGED <<queue, owner, job, batch, status, wal, points>>
  BY DEF CallRaises, CreateConflicts, ToDlq, server, Handlers, IInv, TypeOK
<1>2. exists' = exists /\ hasIndex' = hasIndex
  BY Zenon DEF CallRaises, CreateConflicts, server
<1>3. torn' \subseteq Docs
  <2>1. job[w] \in Jobs
    BY <1>1 DEF IInv, InHand, Handlers
  <2> QED BY <2>1 DEF CallRaises, CreateConflicts, ToDlq, IInv, TypeOK, Jobs
<1>4. failed \in Nat /\ faults \in Nat /\ failed' \in Nat /\ faults \in 0..MaxFaults
  BY <1>1 DEF IInv, TypeOK
<1>5. exists' \in BOOLEAN /\ hasIndex' \in BOOLEAN
  BY <1>2, Zenon DEF IInv, TypeOK
<1>6. /\ wal' \in Seq(Ops) /\ points' \subseteq [doc : Docs, batch : 1..Batches]
      /\ status' \in [Docs -> {"chunked", "indexed"}]
  BY <1>1 DEF IInv, TypeOK
<1>7. CASE CallRaises(w)
  <2>1. faults' = faults + 1 /\ faults' \in Nat /\ faults' \in 0..MaxFaults /\ faults' > 0
    BY <1>4, <1>7 DEF CallRaises, Fault
  <2>2. Bound(failed', faults, failed, faults') /\ faults <= faults'
    BY <1>1, <1>4, <2>1 DEF Bound
  <2>3. TypeOK' /\ InHand' /\ (\A v \in Workers : v # w => pc'[v] = pc[v]) /\ pc'[w] = "commit"
    BY <1>1, <1>3, <1>4, <1>5, <1>6, <2>1, CallKeeps
  <2>4. RacersCount' /\ IndexMissingByFaultOnly'
    BY <1>2, <1>4, <2>1, <2>2, <2>3, RacersStay, IndexStays
  <2> QED BY <2>3, <2>4 DEF IInv
<1>8. CASE CreateConflicts(w)
  <2>1. pc[w] = "create" /\ faults' = faults
    BY <1>8 DEF CreateConflicts
  <2>2. exists
    BY <1>8, Zenon DEF CreateConflicts
  <2>3. TypeOK' /\ InHand' /\ (\A v \in Workers : v # w => pc'[v] = pc[v]) /\ pc'[w] = "commit"
    BY <1>1, <1>3, <1>4, <1>5, <1>6, <2>1, CallKeeps
  <2>4. faults' \in Nat /\ faults <= faults'
    BY <1>4, <2>1
  <2>5. RacersCount'
    BY <1>1, <1>2, <1>4, <2>1, <2>2, <2>3, <2>4, RacersStay
  <2>6. IndexMissingByFaultOnly'
    BY <1>2, <2>1, <2>3, <2>4, IndexStays
  <2> QED BY <2>3, <2>5, <2>6 DEF IInv
<1> QED BY <1>7, <1>8

LEMMA CollectionExistsInductive ==
  ASSUME IInv, NEW w \in Workers, CollectionExists(w) PROVE IInv'
<1>1. /\ pc[w] = "exists" /\ Goes(w, IF exists THEN Work(w) ELSE "create")
      /\ UNCHANGED <<queue, owner, job, batch, status, failed, torn, wal, points, faults>>
  BY DEF CollectionExists, server, rest
<1>2. exists' = exists /\ hasIndex' = hasIndex
  BY Zenon DEF CollectionExists, server
<1>3. /\ wal' \in Seq(Ops) /\ points' \subseteq [doc : Docs, batch : 1..Batches]
      /\ status' \in [Docs -> {"chunked", "indexed"}] /\ torn' \subseteq Docs
      /\ failed' \in Nat /\ faults' \in 0..MaxFaults
  BY <1>1 DEF IInv, TypeOK
<1>4. Work(w) \in {"delete", "upsert"}
  BY DEF Work
<1>5. CASE exists
  <2>1. Goes(w, Work(w))
    BY <1>1, <1>5
  <2> QED BY <1>1, <1>2, <1>3, <1>4, <2>1, QuietCall DEF Handlers
<1>6. CASE ~exists
  <2>1. Goes(w, "create")
    BY <1>1, <1>6
  <2>2. exists' \in BOOLEAN /\ hasIndex' \in BOOLEAN
    BY <1>2, Zenon DEF IInv, TypeOK
  <2>3. TypeOK' /\ InHand'
    BY <1>1, <1>3, <2>1, <2>2, CallKeeps DEF Handlers
  <2>4. ~exists'
    BY <1>2, <1>6, Zenon
  <2>5. failed' <= faults'
    <3>1. failed <= faults
      BY <1>6, Zenon DEF IInv, RacersCount
    <3> QED BY <1>1, <3>1
  <2>6. RacersCount' /\ IndexMissingByFaultOnly'
    BY <2>4, <2>5, Zenon DEF RacersCount, IndexMissingByFaultOnly
  <2> QED BY <2>3, <2>6 DEF IInv
<1> QED BY <1>5, <1>6

LEMMA CreateCollectionInductive ==
  ASSUME IInv, NEW w \in Workers, CreateCollection(w) PROVE IInv'
<1>1. /\ pc[w] = "create" /\ Goes(w, "index")
      /\ UNCHANGED <<queue, owner, job, batch, status, failed, torn, wal, points, faults>>
  BY DEF CreateCollection, rest
<1>2. ~exists /\ exists' /\ exists' \in BOOLEAN /\ hasIndex' \in BOOLEAN
  BY Zenon DEF CreateCollection, IInv, TypeOK
<1>3. /\ wal' \in Seq(Ops) /\ points' \subseteq [doc : Docs, batch : 1..Batches]
      /\ status' \in [Docs -> {"chunked", "indexed"}] /\ torn' \subseteq Docs
      /\ failed' \in Nat /\ faults' \in 0..MaxFaults
  BY <1>1 DEF IInv, TypeOK
<1>4. /\ TypeOK' /\ InHand' /\ (\A v \in Workers : v # w => pc'[v] = pc[v]) /\ pc'[w] = "index"
  BY <1>1, <1>2, <1>3, CallKeeps DEF Handlers
<1>5. failed <= faults
  BY <1>2, Zenon DEF IInv, RacersCount
<1>6. failed' = failed /\ faults' = faults /\ failed \in Nat /\ faults \in Nat
  BY <1>1 DEF IInv, TypeOK
<1>7. failed' + Cardinality(Creating') <= (Cardinality(Workers) - 1) + faults'
  <2>1. Cardinality(Creating') = Cardinality(Creating) - 1
    BY <1>1, <1>4, CreatingLeft DEF IInv
  <2> DEFINE c == Cardinality(Creating)  c1 == Cardinality(Creating')  n == Cardinality(Workers)
  <2>2. c \in Nat /\ n \in Nat \ {0} /\ c <= n /\ c1 = c - 1
    BY <2>1, CreatingFinite
  <2> HIDE DEF c, c1, n
  <2>3. failed + c1 <= (n - 1) + faults
    BY <1>5, <1>6, <2>2
  <2> QED BY <1>6, <2>3 DEF c1, n
<1>8. RacersCount'
  BY <1>2, <1>7, Zenon DEF RacersCount
<1>9. IndexMissingByFaultOnly'
  BY <1>4, Zenon DEF IndexMissingByFaultOnly
<1> QED BY <1>4, <1>8, <1>9 DEF IInv

LEMMA CreatePayloadIndexInductive ==
  ASSUME IInv, NEW w \in Workers, CreatePayloadIndex(w) PROVE IInv'
<1>1. /\ pc[w] = "index" /\ Goes(w, Work(w))
      /\ UNCHANGED <<queue, owner, job, batch, status, failed, torn, wal, points, faults>>
  BY DEF CreatePayloadIndex, rest
<1>2. exists' = exists /\ hasIndex'
  BY Zenon DEF CreatePayloadIndex
<1>3. exists' \in BOOLEAN /\ hasIndex' \in BOOLEAN
  BY <1>2, Zenon DEF IInv, TypeOK
<1>4. /\ wal' \in Seq(Ops) /\ points' \subseteq [doc : Docs, batch : 1..Batches]
      /\ status' \in [Docs -> {"chunked", "indexed"}] /\ torn' \subseteq Docs
      /\ failed' \in Nat /\ faults' \in 0..MaxFaults
  BY <1>1 DEF IInv, TypeOK
<1>5. Work(w) \in {"delete", "upsert"}
  BY DEF Work
<1>6. TypeOK' /\ InHand' /\ (\A v \in Workers : v # w => pc'[v] = pc[v]) /\ pc'[w] = Work(w)
  BY <1>1, <1>3, <1>4, <1>5, CallKeeps DEF Handlers
<1>7. faults' \in Nat /\ Bound(failed', faults, failed, faults')
  BY <1>1, <1>4 DEF Bound, IInv, TypeOK
<1>8. RacersCount'
  BY <1>2, <1>4, <1>5, <1>6, <1>7, RacersStay
<1>9. IndexMissingByFaultOnly'
  BY <1>2, Zenon DEF IndexMissingByFaultOnly
<1> QED BY <1>6, <1>8, <1>9 DEF IInv

(* Deletes, upserts and the mark behind them. *)
LEMMA WorkInductive ==
  ASSUME IInv, NEW w \in Workers,
         Delete(w) \/ DeleteDone(w) \/ Upsert(w) \/ MarkIndexed(w)
  PROVE  IInv'
<1>1. /\ UNCHANGED <<queue, owner, job, failed, faults, points>>
      /\ pc[w] \in {"delete", "wait", "upsert", "mark"}
  BY DEF Delete, DeleteDone, Upsert, MarkIndexed, rest, server
<1>2. exists' = exists /\ hasIndex' = hasIndex
  BY Zenon DEF Delete, DeleteDone, Upsert, MarkIndexed, server
<1>3. job[w] \in Jobs /\ job[w].doc \in Docs
  BY <1>1 DEF IInv, InHand, Jobs
<1>4. wal \in Seq(Ops) /\ torn \subseteq Docs /\ status \in [Docs -> {"chunked", "indexed"}]
  BY DEF IInv, TypeOK
<1>5. CASE Delete(w)
  <2>1. Op(w, "delete", 0) \in Ops
    BY <1>3 DEF Op, Ops
  <2>2. /\ pc[w] = "delete" /\ Goes(w, "wait") /\ batch' = batch /\ status' = status
        /\ wal' \in Seq(Ops) /\ torn' \subseteq Docs
    BY <1>4, <1>5, <2>1 DEF Delete
  <2> QED BY <1>1, <1>2, <1>4, <2>2, QuietCall DEF Handlers
<1>6. CASE DeleteDone(w)
  <2>1. /\ pc[w] = "wait" /\ Goes(w, "upsert") /\ UNCHANGED <<batch, status, wal, torn>>
    BY <1>6 DEF DeleteDone, rest, server
  <2> QED BY <1>1, <1>2, <1>4, <2>1, QuietCall DEF Handlers
<1>7. CASE Upsert(w)
  <2>1. batch[w] \in 1..Batches
    BY <1>7 DEF Upsert, IInv, InHand
  <2>2. Op(w, "upsert", batch[w]) \in Ops
    BY <1>3, <2>1 DEF Op, Ops
  <2> DEFINE to == IF batch[w] = Batches THEN "mark" ELSE "upsert"
  <2>3. /\ pc[w] = "upsert" /\ Goes(w, to) /\ UNCHANGED <<status, torn>>
        /\ batch' = [batch EXCEPT ![w] = @ + 1]
        /\ wal' = Append(wal, Op(w, "upsert", batch[w]))
    BY <1>7 DEF Upsert, rest
  <2>4. wal' \in Seq(Ops)
    BY <1>4, <2>2, <2>3
  <2>5. to \in {"mark", "upsert"}
    OBVIOUS
  <2> QED BY <1>1, <1>2, <1>4, <2>3, <2>4, <2>5, QuietCall DEF Handlers
<1>8. CASE MarkIndexed(w)
  <2>1. /\ pc[w] = "mark" /\ Goes(w, "commit") /\ UNCHANGED <<batch, wal, torn>>
        /\ status' \in [Docs -> {"chunked", "indexed"}]
    BY <1>4, <1>8 DEF MarkIndexed, server
  <2> QED BY <1>1, <1>2, <1>4, <2>1, QuietCall DEF Handlers
<1> QED BY <1>5, <1>6, <1>7, <1>8

LEMMA ApplyInductive ==
  ASSUME IInv, Apply PROVE IInv'
<1>1. /\ wal # <<>> /\ wal' = Tail(wal) /\ points' = Applied(Head(wal), points)
      /\ UNCHANGED <<queue, owner, pc, job, batch, status, failed, torn, faults>>
  BY DEF Apply, rest
<1>2. exists' = exists /\ hasIndex' = hasIndex
  BY Zenon DEF Apply
<1>3. TypeOK'
  <2>1. exists' \in BOOLEAN /\ hasIndex' \in BOOLEAN
    BY <1>2, Zenon DEF IInv, TypeOK
  <2>2. Head(wal) \in Ops /\ Tail(wal) \in Seq(Ops)
    <3>1. wal \in Seq(Ops)
      BY DEF IInv, TypeOK
    <3> QED BY <1>1, <3>1, HeadTail
  <2>3. points' \subseteq [doc : Docs, batch : 1..Batches]
    <3>1. points \subseteq [doc : Docs, batch : 1..Batches]
      BY DEF IInv, TypeOK
    <3>2. ASSUME NEW o \in Ops PROVE Applied(o, points) \subseteq [doc : Docs, batch : 1..Batches]
      <4>1. CASE o.op = "upsert"
        <5>1. o.doc \in Docs /\ o.batch \in 1..Batches
          BY <4>1 DEF Ops
        <5> QED BY <3>1, <4>1, <5>1 DEF Applied
      <4>2. CASE o.op # "upsert"
        BY <3>1, <4>2 DEF Applied
      <4> QED BY <4>1, <4>2
    <3> QED BY <1>1, <2>2, <3>2
  <2>4. /\ queue' \in [Docs -> Seq(Kinds)] /\ owner' \in [Docs -> Workers \union {NoWorker}]
        /\ pc' \in [Workers -> {"idle", "exists", "create", "index", "delete", "wait",
                                "upsert", "mark", "commit"}]
        /\ job' \in [Workers -> [doc : Docs, kind : Kinds] \union {NoJob}]
        /\ batch' \in [Workers -> 1..Batches + 1]
        /\ status' \in [Docs -> {"chunked", "indexed"}]
        /\ failed' \in Nat /\ torn' \subseteq Docs /\ faults' \in 0..MaxFaults
    BY <1>1 DEF IInv, TypeOK
  <2> QED BY <1>1, <2>1, <2>2, <2>3, <2>4 DEF TypeOK
<1>4. InHand'
  BY <1>1 DEF IInv, InHand, Owns, Jobs
<1>5. RacersCount' /\ IndexMissingByFaultOnly'
  <2>1. Creating' = Creating
    BY <1>1 DEF Creating
  <2>2. failed' = failed /\ faults' = faults /\ pc' = pc
    BY <1>1
  <2> QED BY <1>2, <2>1, <2>2, Zenon DEF IInv, RacersCount, IndexMissingByFaultOnly
<1> QED BY <1>3, <1>4, <1>5 DEF IInv

LEMMA StutterInductive ==
  ASSUME IInv, UNCHANGED vars PROVE IInv'
<1>1. UNCHANGED <<queue, owner, pc, job, batch, status, failed, torn, faults, wal, points>>
  BY DEF vars
<1>2. exists' = exists /\ hasIndex' = hasIndex
  BY Zenon DEF vars
<1>3. TypeOK'
  <2>1. exists' \in BOOLEAN /\ hasIndex' \in BOOLEAN
    BY <1>2, Zenon DEF IInv, TypeOK
  <2> QED BY <1>1, <2>1 DEF IInv, TypeOK
<1>4. InHand'
  BY <1>1 DEF IInv, InHand, Owns, Jobs
<1>5. RacersCount' /\ IndexMissingByFaultOnly'
  <2>1. Creating' = Creating
    BY <1>1 DEF Creating
  <2>2. failed' = failed /\ faults' = faults /\ pc' = pc
    BY <1>1
  <2> QED BY <1>2, <2>1, <2>2, Zenon DEF IInv, RacersCount, IndexMissingByFaultOnly
<1> QED BY <1>3, <1>4, <1>5 DEF IInv

LEMMA StepInductive == IInv /\ [Next]_vars => IInv'
<1>1. ASSUME IInv, NEW w \in Workers, Step(w) \/ CallRaises(w) \/ Crash(w) PROVE IInv'
  BY <1>1, CollectionExistsInductive, CreateCollectionInductive, CreatePayloadIndexInductive,
     ToDlqInductive, WorkInductive, CommitInductive, CrashInductive DEF Step
<1>2. ASSUME IInv, NEW w \in Workers, NEW d \in Docs, Take(w, d) PROVE IInv'
  BY <1>2, TakeInductive
<1>3. ASSUME IInv, Apply PROVE IInv'
  BY <1>3, ApplyInductive
<1>4. ASSUME IInv, Done \/ UNCHANGED vars PROVE IInv'
  BY <1>4, StutterInductive DEF Done
<1> QED BY <1>1, <1>2, <1>3, <1>4 DEF Next

------------------------------------------------------------------------------
(* The invariant holds in every behaviour. *)
THEOREM Inductive == Spec => []IInv
BY InitInductive, StepInductive, PTL DEF Spec

(* Every state of the workers, their partitions and the server's log is of  *)
(* its type: batches are numbered within the document.                      *)
THEOREM TypeCorrect == Spec => []TypeOK
<1>1. IInv => TypeOK
  BY DEF IInv
<1> QED BY <1>1, Inductive, PTL

(* Any number of workers that meet a new collection at once lose at most one *)
(* message each to it, the first none; whatever else fails has its fault.    *)
THEOREM RaceBounded == Spec => []RaceFailsOncePerWorker
<1>1. IInv => RaceFailsOncePerWorker
  <2> SUFFICES ASSUME IInv PROVE RaceFailsOncePerWorker
    OBVIOUS
  <2> DEFINE c == Cardinality(Creating)  n == Cardinality(Workers)
  <2>1. failed \in Nat /\ faults \in Nat
    BY DEF IInv, TypeOK
  <2>2. c \in Nat /\ n \in Nat \ {0}
    BY CreatingFinite
  <2>3. failed + c <= (n - 1) + faults \/ failed <= faults
    BY Zenon DEF IInv, RacersCount
  <2> HIDE DEF c, n
  <2>4. failed <= (n - 1) + faults
    BY <2>1, <2>2, <2>3
  <2> QED BY <2>4 DEF RaceFailsOncePerWorker, n
<1> QED BY <1>1, Inductive, PTL

(* Without a fault the collection never stays without its payload index.     *)
THEOREM IndexKept == Spec => []IndexMissingByFaultOnly
<1>1. IInv => IndexMissingByFaultOnly
  BY DEF IInv
<1> QED BY <1>1, Inductive, PTL

------------------------------------------------------------------------------
(* Hybrid search, over a collection that the workers above fill: for any     *)
(* points, scores, limits and constant of the fusion.                       *)

Answered(q, h) == h \in hybrid_search(collection, q) /\ last = [query |-> q, hits |-> h]

(* The inductive invariant: the page that was answered last is one that the  *)
(* collection still gives, and the collection is finite.                    *)
SearchInv ==
  /\ collection \subseteq Points /\ IsFiniteSet(collection)
  /\ dense \in Scores /\ sparse \in Scores /\ colbert \in Scores
  /\ last = None \/ \E q \in Queries : \E h : Answered(q, h)

LEMMA SearchStarts == SearchInit => SearchInv
BY FS_EmptySet DEF SearchInit, SearchInv

LEMMA SamePages ==
  ASSUME UNCHANGED <<dense, sparse, colbert, collection>>, NEW q
  PROVE  hybrid_search(collection, q)' = hybrid_search(collection, q)
BY SMT DEF hybrid_search, Candidates, Matching, Prefetches, Rankings, Fusions

LEMMA SearchSteps == SearchInv /\ [SearchNext]_searchVars => SearchInv'
<1> SUFFICES ASSUME SearchInv, [SearchNext]_searchVars PROVE SearchInv'
  OBVIOUS
<1>1. UNCHANGED <<dense, sparse, colbert>>
  BY DEF SearchNext, searchVars
<1>2. CASE \E p \in Points : IndexPoint(p) \/ RemovePoint(p)
  <2>1. PICK p \in Points : IndexPoint(p) \/ RemovePoint(p)
    BY <1>2
  <2>2. collection' = collection \union {p} \/ collection' = collection \ {p}
    BY <2>1 DEF IndexPoint, RemovePoint
  <2>3. IsFiniteSet(collection') /\ collection' \subseteq Points
    BY <2>2, FS_AddElement, FS_RemoveElement DEF SearchInv
  <2>4. last' = None
    BY <2>1 DEF IndexPoint, RemovePoint
  <2> QED
    BY <1>1, <2>3, <2>4 DEF SearchInv, None
<1>3. ASSUME NEW q \in Queries, Answer(q) PROVE SearchInv'
  <2>1. PICK h \in hybrid_search(collection, q) : last' = [query |-> q, hits |-> h]
    BY <1>3 DEF Answer, ahybrid_search
  <2>2. UNCHANGED <<dense, sparse, colbert, collection>>
    BY <1>1, <1>3 DEF Answer
  <2>3. hybrid_search(collection, q)' = hybrid_search(collection, q)
    BY <2>2, SamePages
  <2>4. Answered(q, h)'
    BY <2>1, <2>3 DEF Answered
  <2>5. Queries' = Queries
    BY DEF Queries
  <2> QED
    BY <2>2, <2>4, <2>5 DEF SearchInv
<1>4. CASE UNCHANGED searchVars
  <2>1. UNCHANGED <<dense, sparse, colbert, collection, last>>
    BY <1>4 DEF searchVars
  <2>2. ASSUME NEW q PROVE hybrid_search(collection, q)' = hybrid_search(collection, q)
    BY <2>1, SamePages
  <2> QED
    BY <2>1, <2>2 DEF SearchInv, Answered, None, Queries
<1> QED
  BY <1>2, <1>3, <1>4 DEF SearchNext

(* The rankings of a finite set have each of its members once. *)
LEMMA SeqsShape ==
  ASSUME NEW S, IsFiniteSet(S), NEW r \in SetToSeqs(S)
  PROVE  r \in Seq(S) /\ Len(r) = Cardinality(S) /\ ToSet(r) = S
<1> DEFINE n == Cardinality(S)
<1>1. n \in Nat
  BY FS_CardinalityType
<1>2. r \in [1..n -> S] /\ \A i, j \in 1..n : i # j => r[i] # r[j]
  BY DEF SetToSeqs
<1> HIDE DEF n
<1>3. r \in Seq(S) /\ Len(r) = n /\ DOMAIN r = 1..n
  BY <1>1, <1>2
<1>4. r \in Injection(1..n, S)
  BY <1>2 DEF Injection, IsInjective
<1>5. IsFiniteSet(1..n) /\ Cardinality(1..n) = n
  <2>1. IsFiniteSet(1..n) /\ Cardinality(1..n) = IF 1 > n THEN 0 ELSE n - 1 + 1
    BY <1>1, FS_Interval
  <2> QED
    BY <1>1, <2>1
<1>6. r \in Surjection(1..n, S)
  BY <1>4, <1>5, FS_Injection DEF n
<1>7. ToSet(r) = S
  BY <1>3, <1>6 DEF ToSet, Surjection
<1> QED
  BY <1>3, <1>7 DEF n

LEMMA FirstShape ==
  ASSUME NEW S, NEW r \in Seq(S), NEW n \in Nat
  PROVE  /\ First(r, n) \in Seq(S) /\ Len(First(r, n)) = Smaller(n, Len(r))
         /\ \A i \in 1..Smaller(n, Len(r)) : First(r, n)[i] = r[i]
         /\ ToSet(First(r, n)) \subseteq ToSet(r)
         /\ Len(r) <= n => First(r, n) = r
<1> DEFINE m == Smaller(n, Len(r))
           f == First(r, n)
<1>1. m \in Nat /\ m <= Len(r) /\ (Len(r) <= n => m = Len(r))
  BY DEF Smaller
<1>2. f = SubSeq(r, 1, m)
  BY DEF First
<1>3. \A i \in 1..m : r[i] \in S
  BY <1>1
<1> HIDE DEF m
<1>4. f \in Seq(S) /\ Len(f) = m /\ \A i \in 1..m : f[i] = r[i]
  <2>1. /\ f \in Seq(S) /\ Len(f) = (IF 1 <= m THEN m - 1 + 1 ELSE 0)
        /\ \A i \in 1..m - 1 + 1 : f[i] = r[1 + i - 1]
    BY <1>1, <1>2, <1>3, SubSeqProperties
  <2>2. m - 1 + 1 = m /\ \A i \in 1..m : 1 + i - 1 = i
    BY <1>1
  <2> HIDE DEF f
  <2> QED
    BY <1>1, <2>1, <2>2
<1>5. Len(r) <= n => f = r
  BY <1>1, <1>2, SubSeqFull
<1> HIDE DEF f
<1>6. ToSet(f) \subseteq ToSet(r)
  BY <1>1, <1>4 DEF ToSet
<1> QED
  BY <1>4, <1>5, <1>6 DEF f, m

LEMMA PrefetchShape ==
  ASSUME NEW C, IsFiniteSet(C), NEW score, NEW n \in Nat, NEW a \in Prefetches(C, score, n)
  PROVE  ToSet(a) \subseteq C /\ (n >= Cardinality(C) => ToSet(a) = C)
<1>1. PICK r \in SetToSeqs(C) : a = First(r, n)
  BY DEF Prefetches, Rankings
<1>2. r \in Seq(C) /\ Len(r) = Cardinality(C) /\ ToSet(r) = C
  BY SeqsShape
<1>3. ToSet(a) \subseteq ToSet(r) /\ (Len(r) <= n => a = r)
  BY <1>1, <1>2, FirstShape
<1>4. Cardinality(C) \in Nat
  BY FS_CardinalityType
<1> QED
  BY <1>2, <1>3, <1>4

(* The fused list: of all points when the prefetches are large enough.       *)
LEMMA CandidatesShape ==
  ASSUME NEW C, IsFiniteSet(C), NEW q \in Queries, NEW f \in Candidates(C, q)
  PROVE  \E S \in SUBSET C : /\ f \in SetToSeqs(S)
                             /\ q.prefetch_limit >= Cardinality(C) => S = C
<1>1. PICK a \in Prefetches(C, dense, q.prefetch_limit),
           b \in Prefetches(Matching(C), sparse, q.prefetch_limit) : f \in Fusions(a, b)
  BY DEF Candidates
<1>2. q.prefetch_limit \in Nat
  BY DEF Queries
<1>3. Matching(C) \subseteq C /\ IsFiniteSet(Matching(C))
  BY FS_Subset DEF Matching
<1>4. /\ ToSet(a) \subseteq C /\ ToSet(b) \subseteq C
      /\ q.prefetch_limit >= Cardinality(C) => ToSet(a) = C
  BY <1>2, <1>3, PrefetchShape
<1>5. f \in SetToSeqs(ToSet(a) \union ToSet(b))
  BY <1>1 DEF Fusions, Rankings
<1> QED
  BY <1>4, <1>5

(* What a page is cut from: a list without duplicates that does not depend   *)
(* on the limit; with a rerank and limits that cover the collection, a       *)
(* ranking of all of it by colbert score.                                   *)
LEMMA PageShape ==
  ASSUME NEW C, IsFiniteSet(C), NEW q \in Queries, NEW h \in hybrid_search(C, q)
  PROVE  \E g \in Seq(C) :
           /\ h = First(g, q.limit)
           /\ \A n \in Nat : First(g, n) \in hybrid_search(C, [q EXCEPT !.limit = n])
           /\ q.rerank /\ q.prefetch_limit >= Cardinality(C) /\ q.fusion_limit >= Cardinality(C)
                => /\ Len(g) = Cardinality(C) /\ ToSet(g) = C
                   /\ \A i, j \in DOMAIN g : i < j => colbert[g[i]] >= colbert[g[j]]
<1>0. q \in Queries /\ q.fusion_limit \in Nat /\ q.rerank \in BOOLEAN
      /\ \A n : LET p == [q EXCEPT !.limit = n]
                IN /\ p.limit = n /\ p.prefetch_limit = q.prefetch_limit
                   /\ p.fusion_limit = q.fusion_limit /\ p.rerank = q.rerank
  BY DEF Queries
<1>1. \A n : Candidates(C, [q EXCEPT !.limit = n]) = Candidates(C, q)
  BY <1>0 DEF Candidates
<1>2. CASE ~q.rerank
  <2>1. PICK f \in Candidates(C, q) : h = First(f, q.limit)
    BY <1>2 DEF hybrid_search
  <2>2. PICK S \in SUBSET C : f \in SetToSeqs(S)
    BY CandidatesShape
  <2>3. f \in Seq(C)
    <3>1. IsFiniteSet(S)
      BY FS_Subset
    <3> QED
      BY <2>2, <3>1, SeqsShape
  <2>4. ASSUME NEW n \in Nat PROVE First(f, n) \in hybrid_search(C, [q EXCEPT !.limit = n])
    BY <1>0, <1>1, <1>2 DEF hybrid_search
  <2> QED
    BY <1>2, <2>1, <2>3, <2>4
<1>3. CASE q.rerank
  <2>1. PICK f \in Candidates(C, q) :
          \E r \in SetToSeqs(ToSet(First(f, q.fusion_limit))) :
            /\ \A i, j \in DOMAIN r : i < j => colbert[r[i]] >= colbert[r[j]]
            /\ h = First(r, q.limit)
    BY <1>3 DEF hybrid_search, Rankings
  <2>2. PICK r \in SetToSeqs(ToSet(First(f, q.fusion_limit))) :
            /\ \A i, j \in DOMAIN r : i < j => colbert[r[i]] >= colbert[r[j]]
            /\ h = First(r, q.limit)
    BY <2>1
  <2>3. PICK S \in SUBSET C : /\ f \in SetToSeqs(S)
                              /\ q.prefetch_limit >= Cardinality(C) => S = C
    BY CandidatesShape
  <2>4. f \in Seq(S) /\ Len(f) = Cardinality(S) /\ ToSet(f) = S
    <3>1. IsFiniteSet(S)
      BY FS_Subset
    <3> QED
      BY <2>3, <3>1, SeqsShape
  <2> DEFINE T == ToSet(First(f, q.fusion_limit))
  <2>5. T \subseteq C /\ IsFiniteSet(T)
        /\ (q.prefetch_limit >= Cardinality(C) /\ q.fusion_limit >= Cardinality(C) => T = C)
    <3>1. T \subseteq ToSet(f) /\ (Len(f) <= q.fusion_limit => First(f, q.fusion_limit) = f)
      BY <1>0, <2>4, FirstShape
    <3>2. T \subseteq C
      BY <2>4, <3>1
    <3> QED
      BY <2>3, <2>4, <3>1, <3>2, FS_Subset
  <2> HIDE DEF T
  <2>6. r \in Seq(T) /\ Len(r) = Cardinality(T) /\ ToSet(r) = T
    BY <2>2, <2>5, SeqsShape DEF T
  <2>7. r \in Seq(C)
    BY <2>5, <2>6
  <2>8. ASSUME NEW n \in Nat PROVE First(r, n) \in hybrid_search(C, [q EXCEPT !.limit = n])
    BY <1>0, <1>1, <1>3, <2>2 DEF hybrid_search, Rankings
  <2> QED
    BY <1>3, <2>2, <2>5, <2>6, <2>7, <2>8
<1> QED
  BY <1>2, <1>3

LEMMA LongerPage ==
  ASSUME NEW S, NEW g \in Seq(S), NEW n \in Nat
  PROVE  IsPrefix(First(g, n), First(g, n + 1))
<1> DEFINE s == First(g, n)
           t == First(g, n + 1)
           m == Smaller(n, Len(g))
<1>1. /\ s \in Seq(S) /\ Len(s) = m /\ \A i \in 1..m : s[i] = g[i]
      /\ t \in Seq(S) /\ Len(t) = Smaller(n + 1, Len(g))
      /\ \A i \in 1..Smaller(n + 1, Len(g)) : t[i] = g[i]
  <2>1. n + 1 \in Nat
    OBVIOUS
  <2>2. s \in Seq(S) /\ Len(s) = m /\ \A i \in 1..m : s[i] = g[i]
    BY FirstShape
  <2>3. /\ t \in Seq(S) /\ Len(t) = Smaller(n + 1, Len(g))
        /\ \A i \in 1..Smaller(n + 1, Len(g)) : t[i] = g[i]
    BY <2>1, FirstShape
  <2> QED
    BY <2>2, <2>3
<1>2. m \in Nat /\ m <= Smaller(n + 1, Len(g)) /\ Smaller(n + 1, Len(g)) \in Nat
  BY DEF Smaller
<1>3. \A i \in 1..m : t[i] = s[i]
  BY <1>1, <1>2
<1> HIDE DEF s, t, m
<1>4. SubSeq(s, 1, m) = SubSeq(t, 1, m)
  BY <1>1, <1>2, <1>3
<1> QED
  BY <1>1, <1>2, <1>4 DEF IsPrefix, s, t

LEMMA SearchInductive == SearchSpec => []SearchInv
BY SearchStarts, SearchSteps, PTL DEF SearchSpec

LEMMA LastPage ==
  ASSUME SearchInv, last # None
  PROVE  /\ IsFiniteSet(collection)
         /\ last.query \in Queries /\ last.hits \in hybrid_search(collection, last.query)
<1>1. PICK q \in Queries : \E h : Answered(q, h)
  BY DEF SearchInv
<1>2. PICK h : Answered(q, h)
  BY <1>1
<1> QED
  BY <1>2 DEF Answered, SearchInv

(* LargerLimitExtends: hybrid_search cuts the page after the rerank, so a    *)
(* client that asks for one hit more may get the same page and one hit.      *)
THEOREM LimitOnlyCuts == SearchSpec => []LargerLimitExtends
<1>1. SearchInv => LargerLimitExtends
  <2> SUFFICES ASSUME SearchInv, last # None, last.query.limit < MaxLimit
               PROVE  \E more \in ahybrid_search(collection, [last.query EXCEPT !.limit = last.query.limit + 1]) :
                        IsPrefix(last.hits, more)
    BY DEF LargerLimitExtends
  <2> DEFINE q == last.query
             n == last.query.limit
  <2>1. IsFiniteSet(collection) /\ q \in Queries /\ last.hits \in hybrid_search(collection, q)
    BY LastPage
  <2>2. n \in Nat /\ n + 1 \in Nat
    BY <2>1 DEF Queries
  <2>3. PICK g \in Seq(collection) :
          /\ last.hits = First(g, n)
          /\ First(g, n + 1) \in hybrid_search(collection, [q EXCEPT !.limit = n + 1])
    BY <2>1, <2>2, PageShape
  <2>4. IsPrefix(last.hits, First(g, n + 1))
    BY <2>2, <2>3, LongerPage
  <2> QED
    BY <2>3, <2>4 DEF ahybrid_search
<1> QED
  BY <1>1, SearchInductive, PTL

(* RerankIsExact: with limits that cover the collection the prefetches and   *)
(* the fusion lose nothing, and the page is the best by colbert score.       *)
THEOREM RerankFindsTheBest == SearchSpec => []RerankIsExact
<1>1. SearchInv => RerankIsExact
  <2> SUFFICES ASSUME SearchInv, last # None, last.query.rerank,
                      last.query.prefetch_limit >= Cardinality(collection),
                      last.query.fusion_limit >= Cardinality(collection)
               PROVE  /\ Len(last.hits) = Smaller(last.query.limit, Cardinality(collection))
                      /\ \A i \in DOMAIN last.hits : \A p \in collection :
                           colbert[p] > colbert[last.hits[i]] => \E j \in 1..i - 1 : last.hits[j] = p
    BY DEF RerankIsExact
  <2> DEFINE q == last.query
             h == last.hits
             C == collection
  <2>1. IsFiniteSet(C) /\ q \in Queries /\ h \in hybrid_search(C, q)
    BY LastPage
  <2>2. PICK g \in Seq(C) :
          /\ h = First(g, q.limit) /\ Len(g) = Cardinality(C) /\ ToSet(g) = C
          /\ \A i, j \in DOMAIN g : i < j => colbert[g[i]] >= colbert[g[j]]
    BY <2>1, PageShape
  <2>3. q.limit \in Nat
    BY <2>1 DEF Queries
  <2>4. /\ h \in Seq(C) /\ Len(h) = Smaller(q.limit, Len(g))
        /\ \A i \in 1..Smaller(q.limit, Len(g)) : h[i] = g[i]
    <3>1. LET f == First(g, q.limit)
          IN /\ f \in Seq(C) /\ Len(f) = Smaller(q.limit, Len(g))
             /\ \A i \in 1..Smaller(q.limit, Len(g)) : f[i] = g[i]
      BY <2>3, FirstShape
    <3> QED
      BY <2>2, <3>1
  <2>5. ASSUME NEW i \in DOMAIN h, NEW p \in C, colbert[p] > colbert[h[i]]
        PROVE  \E j \in 1..i - 1 : h[j] = p
    <3>1. Len(h) <= Len(g) /\ Len(h) \in Nat /\ Len(g) \in Nat /\ i \in 1..Len(h) /\ DOMAIN g = 1..Len(g)
      BY <2>2, <2>3, <2>4 DEF Smaller
    <3>2. PICK j \in DOMAIN g : g[j] = p
      BY <2>2 DEF ToSet
    <3>3. g[i] = h[i] /\ i \in DOMAIN g
      BY <2>4, <3>1
    <3>4. colbert \in [Points -> Nat] /\ p \in Points /\ g[i] \in Points
      BY <2>2, <3>3, ScoresAssumption DEF SearchInv
    <3>5. colbert[p] \in Nat /\ colbert[g[i]] \in Nat
      BY <3>4
    <3>6. ~(i < j) /\ i # j
      BY <2>2, <2>5, <3>2, <3>3, <3>5
    <3>7. j \in 1..i - 1 /\ j \in 1..Len(h)
      BY <3>1, <3>2, <3>6
    <3> QED
      BY <2>4, <3>2, <3>7
  <2> QED
    BY <2>2, <2>4, <2>5
<1> QED
  BY <1>1, SearchInductive, PTL

=============================================================================
