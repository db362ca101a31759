------------------------- MODULE StageWorkerProofs -------------------------
(* Theorems about StageWorker, for every number of workers, messages,       *)
(* attempts and faults.                                                     *)
EXTENDS StageWorker, TLAPS

USE WorkersAssumption, NAssumption, MalformedAssumption, AttemptsAssumption,
    FaultsAssumption

(* The holder of the partition is alive, and its consumer is exactly at the *)
(* committed offset, or at the message after it while it processes one.     *)
OwnerInSync ==
  owner \in Workers =>
    /\ pc[owner] # "down"
    /\ pc[owner] = "poll" => position[owner] = committed
    /\ pc[owner] \in Busy => position[owner] = committed + 1

(* Nobody is ahead of the first uncommitted message: neither a member that  *)
(* processes one (zombies lag behind) nor a record in a queue or in Kafka.  *)
NotAhead ==
  /\ \A w \in Workers : pc[w] \in Busy => position[w] \in 1..(committed + 1)
  /\ \A w \in Workers : \A r \in queue[w] : r[1] <= committed + 1
  /\ \A r \in delivered : r[1] <= committed + 1

(* What a worker has put on its way when it is at p in _process. *)
OutOf(w) == queue[w] \union delivered \union refused

SendProgress ==
  \A w \in Workers :
    /\ pc[w] = "send_event"  => <<position[w], "out">> \in OutOf(w)
    /\ pc[w] = "send_failed" => <<position[w], "dlq">> \in OutOf(w)
    /\ pc[w] = "flush"       => HasOutcome(position[w], OutOf(w))
    /\ pc[w] = "commit"      => Settled(position[w])

(* The inductive invariant.  NoSilentLoss alone is not inductive: whether   *)
(* the next commit is covered depends on what the committing worker sent    *)
(* (SendProgress) and on which message it commits (OwnerInSync).            *)
IInv == /\ TypeOK /\ OwnerInSync /\ NotAhead /\ SendProgress
        /\ NoSilentLoss /\ RedeliveryNeedsFault

------------------------------------------------------------------------------
(* Sending points and what they send. *)
LEMMA SendPoints ==
  /\ DOMAIN KindAt = {"send_out", "send_event", "send_dlq", "send_failed"}
  /\ KindAt["send_out"] = "out" /\ KindAt["send_event"] = "event"
  /\ KindAt["send_dlq"] = "dlq" /\ KindAt["send_failed"] = "failed"
  /\ AfterSend["send_out"] = "send_event" /\ AfterSend["send_event"] = "flush"
  /\ AfterSend["send_dlq"] = "send_failed" /\ AfterSend["send_failed"] = "flush"
BY DEF KindAt, AfterSend

(* An outcome is not lost when more records are there. *)
LEMMA OutcomeMonotone ==
  ASSUME NEW o, NEW R, NEW S, R \subseteq S, HasOutcome(o, R)
  PROVE  HasOutcome(o, S)
BY DEF HasOutcome

LEMMA InitInductive == Init => IInv
BY DEF Init, IInv, TypeOK, OwnerInSync, NotAhead, SendProgress, NoSilentLoss,
       RedeliveryNeedsFault, InFlight, PCs, Running, Busy

(* The redelivery budget: a message may leave processing uncommitted only   *)
(* together with a fault.                                                   *)
LEMMA BudgetKept ==
  ASSUME TypeOK, TypeOK', RedeliveryNeedsFault,
         UNCHANGED <<polls, committed>>, faults' >= faults,
         InFlight' = InFlight \/ faults' > faults
  PROVE  RedeliveryNeedsFault'
<1>1. \A p, c, f, g \in Nat : \A i, j \in {0, 1} :
        p <= c + f + i /\ (j = i \/ g > f) /\ g >= f => p <= c + g + j
  OBVIOUS
<1>2. InFlight \in {0, 1} /\ InFlight' \in {0, 1}
  BY DEF InFlight
<1>3. /\ polls \in Nat /\ committed \in Nat /\ faults \in Nat /\ faults' \in Nat
      /\ polls' = polls /\ committed' = committed
  BY DEF TypeOK
<1>4. polls <= committed + faults + InFlight
  BY DEF RedeliveryNeedsFault
<1>5. polls <= committed + faults' + InFlight'
  BY <1>1, <1>2, <1>3, <1>4
<1> QED BY <1>3, <1>5 DEF RedeliveryNeedsFault

(* A worker moves to another point of the loop and nothing is sent,         *)
(* delivered or committed: it may enter "commit" only with its outcome out, *)
(* and leave a message it holds the partition for only by a fault.          *)
LEMMA MoveInductive ==
  ASSUME IInv, NEW w \in Workers, NEW p \in Running,
         Goto(w, p), faults' \in faults..MaxFaults,
         attempt' \in [Workers -> 1..MaxAttempts],
         UNCHANGED <<committed, owner, position, queue, broker, polls>>,
         p \in Busy => /\ pc[w] \in Busy
                       /\ p \in {"handle", "send_out", "send_dlq", "commit"},
         p = "commit" => Settled(position[w]),
         p = "poll" => owner # w,
         pc[w] \in Busy /\ p \notin Busy => owner # w \/ faults' > faults
  PROVE  IInv'
<1> USE DEF IInv, Goto, broker
<1>0. faults \in 0..MaxFaults /\ faults' \in 0..MaxFaults /\ faults <= faults'
  BY DEF TypeOK
<1>1. TypeOK'
  <2>1. pc' \in [Workers -> PCs]
    BY DEF TypeOK, PCs
  <2> QED BY <1>0, <2>1 DEF TypeOK
<1>2. OwnerInSync'
  BY DEF TypeOK, OwnerInSync, PCs, Running, Busy
<1>3. NotAhead'
  BY DEF TypeOK, NotAhead, PCs, Running
<1>4. SendProgress'
  BY DEF TypeOK, SendProgress, OutOf, Settled, HasOutcome, Busy
<1>5. NoSilentLoss'
  BY DEF NoSilentLoss, Settled, HasOutcome
<1>6. RedeliveryNeedsFault'
  <2>1. InFlight' = InFlight \/ faults' > faults
    BY <1>0 DEF TypeOK, InFlight
  <2> QED BY <1>0, <1>1, <2>1, BudgetKept
<1> QED BY <1>1, <1>2, <1>3, <1>4, <1>5, <1>6

LEMMA PollInductive ==
  ASSUME IInv, NEW w \in Workers, Poll(w)
  PROVE  IInv'
<1> USE DEF IInv, Poll, Goto, broker
<1>1. TypeOK'
  BY DEF TypeOK, PCs, Running, Busy
<1>2. OwnerInSync'
  BY DEF TypeOK, OwnerInSync, PCs, Running, Busy
<1>3. NotAhead'
  BY DEF TypeOK, OwnerInSync, NotAhead, PCs, Running, Busy
<1>4. SendProgress'
  BY DEF TypeOK, SendProgress, OutOf, Settled, HasOutcome, PCs, Running, Busy
<1>5. NoSilentLoss'
  BY DEF TypeOK, NoSilentLoss, Settled, HasOutcome
<1>6. RedeliveryNeedsFault'
  BY DEF TypeOK, RedeliveryNeedsFault, InFlight, PCs, Running, Busy
<1> QED BY <1>1, <1>2, <1>3, <1>4, <1>5, <1>6

LEMMA SendInductive ==
  ASSUME IInv, NEW w \in Workers, Send(w)
  PROVE  IInv'
<1> USE DEF IInv, Send, Goto, data, broker
<1> DEFINE r == <<position[w], KindAt[pc[w]]>>
<1>1. /\ pc[w] \in Busy /\ AfterSend[pc[w]] \in Busy \ {"commit"}
      /\ KindAt[pc[w]] \in Kinds
  BY SendPoints DEF Busy, Kinds
<1>2. r \in Records /\ r[1] <= committed + 1
  BY <1>1 DEF TypeOK, NotAhead, Records
<1>3. TypeOK'
  BY <1>1, <1>2 DEF TypeOK, PCs, Running
<1>4. OwnerInSync'
  BY <1>1 DEF TypeOK, OwnerInSync, PCs, Running, Busy
<1>5. NotAhead'
  BY <1>1, <1>2 DEF TypeOK, NotAhead, PCs, Running
<1>6. SendProgress'
  <2> SUFFICES ASSUME NEW v \in Workers
               PROVE  /\ pc'[v] = "send_event"  => <<position[v], "out">> \in OutOf(v)'
                      /\ pc'[v] = "send_failed" => <<position[v], "dlq">> \in OutOf(v)'
                      /\ pc'[v] = "flush"       => HasOutcome(position[v], OutOf(v)')
                      /\ pc'[v] = "commit"      => Settled(position[v])
    BY DEF SendProgress, Settled, HasOutcome
  <2>1. OutOf(v) \subseteq OutOf(v)'
    BY DEF TypeOK, OutOf
  <2>2. CASE v # w
    BY <2>1, <2>2, OutcomeMonotone DEF TypeOK, SendProgress
  <2>3. CASE v = w
    <3>1. r \in OutOf(w)' /\ pc'[w] = AfterSend[pc[w]]
      BY DEF TypeOK, OutOf
    <3>2. CASE pc[w] = "send_out"
      BY <2>3, <3>1, <3>2, SendPoints
    <3>3. CASE pc[w] = "send_event"
      BY <2>1, <2>3, <3>1, <3>3, SendPoints DEF SendProgress, HasOutcome
    <3>4. CASE pc[w] = "send_dlq"
      BY <2>3, <3>1, <3>4, SendPoints
    <3>5. CASE pc[w] = "send_failed"
      BY <2>1, <2>3, <3>1, <3>5, SendPoints DEF SendProgress, HasOutcome
    <3> QED BY <3>2, <3>3, <3>4, <3>5, SendPoints
  <2> QED BY <2>2, <2>3
<1>7. NoSilentLoss'
  BY DEF NoSilentLoss, Settled, HasOutcome
<1>8. RedeliveryNeedsFault'
  BY <1>1 DEF TypeOK, RedeliveryNeedsFault, InFlight
<1> QED BY <1>3, <1>4, <1>5, <1>6, <1>7, <1>8

(* Both forms of a commit the broker applies: the worker goes on, or does   *)
(* not hear of it and closes.                                               *)
LEMMA CommitInductive ==
  ASSUME IInv, NEW w \in Workers, pc[w] = "commit", owner = w,
         committed' = position[w],
         \/ Goto(w, "poll") /\ UNCHANGED faults
         \/ Goto(w, "closing") /\ Fault,
         UNCHANGED <<owner, position, attempt, queue, broker, polls>>
  PROVE  IInv'
<1> USE DEF IInv, Goto, Fault, broker
<1>1. position[w] = committed + 1 /\ position[w] \in 0..N
  BY DEF TypeOK, OwnerInSync, Busy
<1>2. TypeOK'
  BY <1>1 DEF TypeOK, PCs, Running
<1>3. OwnerInSync'
  BY <1>1 DEF TypeOK, OwnerInSync, PCs, Running, Busy
<1>4. NotAhead'
  <2>1. \A v \in Workers : pc'[v] \in Busy => position[v] \in 1..(committed' + 1)
    BY <1>1 DEF TypeOK, NotAhead, Busy
  <2>2. \A v \in Workers : \A r \in queue[v] : r[1] <= committed' + 1
    BY <1>1 DEF TypeOK, NotAhead, Records
  <2>3. \A r \in delivered : r[1] <= committed' + 1
    BY <1>1 DEF TypeOK, NotAhead, Records
  <2> QED BY <2>1, <2>2, <2>3 DEF NotAhead
<1>5. SendProgress'
  BY DEF TypeOK, SendProgress, OutOf, Settled, HasOutcome
<1>6. NoSilentLoss'
  <2>1. \A o \in 1..committed' : o \in 1..committed \/ o = position[w]
    BY <1>1 DEF TypeOK
  <2>2. Settled(position[w])
    BY DEF SendProgress
  <2> QED BY <2>1, <2>2 DEF NoSilentLoss, Settled
<1>7. RedeliveryNeedsFault'
  BY <1>1 DEF TypeOK, RedeliveryNeedsFault, InFlight, PCs, Running, Busy
<1> QED BY <1>2, <1>3, <1>4, <1>5, <1>6, <1>7

(* Close and Crash: the process is gone, with its queue and its membership. *)
LEMMA GoneInductive ==
  ASSUME IInv, NEW w \in Workers, Goto(w, "down"), Leave(w),
         queue' = [queue EXCEPT ![w] = {}],
         pc[w] \in Busy => Fault,
         faults' \in faults..MaxFaults,
         UNCHANGED <<committed, position, attempt, broker, polls>>
  PROVE  IInv'
<1> USE DEF IInv, Goto, Leave, Fault, broker
<1>1. TypeOK'
  BY DEF TypeOK, PCs, Running
<1>2. OwnerInSync'
  BY DEF TypeOK, OwnerInSync, PCs, Running, Busy
<1>3. NotAhead'
  BY DEF TypeOK, NotAhead, Busy
<1>4. SendProgress'
  BY DEF TypeOK, SendProgress, OutOf, Settled, HasOutcome
<1>5. NoSilentLoss'
  BY DEF NoSilentLoss, Settled, HasOutcome
<1>6. RedeliveryNeedsFault'
  <2>1. faults' >= faults /\ (InFlight' = InFlight \/ faults' > faults)
    BY DEF TypeOK, InFlight
  <2> QED BY <1>1, <2>1, BudgetKept
<1> QED BY <1>1, <1>2, <1>3, <1>4, <1>5, <1>6

(* A new owner resumes after the committed offset.  Taking the partition    *)
(* from a member inside a message is paid for by a fault.                   *)
LEMMA GiveToInductive ==
  ASSUME IInv, NEW w \in Workers, GiveTo(w),
         \/ owner = NoWorker /\ UNCHANGED faults
         \/ Fault
  PROVE  IInv'
<1> USE DEF IInv, GiveTo, Fault, broker
<1>1. TypeOK'
  BY DEF TypeOK
<1>2. OwnerInSync'
  BY DEF TypeOK, OwnerInSync, Busy
<1>3. NotAhead'
  BY DEF TypeOK, NotAhead, Busy
<1>4. SendProgress'
  BY DEF TypeOK, SendProgress, OutOf, Settled, HasOutcome
<1>5. NoSilentLoss'
  BY DEF NoSilentLoss, Settled, HasOutcome
<1>6. RedeliveryNeedsFault'
  BY DEF TypeOK, RedeliveryNeedsFault, InFlight
<1> QED BY <1>1, <1>2, <1>3, <1>4, <1>5, <1>6

(* A record leaves the local queue for the broker or for the log line that  *)
(* reports its refusal: it stays accounted for.                             *)
LEMMA BrokerInductive ==
  ASSUME IInv, NEW w \in Workers, Deliver(w) \/ Refuse(w)
  PROVE  IInv'
<1> USE DEF IInv, Fault, broker
<1>1. PICK r \in queue[w] :
        /\ delivered' \union refused' = delivered \union refused \union {r}
        /\ delivered' \subseteq delivered \union {r}
        /\ refused' \subseteq refused \union {r}
        /\ queue' = [queue EXCEPT ![w] = @ \ {r}]
        /\ faults' \in faults..MaxFaults
        /\ UNCHANGED <<committed, owner, pc, position, attempt, polls>>
  BY DEF Deliver, Refuse, TypeOK
<1>2. r \in Records /\ r[1] <= committed + 1
  BY DEF TypeOK, NotAhead
<1>3. TypeOK'
  BY <1>1, <1>2 DEF TypeOK
<1>4. OwnerInSync'
  BY <1>1 DEF OwnerInSync
<1>5. NotAhead'
  BY <1>1, <1>2 DEF TypeOK, NotAhead
<1>6. SendProgress'
  <2> SUFFICES ASSUME NEW v \in Workers
               PROVE  /\ OutOf(v) \subseteq OutOf(v)'
                      /\ delivered \union refused \subseteq delivered' \union refused'
    BY <1>1, OutcomeMonotone DEF SendProgress, Settled
  <2> QED BY <1>1 DEF TypeOK, OutOf
<1>7. NoSilentLoss'
  BY <1>1, OutcomeMonotone DEF NoSilentLoss, Settled
<1>8. RedeliveryNeedsFault'
  <2>1. InFlight' = InFlight /\ faults' >= faults
    BY <1>1 DEF TypeOK, InFlight
  <2> QED BY <1>1, <1>3, <2>1, BudgetKept
<1> QED BY <1>3, <1>4, <1>5, <1>6, <1>7, <1>8

------------------------------------------------------------------------------
LEMMA NextInductive == IInv /\ [Next]_vars => IInv'
<1> SUFFICES ASSUME IInv, [Next]_vars PROVE IInv'
  OBVIOUS
<1> USE DEF data, broker
<1>1. CASE UNCHANGED vars
  BY <1>1 DEF vars, IInv, TypeOK, OwnerInSync, NotAhead, SendProgress, OutOf,
              NoSilentLoss, Settled, HasOutcome, RedeliveryNeedsFault, InFlight
<1>2. ASSUME NEW w \in Workers, Loop(w) PROVE IInv'
  <2>0. faults \in faults..MaxFaults /\ attempt \in [Workers -> 1..MaxAttempts]
    BY DEF IInv, TypeOK
  <2>1. CASE Poll(w)
    BY <2>1, PollInductive
  <2>2. CASE HandlerReturns(w)
    BY <2>0, <2>2, MoveInductive DEF HandlerReturns, Busy, Running
  <2>3. CASE HandlerRaises(w)
    <3>1. CASE attempt[w] < MaxAttempts
      <4>1. attempt' \in [Workers -> 1..MaxAttempts]
        BY <2>0, <2>3, <3>1 DEF HandlerRaises
      <4>2. Goto(w, "handle")
        BY <2>3, <3>1 DEF HandlerRaises, Goto, IInv, TypeOK
      <4> QED BY <2>0, <2>3, <3>1, <4>1, <4>2, MoveInductive
            DEF HandlerRaises, Busy, Running
    <3>2. CASE ~(attempt[w] < MaxAttempts)
      BY <2>0, <2>3, <3>2, MoveInductive DEF HandlerRaises, Busy, Running
    <3> QED BY <3>1, <3>2
  <2>4. CASE Send(w)
    BY <2>4, SendInductive
  <2>5. CASE FlushDone(w)
    <3>1. Settled(position[w])
      BY <2>5 DEF FlushDone, IInv, SendProgress, OutOf, Settled, HasOutcome
    <3> QED BY <2>0, <2>5, <3>1, MoveInductive DEF FlushDone, Busy, Running
  <2>6. CASE Commit(w)
    BY <2>6, CommitInductive DEF Commit
  <2>7. CASE CommitFenced(w)
    BY <2>0, <2>7, MoveInductive DEF CommitFenced, Busy, Running
  <2>8. CASE Close(w)
    BY <2>0, <2>8, GoneInductive DEF Close, Busy
  <2> QED BY <1>2, <2>1, <2>2, <2>3, <2>4, <2>5, <2>6, <2>7, <2>8 DEF Loop
<1>3. ASSUME NEW w \in Workers, Faulty(w) PROVE IInv'
  <2>0. /\ attempt \in [Workers -> 1..MaxAttempts]
        /\ Fault => faults' \in faults..MaxFaults /\ faults' > faults
    BY DEF IInv, TypeOK, Fault
  <2>1. CASE Stop(w)
    BY <2>0, <2>1, MoveInductive DEF Stop, Busy, Running
  <2>2. CASE SendRaises(w)
    <3>1. pc[w] \in Busy
      BY <2>2, SendPoints DEF SendRaises, Busy
    <3> QED BY <2>0, <2>2, <3>1, MoveInductive DEF SendRaises, Busy, Running
  <2>3. CASE FlushTimeout(w)
    BY <2>0, <2>3, MoveInductive DEF FlushTimeout, Busy, Running
  <2>4. CASE CommitTimeout(w)
    <3>1. CASE committed' = committed
      BY <2>0, <2>4, <3>1, MoveInductive DEF CommitTimeout, Busy, Running
    <3>2. CASE committed' = position[w]
      BY <2>4, <3>2, CommitInductive DEF CommitTimeout
    <3> QED BY <2>4, <3>1, <3>2 DEF CommitTimeout
  <2>5. CASE Crash(w)
    BY <2>0, <2>5, GoneInductive DEF Crash
  <2>6. CASE Rebalance(w)
    BY <2>6, GiveToInductive DEF Rebalance
  <2>7. CASE Refuse(w)
    BY <2>7, BrokerInductive
  <2> QED BY <1>3, <2>1, <2>2, <2>3, <2>4, <2>5, <2>6, <2>7 DEF Faulty
<1>4. ASSUME NEW w \in Workers, Deliver(w) PROVE IInv'
  BY <1>4, BrokerInductive
<1>5. ASSUME NEW w \in Workers, Restart(w) PROVE IInv'
  <2>1. owner # w /\ faults \in faults..MaxFaults
    BY <1>5 DEF Restart, IInv, OwnerInSync, TypeOK
  <2> QED BY <1>5, <2>1, MoveInductive DEF Restart, Busy, Running, IInv, TypeOK
<1>6. ASSUME NEW w \in Workers, Assign(w) PROVE IInv'
  BY <1>6, GiveToInductive DEF Assign
<1> QED BY <1>1, <1>2, <1>3, <1>4, <1>5, <1>6 DEF Next, PollNothing

THEOREM Inductive == Spec => []IInv
BY InitInductive, NextInductive, PTL DEF Spec

(* The types of the state, for any number of workers, messages and faults. *)
THEOREM TypeCorrect == Spec => []TypeOK
<1>1. IInv => TypeOK
  BY DEF IInv
<1> QED BY <1>1, Inductive, PTL

(* Flush first, commit second: the offset never passes a message whose      *)
(* outcome has not left the worker (worker.py, _process).                   *)
THEOREM NothingLostSilently == Spec => []NoSilentLoss
<1>1. IInv => NoSilentLoss
  BY DEF IInv
<1> QED BY <1>1, Inductive, PTL

(* A redelivery is always paid for by a fault. *)
THEOREM RedeliveriesBounded == Spec => []RedeliveryNeedsFault
<1>1. IInv => RedeliveryNeedsFault
  BY DEF IInv
<1> QED BY <1>1, Inductive, PTL

(* First outcomes reach the broker in the order of the partition. *)
THEOREM FirstOutcomesInOrder == Spec => []InOrder
<1>1. IInv => InOrder
  <2> SUFFICES ASSUME IInv, NEW r \in delivered, NEW o \in 1..(r[1] - 1)
               PROVE  Settled(o)
    BY DEF InOrder
  <2>1. r[1] \in 1..N /\ r[1] <= committed + 1 /\ committed \in 0..N
    BY DEF IInv, TypeOK, NotAhead, Records
  <2>2. o \in 1..committed
    BY <2>1
  <2> QED BY <2>2 DEF IInv, NoSilentLoss
<1> QED BY <1>1, Inductive, PTL

(* The committed offset advances by single messages, never backwards. *)
LEMMA StepMovesOffset == IInv /\ [Next]_vars => committed' \in {committed, committed + 1}
<1> SUFFICES ASSUME IInv, [Next]_vars PROVE committed' \in {committed, committed + 1}
  OBVIOUS
<1>1. ASSUME NEW w \in Workers, pc[w] = "commit", owner = w
      PROVE  position[w] = committed + 1
  BY <1>1 DEF IInv, OwnerInSync, Busy
<1>2. ASSUME NEW w \in Workers, Loop(w) \/ Faulty(w)
      PROVE  committed' \in {committed, committed + 1}
  BY <1>1, <1>2 DEF Loop, Faulty, data, Poll, HandlerReturns, HandlerRaises, Send,
     FlushDone, Commit, CommitFenced, Close, Stop, SendRaises, FlushTimeout,
     CommitTimeout, Crash, Rebalance, GiveTo, Refuse
<1> QED BY <1>2 DEF Next, vars, data, PollNothing, Deliver, Restart, Assign, GiveTo

THEOREM OffsetOrder == Spec => OffsetMovesByOne
<1>1. IInv /\ [Next]_vars => [committed' \in {committed, committed + 1}]_vars
  BY StepMovesOffset
<1> QED BY <1>1, Inductive, PTL DEF Spec, OffsetMovesByOne

------------------------------------------------------------------------------
(* The refinement of AtLeastOnce. *)

Done == {o \in 1..N : Settled(o)}

LEMMA PromiseInit == Init => Promise!Init
BY DEF Init, Promise!Init, Settled, HasOutcome

(* Delivering or refusing one record settles its message or nothing; only   *)
(* the first uncommitted message can be newly settled.                      *)
LEMMA BrokerSettles ==
  ASSUME IInv, NEW w \in Workers, Deliver(w) \/ Refuse(w)
  PROVE  Done' = Done \/ (committed < N /\ Done' = Done \union {committed + 1})
<1>1. PICK r \in queue[w] : delivered' \union refused' = delivered \union refused \union {r}
  BY DEF Deliver, Refuse
<1>2. r \in Records /\ r[1] \in 1..N /\ r[1] <= committed + 1 /\ committed \in 0..N
  BY DEF IInv, TypeOK, NotAhead, Records
<1>3. Done \subseteq Done'
  BY <1>1, OutcomeMonotone DEF Done, Settled
<1>4. ASSUME NEW o \in Done', o \notin Done
      PROVE  o = committed + 1 /\ committed < N
  <2>1. o = r[1]
    <3>1. \A k \in Kinds : <<o, k>> \in delivered \union refused \union {r} =>
             <<o, k>> \in delivered \union refused \/ o = r[1]
      OBVIOUS
    <3> QED BY <1>1, <1>4, <3>1 DEF Done, Settled, HasOutcome, Kinds
  <2>2. o \notin 1..committed
    BY <1>4 DEF IInv, NoSilentLoss, Done
  <2> QED BY <1>2, <2>1, <2>2
<1> QED BY <1>3, <1>4

LEMMA PromiseStep == IInv /\ IInv' /\ [Next]_vars => [Promise!Next]_(Promise!vars)
<1> SUFFICES ASSUME IInv, IInv', [Next]_vars
             PROVE  [Promise!Next]_(Promise!vars)
  OBVIOUS
<1> USE DEF Promise!Next, Promise!vars, Promise!Settle, Promise!Acknowledge
<1>1. CASE \E w \in Workers : Deliver(w) \/ Refuse(w)
  <2>1. committed' = committed
    BY <1>1 DEF Deliver, Refuse
  <2>2. Done' = Done \/ (committed < N /\ Done' = Done \union {committed + 1})
    BY <1>1, BrokerSettles
  <2> QED BY <2>1, <2>2 DEF Done
<1>2. CASE ~ \E w \in Workers : Deliver(w) \/ Refuse(w)
  <2>1. delivered' = delivered /\ refused' = refused
    BY <1>2 DEF Next, Loop, Faulty, vars, data, broker, Poll, HandlerReturns,
       HandlerRaises, Send, FlushDone, Commit, CommitFenced, Close, Stop,
       SendRaises, FlushTimeout, CommitTimeout, Crash, Rebalance, GiveTo,
       PollNothing, Restart, Assign
  <2>2. Done' = Done
    BY <2>1 DEF Done, Settled
  <2>3. CASE committed' = committed
    BY <2>2, <2>3 DEF Done
  <2>4. CASE committed' = committed + 1
    <3>1. committed + 1 \in Done
      BY <2>2, <2>4 DEF IInv, TypeOK, NoSilentLoss, Done
    <3> QED BY <2>2, <2>4, <3>1 DEF Done
  <2> QED BY <2>3, <2>4, StepMovesOffset
<1> QED BY <1>1, <1>2

(* The stage implements the at-least-once promise, for any number of        *)
(* workers, messages and faults.                                            *)
THEOREM Refinement == Spec => ImplementsPromise
<1>1. Init => Promise!Init
  BY PromiseInit
<1>2. IInv /\ IInv' /\ [Next]_vars => [Promise!Next]_(Promise!vars)
  BY PromiseStep
<1> QED BY <1>1, <1>2, Inductive, PTL DEF Spec, ImplementsPromise, Promise!Spec
=============================================================================
