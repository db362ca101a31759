---------------------------- MODULE StageWorker ----------------------------
(* One pipeline stage: src/kafka_service/worker.py with the confluent-kafka *)
(* wrapper src/kafka_service/sync_client.py.  Several worker processes of   *)
(* one consumer group compete for ONE input partition holding the messages  *)
(* 1..N.  Each worker polls a message, runs the handler with in-process     *)
(* retries, puts the emits (or the DLQ record and the failed event) into    *)
(* its producer's local queue, flushes the queue and commits the offset.    *)
(* The broker (delivery, refusal, partition assignment, fencing) and the    *)
(* process supervisor are external.                                         *)
EXTENDS Naturals, FiniteSets

CONSTANTS Workers,      \* the processes of the consumer group
          NoWorker,     \* "the partition is assigned to nobody"
          N,            \* messages in the partition
          Malformed,    \* the offsets whose body does not validate
          MaxAttempts,  \* Stage.max_attempts
          MaxFaults     \* bound on crashes, timeouts, rebalances, refusals

ASSUME WorkersAssumption   == NoWorker \notin Workers
ASSUME NAssumption         == N \in Nat
ASSUME MalformedAssumption == Malformed \subseteq 1..N
ASSUME AttemptsAssumption  == MaxAttempts \in Nat \ {0}
ASSUME FaultsAssumption    == MaxFaults \in Nat

VARIABLES
  committed,  \* the group's committed offset: 1..committed are done
  owner,      \* the member that holds the partition in the current generation
  pc,         \* pc[w]: where worker w is in run_stage / _process
  position,   \* position[w]: offset of the last message w's consumer handed out
  attempt,    \* attempt[w]: the attempt _handle_with_retries is at
  queue,      \* queue[w]: w's producer queue, <<offset, kind>> of each record
  delivered,  \* records the broker has written, as <<offset, kind>>
  refused,    \* records the broker refused for good: only logged (_on_delivery)
  faults,     \* faults so far (bounded by MaxFaults)
  polls       \* messages handed to _process so far, redeliveries included

vars == <<committed, owner, pc, position, attempt, queue, delivered, refused,
          faults, polls>>

(* "out" is the message to the next stage (or index.done), "event" the      *)
(* status event of a handled message; "dlq" and "failed" are the two        *)
(* records of _to_dlq.                                                      *)
Kinds   == {"out", "event", "dlq", "failed"}
Records == (1..N) \X Kinds

(* Points of run_stage: at the top of the loop; in the handler; before each *)
(* of the two sends of _emit_all and of _to_dlq; in flush_or_raise; before   *)
(* the commit.  "closing" is the finally block, "down" a dead process.       *)
Busy    == {"handle", "send_out", "send_event", "send_dlq", "send_failed",
            "flush", "commit"}
Running == Busy \union {"poll", "closing"}
PCs     == Running \union {"down"}

(* The kind of record sent at a sending point, and the point after it. *)
KindAt == [p \in {"send_out", "send_event", "send_dlq", "send_failed"} |->
             CASE p = "send_out"   -> "out"
               [] p = "send_event" -> "event"
               [] p = "send_dlq"   -> "dlq"
               [] OTHER            -> "failed"]

AfterSend == [p \in DOMAIN KindAt |->
                CASE p = "send_out" -> "send_event"
                  [] p = "send_dlq" -> "send_failed"
                  [] OTHER          -> "flush"]

TypeOK ==
  /\ committed \in 0..N
  /\ owner     \in Workers \union {NoWorker}
  /\ pc        \in [Workers -> PCs]
  /\ position  \in [Workers -> 0..N]
  /\ attempt   \in [Workers -> 1..MaxAttempts]
  /\ queue     \in [Workers -> SUBSET Records]
  /\ delivered \in SUBSET Records
  /\ refused   \in SUBSET Records
  /\ faults    \in 0..MaxFaults
  /\ polls     \in Nat

Init ==
  /\ committed = 0
  /\ owner     = NoWorker
  /\ pc        = [w \in Workers |-> "poll"]
  /\ position  = [w \in Workers |-> 0]
  /\ attempt   = [w \in Workers |-> 1]
  /\ queue     = [w \in Workers |-> {}]
  /\ delivered = {}
  /\ refused   = {}
  /\ faults    = 0
  /\ polls     = 0

Goto(w, p) == pc' = [pc EXCEPT ![w] = p]

Fault == faults < MaxFaults /\ faults' = faults + 1

(* Leaving the group gives the partition up, if w holds it. *)
Leave(w) == owner' = IF owner = w THEN NoWorker ELSE owner

broker == <<delivered, refused>>
data   == <<committed, owner, position, attempt, queue, broker, polls>>

------------------------------------------------------------------------------
(* The worker loop. *)

(* consumer.poll returns a message.  A body that does not validate goes     *)
(* straight to the DLQ.                                                     *)
Poll(w) ==
  /\ pc[w] = "poll" /\ owner = w
  /\ position[w] < N
  /\ position' = [position EXCEPT ![w] = @ + 1]
  /\ attempt'  = [attempt EXCEPT ![w] = 1]
  /\ Goto(w, IF position[w] + 1 \in Malformed THEN "send_dlq" ELSE "handle")
  /\ polls' = polls + 1
  /\ UNCHANGED <<committed, owner, queue, broker, faults>>

(* consumer.poll times out with None. *)
PollNothing(w) ==
  /\ pc[w] = "poll"
  /\ owner = w => position[w] = N
  /\ UNCHANGED vars

(* The stop event is seen at the top of the loop, so never inside a message. *)
Stop(w) ==
  /\ pc[w] = "poll"
  /\ Fault
  /\ Goto(w, "closing")
  /\ UNCHANGED data

HandlerReturns(w) ==
  /\ pc[w] = "handle"
  /\ Goto(w, "send_out")
  /\ UNCHANGED <<data, faults>>

(* DEFECT: exhausted retries end the worker instead of reaching the DLQ. *)
HandlerRaisesUncaught(w) ==
  /\ pc[w] = "handle"
  /\ IF attempt[w] < MaxAttempts
       THEN attempt' = [attempt EXCEPT ![w] = @ + 1] /\ UNCHANGED pc
       ELSE Goto(w, "closing") /\ UNCHANGED attempt
  /\ UNCHANGED <<committed, owner, position, queue, broker, faults, polls>>

(* The handler raises: the next in-process attempt, or the DLQ. *)
HandlerRaises(w) ==
  /\ pc[w] = "handle"
  /\ IF attempt[w] < MaxAttempts
       THEN /\ attempt' = [attempt EXCEPT ![w] = @ + 1]
            /\ UNCHANGED pc
       ELSE /\ Goto(w, "send_dlq")
            /\ UNCHANGED attempt
  /\ UNCHANGED <<committed, owner, position, queue, broker, faults, polls>>

(* SyncProducer.send puts the record into the local queue and returns. *)
Send(w) ==
  /\ pc[w] \in DOMAIN KindAt
  /\ queue' = [queue EXCEPT ![w] = @ \union {<<position[w], KindAt[pc[w]]>>}]
  /\ Goto(w, AfterSend[pc[w]])
  /\ UNCHANGED <<committed, owner, position, attempt, broker, faults, polls>>

(* DEFECT: an exception of _emit_all is swallowed, not sent to the DLQ. *)
SendRaisesSwallowed(w) ==
  /\ pc[w] \in DOMAIN KindAt
  /\ Fault
  /\ Goto(w, IF pc[w] \in {"send_out", "send_event"} THEN "flush" ELSE "closing")
  /\ UNCHANGED data

(* produce() raises (local queue full, record too large).  Inside _emit_all *)
(* the exception leads to the DLQ, records already queued staying queued;   *)
(* inside _to_dlq nothing catches it.                                       *)
SendRaises(w) ==
  /\ pc[w] \in DOMAIN KindAt
  /\ Fault
  /\ Goto(w, IF pc[w] \in {"send_out", "send_event"} THEN "send_dlq" ELSE "closing")
  /\ UNCHANGED data

(* DEFECT: flush() without a look at how many records are left. *)
FlushUnchecked(w) ==
  /\ pc[w] = "flush"
  /\ Goto(w, "commit")
  /\ UNCHANGED <<data, faults>>

(* DEFECT: the early return of the malformed path skips the commit. *)
MalformedNotCommitted(w) ==
  /\ pc[w] = "flush"
  /\ queue[w] = {}
  /\ Goto(w, IF position[w] \in Malformed THEN "poll" ELSE "commit")
  /\ UNCHANGED <<data, faults>>

(* flush() returns 0: nothing is left in the local queue. *)
FlushDone(w) ==
  /\ pc[w] = "flush"
  /\ queue[w] = {}
  /\ Goto(w, "commit")
  /\ UNCHANGED <<data, faults>>

(* flush() gives up with records still queued: flush_or_raise raises. *)
FlushTimeout(w) ==
  /\ pc[w] = "flush"
  /\ queue[w] # {}
  /\ Fault
  /\ Goto(w, "closing")
  /\ UNCHANGED data

(* DEFECT: commits that are not bound to the current generation. *)
CommitUnfenced(w) ==
  /\ pc[w] = "commit"
  /\ committed' = position[w]
  /\ Goto(w, "poll")
  /\ UNCHANGED <<owner, position, attempt, queue, broker, faults, polls>>

(* The synchronous commit of this message's offset; the broker accepts it   *)
(* from the member that holds the partition only.                           *)
Commit(w) ==
  /\ pc[w] = "commit"
  /\ owner = w
  /\ committed' = position[w]
  /\ Goto(w, "poll")
  /\ UNCHANGED <<owner, position, attempt, queue, broker, faults, polls>>

(* The commit of a member that lost the partition raises. *)
CommitFenced(w) ==
  /\ pc[w] = "commit"
  /\ owner # w
  /\ Goto(w, "closing")
  /\ UNCHANGED <<data, faults>>

(* The broker does not answer the commit, having applied it or not. *)
CommitTimeout(w) ==
  /\ pc[w] = "commit"
  /\ owner = w
  /\ Fault
  /\ committed' \in {committed, position[w]}
  /\ Goto(w, "closing")
  /\ UNCHANGED <<owner, position, attempt, queue, broker, polls>>

(* DEFECT: auto commit left on, close() commits what was handed out. *)
CloseCommitsStored(w) ==
  /\ pc[w] = "closing"
  /\ queue' = [queue EXCEPT ![w] = {}]
  /\ committed' = IF owner = w THEN position[w] ELSE committed
  /\ Leave(w)
  /\ Goto(w, "down")
  /\ UNCHANGED <<position, attempt, broker, faults, polls>>

(* The finally block: the last flush is over (its result is not looked at), *)
(* consumer.close() leaves the group.  It commits nothing: nothing is       *)
(* stored for a consumer without auto commit.                               *)
Close(w) ==
  /\ pc[w] = "closing"
  /\ queue' = [queue EXCEPT ![w] = {}]
  /\ Leave(w)
  /\ Goto(w, "down")
  /\ UNCHANGED <<committed, position, attempt, broker, faults, polls>>

------------------------------------------------------------------------------
(* The environment: process death, the supervisor, the broker. *)

(* The process dies: its local queue is gone; its session times out. *)
Crash(w) ==
  /\ pc[w] \in Running
  /\ Fault
  /\ queue' = [queue EXCEPT ![w] = {}]
  /\ Leave(w)
  /\ Goto(w, "down")
  /\ UNCHANGED <<committed, position, attempt, broker, polls>>

Restart(w) ==
  /\ pc[w] = "down"
  /\ Goto(w, "poll")
  /\ UNCHANGED <<data, faults>>

(* The partition is assigned to a polling member, which resumes after the   *)
(* committed offset.                                                        *)
GiveTo(w) ==
  /\ pc[w] = "poll"
  /\ owner' = w
  /\ position' = [position EXCEPT ![w] = committed]
  /\ UNCHANGED <<committed, pc, attempt, queue, broker, polls>>

Assign(w) ==
  /\ owner = NoWorker
  /\ GiveTo(w)
  /\ UNCHANGED faults

(* A rebalance takes the partition from a live member; if that member is    *)
(* inside a message (it overran max.poll.interval.ms) both now process it.  *)
Rebalance(w) ==
  /\ owner \in Workers \ {w}
  /\ Fault
  /\ GiveTo(w)

(* The broker acknowledges a queued record, or refuses it for good: both    *)
(* take it off the local queue, and the refusal is only logged.             *)
Deliver(w) ==
  \E r \in queue[w] :
    /\ delivered' = delivered \union {r}
    /\ queue'     = [queue EXCEPT ![w] = @ \ {r}]
    /\ UNCHANGED <<committed, owner, pc, position, attempt, refused, faults,
                   polls>>

Refuse(w) ==
  \E r \in queue[w] :
    /\ Fault
    /\ refused' = refused \union {r}
    /\ queue'   = [queue EXCEPT ![w] = @ \ {r}]
    /\ UNCHANGED <<committed, owner, pc, position, attempt, delivered, polls>>

------------------------------------------------------------------------------
Loop(w) == \/ Poll(w) \/ HandlerReturns(w) \/ HandlerRaises(w) \/ Send(w)
           \/ FlushDone(w) \/ Commit(w) \/ CommitFenced(w) \/ Close(w)

Faulty(w) == \/ Stop(w) \/ SendRaises(w) \/ FlushTimeout(w) \/ CommitTimeout(w)
             \/ Crash(w) \/ Rebalance(w) \/ Refuse(w)

Next == \E w \in Workers : \/ Loop(w) \/ Faulty(w) \/ PollNothing(w)
                           \/ Deliver(w) \/ Restart(w) \/ Assign(w)

Spec == Init /\ [][Next]_vars

(* A live process keeps running and the broker keeps acknowledging; the     *)
(* supervisor restarts a dead process; the coordinator assigns an orphaned  *)
(* partition.  Faults are not fair: they are bounded and may never come.    *)
Fairness == \A w \in Workers : /\ WF_vars(Loop(w))
                               /\ WF_vars(Deliver(w))
                               /\ WF_vars(Restart(w))
                               /\ WF_vars(Assign(w))

FairSpec == Spec /\ Fairness

------------------------------------------------------------------------------
(* Properties. *)

(* The outcome of message o: both records of the handler, or both of the    *)
(* DLQ path.                                                                *)
HasOutcome(o, records) ==
  \/ {<<o, "out">>, <<o, "event">>} \subseteq records
  \/ {<<o, "dlq">>, <<o, "failed">>} \subseteq records

Settled(o) == HasOutcome(o, delivered \union refused)

(* The offset never passes a message whose outcome did not leave the        *)
(* worker: "flush the producer first, commit the offset second", through    *)
(* crashes, flush timeouts, zombies and half-sent emits.                    *)
NoSilentLoss == \A o \in 1..committed : Settled(o)

(* A record of message o is on the broker only once every earlier message   *)
(* of the partition is settled: the next stage sees first outcomes in log   *)
(* order, whichever workers produced them.                                  *)
InOrder == \A r \in delivered : \A o \in 1..(r[1] - 1) : Settled(o)

InFlight == IF owner \in Workers /\ pc[owner] \in Busy THEN 1 ELSE 0

(* A message is handed out again only after a fault: every poll beyond the  *)
(* committed ones and the one being processed is paid for by one.           *)
RedeliveryNeedsFault == polls <= committed + faults + InFlight

(* The committed offset moves one message at a time and never back, even    *)
(* when a member that lost the partition finishes its message late.         *)
OffsetMovesByOne == [][committed' \in {committed, committed + 1}]_vars

(* README "a stage does not get stuck forever on one message": malformed    *)
(* and hopeless messages included, the whole partition is processed.        *)
PartitionDrains == <>(committed = N)

Promise == INSTANCE AtLeastOnce
             WITH settled <- {o \in 1..N : Settled(o)}, acked <- committed

(* The workers implement the at-least-once promise. *)
ImplementsPromise == Promise!Spec

(* worker.py "the current order gives at-least-once": every committed       *)
(* message's outcome is really in Kafka.  Refused records break it.         *)
NoLostWork == \A o \in 1..committed : HasOutcome(o, delivered)
=============================================================================
