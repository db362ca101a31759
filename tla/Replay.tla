------------------------------- MODULE Replay -------------------------------
(* The dead letter queue: _replay of src/kafka_service/__main__.py, run by   *)
(* operators who may start it twice, next to the stages that get the         *)
(* messages back and may fail on them again.                                 *)
EXTENDS Naturals, Sequences

CONSTANTS
  Messages,
  Kind,       \* Kind[m]: "good" or "bad" (the stage succeeds, or fails again),
              \*   "empty" (no raw body) or "garbled" (the body is no JSON object)
  Partitions, \* of index.dlq (admin.py); the records are keyed like the messages
  PartOf,     \* PartOf[m]: the partition of m's key
  Dead,       \* Dead[p]: the messages in p at the start, in order
  Operators, NoOperator,
  Limit,      \* --limit
  MaxFaults   \* bound on crashes, rebalances, broker errors, stage failures

SetOf(s) == {s[i] : i \in DOMAIN s}

ASSUME PartOfAssumption == PartOf \in [Messages -> Partitions]
ASSUME DeadAssumption ==
  /\ Dead \in [Partitions -> Seq(Messages)]
  /\ \A p \in Partitions : \A i \in DOMAIN Dead[p] : PartOf[Dead[p][i]] = p
ASSUME LimitAssumption == Limit \in Nat \ {0} /\ MaxFaults \in Nat
ASSUME OperatorsAssumption == NoOperator \notin Operators

VARIABLES
  fresh,   \* messages not sent yet
  dlq,     \* dlq[p]: partition p of index.dlq from the group's offset on
  source,  \* the topics the messages failed on
  done,    \* messages a stage has handled in the end
  passed,  \* messages without a body that the offset has passed
  lost,    \* messages the broker refused (history variable)
  owner,   \* owner[p]: the run that reads p
  run,     \* run[o]: where the run of o is, its record, how many it put back
  faults

vars == <<fresh, dlq, source, done, passed, lost, owner, run, faults>>

Off     == [at |-> "off"]
Run     == [at : {"poll", "send", "commit"}, part : Partitions \union {"none"},
            msg : Messages \union {"none"}, n : 0..Limit]
Raw(m)  == Kind[m] # "empty"
Letters == UNION {SetOf(dlq[p]) : p \in Partitions}

TypeOK ==
  /\ fresh \subseteq Messages
  /\ dlq \in [Partitions -> Seq(Messages)] /\ source \in Seq(Messages)
  /\ done \subseteq Messages /\ passed \subseteq Messages /\ lost \subseteq Messages
  /\ owner \in [Partitions -> Operators \union {NoOperator}]
  /\ run \in [Operators -> Run \union {Off}]
  /\ faults \in 0..MaxFaults

Init ==
  /\ dlq = Dead /\ source = <<>>
  /\ fresh = Messages \ Letters
  /\ done = {} /\ passed = {} /\ lost = {}
  /\ owner = [p \in Partitions |-> NoOperator] /\ run = [o \in Operators |-> Off]
  /\ faults = 0

Fault   == faults < MaxFaults /\ faults' = faults + 1
NoFault == UNCHANGED faults

topics == <<fresh, dlq, source, done, passed, lost>>

Working(o)  == run[o] # Off
Polling(o)  == Working(o) /\ run[o].at = "poll"
Sending(o)  == Working(o) /\ run[o].at = "send"
Closing(o)  == Working(o) /\ run[o].at = "commit"
(* o still has the partition of the record in its hands. *)
Holds(o)    == owner[run[o].part] = o

(* The run of o waits for a record, having put back k. *)
Waits(o, k) == run' = [run EXCEPT ![o] = [at |-> "poll", part |-> "none", msg |-> "none", n |-> k]]
(* It commits the record in its hands next. *)
Closes(o)   == run' = [run EXCEPT ![o].at = "commit"]

------------------------------------------------------------------------------
(* The consumer group of the runs. *)

(* A run joins and gets what nobody reads. *)
Launch(o) ==
  /\ ~Working(o) /\ Waits(o, 0)
  /\ owner' = [p \in Partitions |-> IF owner[p] = NoOperator THEN o ELSE owner[p]]
  /\ UNCHANGED <<topics, faults>>

Assign(o) ==
  /\ Polling(o)
  /\ \E p \in Partitions : owner[p] = NoOperator /\ owner' = [owner EXCEPT ![p] = o]
  /\ UNCHANGED <<topics, run, faults>>

(* A rebalance: p goes to o.  A run that is too slow with a record to answer *)
(* it loses all it has.                                                      *)
TakeOver(o, p) ==
  /\ Polling(o) /\ owner[p] \notin {NoOperator, o} /\ Fault
  /\ owner' = [q \in Partitions |->
                 IF q = p THEN o
                 ELSE IF owner[q] = owner[p] /\ ~Polling(owner[p]) THEN NoOperator ELSE owner[q]]
  /\ UNCHANGED <<topics, run>>

(* consumer.close() in the finally block, or the death of the process. *)
Leave(o) ==
  /\ run' = [run EXCEPT ![o] = Off]
  /\ owner' = [p \in Partitions |-> IF owner[p] = o THEN NoOperator ELSE owner[p]]

Crash(o) == Working(o) /\ Leave(o) /\ Fault /\ UNCHANGED topics

------------------------------------------------------------------------------
(* _replay. *)

(* The head of any partition that o reads may be the next record. *)
NextRecord(o, p) == owner[p] = o /\ dlq[p] # <<>>

Takes(o, p, k) ==
  LET m == Head(dlq[p])
  IN /\ Kind[m] # "garbled"
     /\ run' = [run EXCEPT ![o] = [at |-> IF Raw(m) THEN "send" ELSE "commit",
                                   part |-> p, msg |-> m, n |-> k]]
     /\ UNCHANGED <<topics, owner, faults>>

(* DEFECT: the limit counts records that were skipped only. *)
PollNoLimit(o) ==
  Polling(o) /\ \E p \in Partitions : NextRecord(o, p) /\ Takes(o, p, 0)

(* The next record: without a body it is only committed. *)
Poll(o) ==
  /\ Polling(o) /\ run[o].n < Limit
  /\ \E p \in Partitions : NextRecord(o, p) /\ Takes(o, p, run[o].n)

(* json.loads, or what follows, raises on a body that is no JSON object: the *)
(* run ends there, with all its partitions.                                  *)
PollGarbled(o) ==
  /\ Polling(o) /\ run[o].n < Limit
  /\ \E p \in Partitions : NextRecord(o, p) /\ Kind[Head(dlq[p])] = "garbled"
  /\ Leave(o)
  /\ UNCHANGED <<topics, faults>>

(* The limit is reached, or poll(5.0) returns nothing: the run has read what *)
(* it has, or the broker is slow.                                            *)
Finish(o) ==
  /\ Polling(o)
  /\ IF run[o].n = Limit \/ \A p \in Partitions : ~NextRecord(o, p) THEN NoFault ELSE Fault
  /\ Leave(o)
  /\ UNCHANGED topics

(* DEFECT: the record is put back into a topic that nobody reads. *)
PutBackElsewhere(o) ==
  /\ Sending(o) /\ Closes(o)
  /\ UNCHANGED <<topics, owner, faults>>

(* send_raw and flush_or_raise: the message is back in the topic it failed on. *)
PutBack(o) ==
  /\ Sending(o) /\ Closes(o)
  /\ source' = Append(source, run[o].msg)
  /\ UNCHANGED <<fresh, dlq, done, passed, lost, owner, faults>>

(* DEFECT: flush() instead of flush_or_raise(). *)
PutBackUnchecked(o) ==
  /\ Sending(o) /\ Fault /\ Closes(o)
  /\ UNCHANGED <<topics, owner>>

(* flush times out; the flush in the finally block may still deliver. *)
PutBackFails(o) ==
  /\ Sending(o) /\ Fault
  /\ source' \in {source, Append(source, run[o].msg)}
  /\ Leave(o)
  /\ UNCHANGED <<fresh, dlq, done, passed, lost>>

(* The broker refuses the message; _on_delivery logs it, flush returns 0. *)
PutBackRefused(o) ==
  /\ Sending(o) /\ Fault /\ Closes(o)
  /\ lost' = lost \union {run[o].msg}
  /\ UNCHANGED <<fresh, dlq, source, done, passed, owner>>

(* What the commit of o's record does to its partition. *)
OffsetMoves(o) ==
  /\ dlq' = [dlq EXCEPT ![run[o].part] = Tail(@)]
  /\ passed' = IF Raw(run[o].msg) THEN passed ELSE passed \union {run[o].msg}

(* The commit; a run that lost the partition ends with an exception. *)
Commit(o) ==
  /\ Closing(o)
  /\ IF Holds(o)
       THEN /\ OffsetMoves(o)
            /\ Waits(o, IF Raw(run[o].msg) THEN run[o].n + 1 ELSE run[o].n)
            /\ UNCHANGED owner
       ELSE Leave(o) /\ UNCHANGED <<dlq, passed>>
  /\ UNCHANGED <<fresh, source, done, lost, faults>>

(* The commit fails or times out, in which case the broker may have it. *)
CommitFails(o) ==
  /\ Closing(o) /\ Holds(o) /\ Fault
  /\ OffsetMoves(o) \/ UNCHANGED <<dlq, passed>>
  /\ Leave(o)
  /\ UNCHANGED <<fresh, source, done, lost>>

------------------------------------------------------------------------------
(* The stages, as StageWorker and Pipeline show them. *)

(* _to_dlq *)
ToDlq(m) == dlq' = [dlq EXCEPT ![PartOf[m]] = Append(@, m)]

StageSucceeds ==
  /\ source # <<>> /\ Kind[Head(source)] = "good"
  /\ source' = Tail(source) /\ done' = done \union {Head(source)}
  /\ UNCHANGED <<fresh, dlq, passed, lost, owner, run, faults>>

StageFails ==
  /\ source # <<>>
  /\ \/ Kind[Head(source)] = "bad" /\ NoFault
     \/ Kind[Head(source)] = "good" /\ Fault
  /\ source' = Tail(source) /\ ToDlq(Head(source))
  /\ UNCHANGED <<fresh, done, passed, lost, owner, run>>

(* A message reaches its stage for the first time; a malformed one is sent   *)
(* to the DLQ at once, where its body stays for good.                        *)
Arrives(m) ==
  /\ m \in fresh /\ fresh' = fresh \ {m}
  /\ IF Kind[m] \in {"good", "bad"}
       THEN source' = Append(source, m) /\ UNCHANGED dlq
       ELSE ToDlq(m) /\ UNCHANGED source
  /\ UNCHANGED <<done, passed, lost, owner, run, faults>>

------------------------------------------------------------------------------
Step(o) == \/ Poll(o) \/ PollGarbled(o) \/ PutBack(o) \/ Commit(o)
           \/ (Finish(o) /\ NoFault)

Idle == \A o \in Operators : ~Working(o)
Quiet == Idle /\ Letters = {} /\ source = <<>> /\ UNCHANGED vars

Next == \/ \E o \in Operators : \/ Step(o) \/ Launch(o) \/ Assign(o) \/ Crash(o) \/ Finish(o)
                                \/ PutBackFails(o) \/ PutBackRefused(o) \/ CommitFails(o)
                                \/ \E p \in Partitions : TakeOver(o, p)
        \/ StageSucceeds \/ StageFails
        \/ \E m \in Messages : Arrives(m)
        \/ Quiet

Spec == Init /\ [][Next]_vars

(* A run that was started goes on, and so do coordinator and stages. *)
FairSpec == /\ Spec /\ WF_vars(StageSucceeds \/ StageFails)
            /\ \A o \in Operators : WF_vars(Step(o)) /\ WF_vars(Assign(o))

(* Operators run the command again and again. *)
PersistentSpec == FairSpec /\ \A o \in Operators : WF_vars(Launch(o))

------------------------------------------------------------------------------
(* "returns messages to the topic they failed on": no letter disappears,     *)
(* whatever run crashes or loses the partition: it is in index.dlq, in the   *)
(* topic it came from, or handled, unless it has no body or the broker       *)
(* refused it.                                                              *)
LettersConserved ==
  \A m \in Messages \ fresh : m \in Letters \union SetOf(source) \union done \union lost \union passed

(* A run ends although the stages may hand it the same letter over and over *)
(* again (--limit).                                                         *)
RunEnds == \A o \in Operators : Working(o) ~> ~Working(o)

(* A run has put the letter back and not committed it yet. *)
PutBackOpen(m) ==
  \E o \in Operators : Closing(o) /\ Holds(o) /\ run[o].msg = m /\ Raw(m)

(* Nothing in front of m in its partition ends the run that reads it. *)
Reachable(m) ==
  \E i \in DOMAIN dlq[PartOf[m]] :
    dlq[PartOf[m]][i] = m /\ \A j \in 1..i : Kind[dlq[PartOf[m]][j]] # "garbled"

(* A letter of another partition can use up every run that could reach m:    *)
(* a garbled one ends it, one that fails each time spends its limit.         *)
Starved(m) ==
  \E x \in Messages :
    /\ PartOf[x] # PartOf[m]
    /\ \/ Kind[x] = "garbled" /\ x \in Letters
       \/ Kind[x] = "bad" /\ x \in Letters \union SetOf(source)

(* A letter with a body and with no garbled one in front of it goes back to  *)
(* the topic it failed on, whatever is behind it in its partition and how-   *)
(* ever often letters before it come back, as long as no other partition     *)
(* has a letter on which the runs are spent.                                 *)
ReachableLettersPutBack ==
  \A m \in Messages :
    (Kind[m] \in {"good", "bad"} /\ ~PutBackOpen(m) /\ Reachable(m))
      ~> m \in SetOf(source) \union done \union lost \/ Starved(m)
=============================================================================
