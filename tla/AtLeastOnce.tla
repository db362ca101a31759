---------------------------- MODULE AtLeastOnce ----------------------------
(* What a pipeline stage promises about one input partition                *)
(* (worker.py docstring, README "Guarantees and pitfalls"): the committed  *)
(* offset passes a message only after the message has been settled, that   *)
(* is, after its outcome (the next stage's message, or a DLQ record) has    *)
(* left the worker, and messages are settled in the order of the log.       *)
EXTENDS Naturals

CONSTANT N            \* messages in the partition, numbered 1..N

VARIABLES settled,    \* the offsets whose outcome has left the worker
          acked       \* the committed offset: 1..acked will not come again

vars == <<settled, acked>>

Init == settled = {} /\ acked = 0

(* The outcome of the first unacknowledged message leaves the worker. *)
Settle == /\ acked < N
          /\ settled' = settled \union {acked + 1}
          /\ UNCHANGED acked

(* Only a settled message is acknowledged, one at a time. *)
Acknowledge == /\ acked + 1 \in settled
               /\ acked' = acked + 1
               /\ UNCHANGED settled

Next == Settle \/ Acknowledge

Spec == Init /\ [][Next]_vars
=============================================================================
