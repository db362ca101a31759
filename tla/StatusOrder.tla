---------------------------- MODULE StatusOrder ----------------------------
(* The order of request statuses: src/kafka_service/events.py.              *)
EXTENDS Integers

Progress == {"pending", "fetched", "chunked", "indexed"}
Statuses == Progress \union {"skipped", "failed"}

TERMINAL_STATUSES == {"indexed", "skipped", "failed"}

STATUS_RANK == [pending |-> 0, fetched |-> 1, chunked |-> 2, indexed |-> 3]

(* STATUS_RANK.get(status, -1) *)
RankOf(status) == IF status \in Progress THEN STATUS_RANK[status] ELSE -1

is_final(status) == status \in TERMINAL_STATUSES

(* DEFECT: whatever arrives last wins. *)
supersedes_always(old, new) == TRUE

(* Whether the request status moves from old to new. *)
supersedes(old, new) ==
  \/ old = "failed"
  \/ is_final(new)
  \/ RankOf(new) > RankOf(old)
=============================================================================
