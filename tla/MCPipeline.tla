----------------------------- MODULE MCPipeline -----------------------------
(* Instances of Pipeline for TLC.                                            *)
EXTENDS Pipeline

CONSTANTS q1, q2, u1, u2, d1, c1

(* A second fetch worker adds nothing: its handler is one transaction.       *)
MCWorkers == {<<"fetch", 1>>} \union ({"chunk", "embed"} \X {1, 2})

(* STAGES: chunk has two attempts, embed one.  A fetch attempt is a single   *)
(* transaction, so one stands for its three.                                 *)
MCMaxAttempts == [fetch |-> 1, chunk |-> 2, embed |-> 1]

(* Two requests reach one text (two batches of chunks) through two urls, the *)
(* second one forces a reindex of it.                                        *)
MCUrlOf   == [q \in Requests |-> IF q = q2 THEN u2 ELSE u1]
MCDocOf   == [q \in Requests |-> d1]
MCForceOf == [q \in Requests |-> q = q2]
MCFaults == [takeover |-> 1, stop |-> 1]
MCBatches == [d \in Docs |-> 2]
MCOneColl == [q \in Requests |-> c1]
=============================================================================
