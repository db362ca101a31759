--------------------------- MODULE MCStageWorker ---------------------------
(* Two workers on a partition of three messages, the last one malformed;    *)
(* two attempts per message, two faults.                                    *)
EXTENDS StageWorker

MCMalformed == {N}
=============================================================================
