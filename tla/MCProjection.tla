---------------------------- MODULE MCProjection ----------------------------
(* The constants of the runs of Projection.                                 *)
EXTENDS Projection
=============================================================================
