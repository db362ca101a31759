------------------------------ MODULE MCSearch ------------------------------
(* The constants of the run of Search: three points, all strict orders and   *)
(* one score with a tie.                                                    *)
EXTENDS Search

MCScores == {s \in [Points -> 0..2] : IsInjective(s)} \union {[p \in Points |-> 1]}
=============================================================================
