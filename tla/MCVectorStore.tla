---------------------------- MODULE MCVectorStore ----------------------------
(* The constants of the runs of VectorStore. *)
EXTENDS VectorStore

(* Two documents that meet a new collection, one of them forced afterwards. *)
MCRequests == [d1 |-> <<"plain", "forced">>, d2 |-> <<"plain">>]
=============================================================================
