------------------------------ MODULE MCReplay ------------------------------
(* The constants of the run of Replay: every kind of letter, in two of the   *)
(* six partitions.  A message that fails each time comes in behind the good  *)
(* one, and a garbled one in the other partition, each at any time or never. *)
EXTENDS Replay

MCKind   == [bad |-> "bad", empty |-> "empty", good |-> "good", garbled |-> "garbled"]
MCPartOf == [bad |-> 1, empty |-> 1, good |-> 1, garbled |-> 2]
MCDead   == <<<<"empty", "good">>, <<>>>>
=============================================================================
