----------------------------- MODULE AtomicSave -----------------------------
(* What save_text promises its callers: one document per text, found or      *)
(* created in a single step, however many workers save the text at once.     *)
EXTENDS Naturals

CONSTANTS Workers, Ids

VARIABLES
  doc,     \* the document of the text, 0 if there is none
  used,    \* the ids of all documents there ever were
  result   \* result[w]: of the last call of w

vars == <<doc, used, result>>

NoResult == [how |-> "none", id |-> 0]

Init == doc = 0 /\ used = {} /\ result = [w \in Workers |-> NoResult]

Returns(w, r) == result' = [result EXCEPT ![w] = r]

Call(w) == Returns(w, NoResult) /\ UNCHANGED <<doc, used>>

Find(w) ==
  /\ doc # 0 /\ result[w] = NoResult
  /\ Returns(w, [how |-> "found", id |-> doc])
  /\ UNCHANGED <<doc, used>>

Create(w) ==
  /\ doc = 0 /\ result[w] = NoResult
  /\ doc' \in Ids \ used /\ used' = used \union {doc'}
  /\ Returns(w, [how |-> "new", id |-> doc'])

Raise(w) == Returns(w, [how |-> "error", id |-> 0]) /\ UNCHANGED <<doc, used>>

Delete == doc # 0 /\ doc' = 0 /\ UNCHANGED <<used, result>>

Next == \/ \E w \in Workers : Call(w) \/ Find(w) \/ Create(w) \/ Raise(w)
        \/ Delete

Spec == Init /\ [][Next]_vars
=============================================================================
