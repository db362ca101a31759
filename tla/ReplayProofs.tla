---------------------------- MODULE ReplayProofs ----------------------------
(* Theorems about Replay, for any letters and partitions, any number of     *)
(* operators, limits and faults.                                            *)
EXTENDS Replay, TLAPS

USE PartOfAssumption, LimitAssumption, OperatorsAssumption

(* The run has a record in its hands. *)
Busy(o) == Sending(o) \/ Closing(o)

(* The messages whose key belongs to p, where those of p are, and where they *)
(* are apart from the record at the head of p.                               *)
At(p)     == {m \in Messages : PartOf[m] = p}
Places(p) == SetOf(dlq[p]) \union SetOf(source) \union done \union lost \union passed
Behind(p) == SetOf(Tail(dlq[p])) \union SetOf(source) \union done \union lost

(* A letter is in the partition of its key. *)
Placed == \A p \in Partitions : dlq[p] \in Seq(At(p))

(* Who reads a partition is up. *)
OwnersUp == \A p \in Partitions : \A o \in Operators : owner[p] = o => Working(o)

(* A run counts the letters it has put back and stops at the limit. *)
InHand ==
  \A o \in Operators : Busy(o) =>
    run[o].part \in Partitions /\ run[o].msg \in Messages /\ run[o].n < Limit

(* What a run has in its hands is the head of its partition, as long as it   *)
(* has the partition.                                                        *)
HoldsHead ==
  \A o \in Operators : Busy(o) /\ Holds(o) =>
    dlq[run[o].part] # <<>> /\ Head(dlq[run[o].part]) = run[o].msg

(* Before the offset passes a letter with a body, it is somewhere else too. *)
Covered(o) == run[o].msg \in Behind(run[o].part)
BackBeforeCommit ==
  \A o \in Operators : Closing(o) /\ Holds(o) /\ Raw(run[o].msg) => Covered(o)

(* LettersConserved, with the partition in which a letter is. *)
Kept == \A m \in Messages \ fresh : m \in Places(PartOf[m])

(* The inductive invariant.  Kept is not inductive: what a commit takes from *)
(* the DLQ depends on what the run has put back, and on no other run having  *)
(* the same partition.                                                       *)
IInv == TypeOK /\ Placed /\ OwnersUp /\ InHand /\ HoldsHead /\ BackBeforeCommit /\ Kept

------------------------------------------------------------------------------
(* Sequences. *)

LEMMA AppendSet ==
  ASSUME NEW S, NEW s \in Seq(S), NEW x \in S
  PROVE  /\ Append(s, x) \in Seq(S) /\ SetOf(Append(s, x)) = SetOf(s) \union {x}
         /\ s # <<>> => /\ Head(Append(s, x)) = Head(s)
                        /\ Tail(Append(s, x)) = Append(Tail(s), x)
BY DEF SetOf

LEMMA TailSet ==
  ASSUME NEW S, NEW s \in Seq(S), s # <<>>
  PROVE  /\ Tail(s) \in Seq(S) /\ Head(s) \in S
         /\ SetOf(s) = {Head(s)} \union SetOf(Tail(s))
<1>1. /\ Tail(s) \in Seq(S) /\ Head(s) \in S /\ Head(s) = s[1]
      /\ Len(s) \in Nat \ {0} /\ Len(Tail(s)) = Len(s) - 1
      /\ DOMAIN s = 1..Len(s) /\ DOMAIN Tail(s) = 1..Len(Tail(s))
  OBVIOUS
<1>2. \A j \in 1..Len(Tail(s)) : Tail(s)[j] = s[j + 1]
  BY <1>1
<1>3. SetOf(Tail(s)) \subseteq SetOf(s)
  BY <1>1, <1>2 DEF SetOf
<1>4. Head(s) \in SetOf(s)
  BY <1>1 DEF SetOf
<1>5. ASSUME NEW x \in SetOf(s), x # Head(s) PROVE x \in SetOf(Tail(s))
  <2>1. PICK i \in 1..Len(s) : s[i] = x
    BY <1>1, <1>5 DEF SetOf
  <2>2. i # 1
    BY <1>1, <1>5, <2>1
  <2>3. i - 1 \in 1..Len(Tail(s)) /\ (i - 1) + 1 = i
    BY <1>1, <2>2
  <2>4. Tail(s)[i - 1] = x
    BY <1>2, <2>1, <2>3
  <2> QED BY <1>1, <2>3, <2>4 DEF SetOf
<1> QED BY <1>1, <1>3, <1>4, <1>5

LEMMA AppendToTail ==
  ASSUME NEW S, NEW s \in Seq(S), s # <<>>, NEW x \in S
  PROVE  SetOf(Tail(Append(s, x))) = SetOf(Tail(s)) \union {x}
<1> DEFINE t == Tail(s)
<1>1. t \in Seq(S) /\ Tail(Append(s, x)) = Append(t, x)
  BY TailSet, AppendSet
<1> HIDE DEF t
<1>2. SetOf(Append(t, x)) = SetOf(t) \union {x}
  BY <1>1, AppendSet
<1> QED BY <1>1, <1>2 DEF t

LEMMA AppendNotEmpty ==
  ASSUME NEW S, NEW s \in Seq(S), NEW x \in S PROVE Append(s, x) # <<>>
<1>1. Len(Append(s, x)) # 0
  OBVIOUS
<1>2. Len(<<>>) = 0
  OBVIOUS
<1> QED BY <1>1, <1>2, Zenon

------------------------------------------------------------------------------
(* What the actions have in common. *)

(* The record of a run that is up has its fields. *)
LEMMA WorkingRun ==
  ASSUME TypeOK, NEW o \in Operators, Working(o)
  PROVE  run[o] \in Run
BY DEF TypeOK, Working

(* The run of o becomes r, the others stay where they are. *)
Becomes(o, r) == run' = [run EXCEPT ![o] = r]

LEMMA RunAfter ==
  ASSUME TypeOK, NEW o \in Operators, NEW r \in Run \union {Off}, Becomes(o, r)
  PROVE  /\ run' \in [Operators -> Run \union {Off}] /\ run'[o] = r
         /\ \A x \in Operators : x # o => run'[x] = run[x]
BY DEF TypeOK, Becomes

(* Nobody takes a record, and who has one takes no partition. *)
NobodyTakes ==
  \A x \in Operators : Busy(x)' =>
    run'[x] = run[x] /\ (owner'[run[x].part] = x => owner[run[x].part] = x)

(* The head of each partition stays, and of what else there is nothing goes. *)
TopicsGrow ==
  \A p \in Partitions : dlq[p] # <<>> =>
    dlq'[p] # <<>> /\ Head(dlq'[p]) = Head(dlq[p]) /\ At(p) \intersect Behind(p) \subseteq Behind(p)'

LEMMA Preserved ==
  ASSUME IInv, TypeOK', Placed', OwnersUp', Kept', NobodyTakes, TopicsGrow
  PROVE  IInv'
<1> USE DEF IInv
<1>1. ASSUME NEW o \in Operators, Busy(o)' PROVE Busy(o) /\ run'[o] = run[o] /\ run[o].part \in Partitions
  <2>1. run'[o] = run[o]
    BY <1>1 DEF NobodyTakes
  <2>2. Busy(o)
    BY <1>1, <2>1 DEF Busy, Sending, Closing, Working
  <2> QED BY <2>1, <2>2 DEF InHand
<1>2. InHand'
  <2>1. SUFFICES ASSUME NEW o \in Operators, Busy(o)'
                 PROVE  run'[o].part \in Partitions /\ run'[o].msg \in Messages /\ run'[o].n < Limit
    BY DEF InHand
  <2> QED BY <1>1, <2>1 DEF InHand
<1>3. HoldsHead'
  <2>1. SUFFICES ASSUME NEW o \in Operators, Busy(o)', owner'[run'[o].part] = o
                 PROVE  dlq'[run'[o].part] # <<>> /\ Head(dlq'[run'[o].part]) = run'[o].msg
    BY DEF HoldsHead, Holds
  <2>2. Busy(o) /\ Holds(o) /\ run'[o] = run[o] /\ run[o].part \in Partitions
    BY <1>1, <2>1 DEF NobodyTakes, Holds
  <2> QED BY <2>2 DEF HoldsHead, TopicsGrow
<1>4. BackBeforeCommit'
  <2>1. SUFFICES ASSUME NEW o \in Operators, Closing(o)', owner'[run'[o].part] = o, Raw(run'[o].msg)
                 PROVE  Covered(o)'
    BY DEF BackBeforeCommit, Holds, Raw
  <2>2. Busy(o)'
    BY <2>1 DEF Busy
  <2>3. Busy(o) /\ Holds(o) /\ run'[o] = run[o] /\ run[o].part \in Partitions
    BY <1>1, <2>1, <2>2 DEF NobodyTakes, Holds
  <2>4. Closing(o)
    BY <2>1, <2>3 DEF Closing, Working
  <2> DEFINE p == run[o].part
             m == run[o].msg
  <2>5. m \in Behind(p) /\ dlq[p] # <<>> /\ Head(dlq[p]) = m
    BY <2>1, <2>3, <2>4 DEF BackBeforeCommit, HoldsHead, Covered
  <2>6. m \in At(p)
    <3>1. dlq[p] \in Seq(At(p)) /\ dlq[p] # <<>>
      BY <2>3, <2>5 DEF Placed
    <3> QED BY <3>1, <2>5, TailSet
  <2>7. m \in Behind(p)'
    BY <2>3, <2>5, <2>6 DEF TopicsGrow
  <2> QED BY <2>3, <2>7 DEF Covered, Behind
<1> QED BY <1>2, <1>3, <1>4

(* The DLQ stays, and what is elsewhere stays or grows. *)
LEMMA TopicsStay ==
  ASSUME IInv, UNCHANGED <<fresh, dlq, done, passed>>,
         SetOf(source) \union lost \subseteq SetOf(source') \union lost'
  PROVE  Placed' /\ Kept' /\ TopicsGrow
<1> USE DEF IInv
<1>1. Placed'
  BY DEF Placed, At
<1>2. Kept'
  BY DEF Kept, Places, SetOf
<1>3. TopicsGrow
  <2>1. \A p \in Partitions : SetOf(Tail(dlq'[p])) = SetOf(Tail(dlq[p]))
    OBVIOUS
  <2> QED BY <2>1 DEF TopicsGrow, Behind
<1> QED BY <1>1, <1>2, <1>3

(* A run that ends disturbs nothing but its own state. *)
LEMMA LeaveInductive ==
  ASSUME IInv, NEW o \in Operators, Leave(o), UNCHANGED <<fresh, dlq, done, passed, lost>>,
         source' \in Seq(Messages), SetOf(source) \subseteq SetOf(source'),
         faults' \in 0..MaxFaults
  PROVE  IInv'
<1> USE DEF IInv
<1>1. Becomes(o, Off) /\ owner' = [p \in Partitions |-> IF owner[p] = o THEN NoOperator ELSE owner[p]]
  BY DEF Leave, Becomes
<1>2. /\ run' \in [Operators -> Run \union {Off}] /\ run'[o] = Off
      /\ \A x \in Operators : x # o => run'[x] = run[x]
  BY <1>1, RunAfter
<1>3. TypeOK'
  BY <1>1, <1>2 DEF TypeOK
<1>4. OwnersUp'
  BY <1>1, <1>2 DEF OwnersUp, Working
<1>5. NobodyTakes
  <2>1. SUFFICES ASSUME NEW x \in Operators, Busy(x)'
                 PROVE  run'[x] = run[x] /\ (owner'[run[x].part] = x => owner[run[x].part] = x)
    BY DEF NobodyTakes
  <2>2. x # o /\ run'[x] = run[x]
    BY <1>2, <2>1 DEF Busy, Sending, Closing, Working
  <2>3. Busy(x) /\ run[x].part \in Partitions
    BY <2>1, <2>2 DEF Busy, Sending, Closing, Working, InHand
  <2> QED BY <1>1, <2>2, <2>3
<1> QED BY <1>3, <1>4, <1>5, TopicsStay, Preserved

(* Partitions go to runs that wait for a record, or to nobody. *)
LEMMA OwnersInductive ==
  ASSUME IInv, UNCHANGED <<topics, run>>, faults' \in 0..MaxFaults,
         owner' \in [Partitions -> Operators \union {NoOperator}],
         \A p \in Partitions : \/ owner'[p] = owner[p] \/ owner'[p] = NoOperator
                               \/ \E o \in Operators : owner'[p] = o /\ Polling(o)
  PROVE  IInv'
<1> USE DEF IInv
<1>1. TypeOK'
  BY DEF TypeOK, topics
<1>2. OwnersUp'
  BY DEF OwnersUp, Working, Polling
<1>3. NobodyTakes
  <2>1. SUFFICES ASSUME NEW x \in Operators, Busy(x)'
                 PROVE  run'[x] = run[x] /\ (owner'[run[x].part] = x => owner[run[x].part] = x)
    BY DEF NobodyTakes
  <2>2. Busy(x) /\ ~Polling(x) /\ run[x].part \in Partitions
    BY <2>1 DEF Busy, Sending, Closing, Polling, Working, InHand
  <2> QED BY <2>2
<1> QED BY <1>1, <1>2, <1>3, TopicsStay, Preserved DEF topics, SetOf

(* The run of o becomes r, which has the head of a partition of o in hand.   *)
(* Unless it is the record of the run already, o was waiting.                *)
LEMMA TakesInductive ==
  ASSUME IInv, NEW o \in Operators, NEW r \in Run, Becomes(o, r), UNCHANGED owner,
         TypeOK', Placed', Kept', TopicsGrow,
         r.part \in Partitions, r.msg \in Messages, r.n < Limit,
         owner[r.part] = o => dlq'[r.part] # <<>> /\ Head(dlq'[r.part]) = r.msg,
         owner[r.part] = o /\ r.at = "commit" /\ Raw(r.msg) => Covered(o)'
  PROVE  IInv'
<1> USE DEF IInv
<1>1. /\ run'[o] = r /\ r # Off
      /\ \A x \in Operators : x # o => run'[x] = run[x]
  BY RunAfter DEF Run, Off
<1>2. ASSUME NEW x \in Operators, x # o, Busy(x)'
      PROVE  run'[x] = run[x] /\ Busy(x) /\ run[x].part \in Partitions
  BY <1>1, <1>2 DEF Busy, Sending, Closing, Working, InHand
<1>3. OwnersUp'
  BY <1>1 DEF OwnersUp, Working
<1>4. InHand'
  <2>1. SUFFICES ASSUME NEW x \in Operators, Busy(x)'
                 PROVE  run'[x].part \in Partitions /\ run'[x].msg \in Messages /\ run'[x].n < Limit
    BY DEF InHand
  <2> QED BY <1>1, <1>2, <2>1 DEF InHand
<1>5. HoldsHead'
  <2>1. SUFFICES ASSUME NEW x \in Operators, Busy(x)', owner[run'[x].part] = x
                 PROVE  dlq'[run'[x].part] # <<>> /\ Head(dlq'[run'[x].part]) = run'[x].msg
    BY DEF HoldsHead, Holds
  <2>2. CASE x = o
    BY <1>1, <2>1, <2>2
  <2>3. CASE x # o
    BY <1>2, <2>1, <2>3 DEF HoldsHead, Holds, TopicsGrow
  <2> QED BY <2>2, <2>3
<1>6. BackBeforeCommit'
  <2>1. SUFFICES ASSUME NEW x \in Operators, Closing(x)', owner[run'[x].part] = x, Raw(run'[x].msg)
                 PROVE  Covered(x)'
    BY DEF BackBeforeCommit, Holds, Raw
  <2>2. CASE x = o
    BY <1>1, <2>1, <2>2 DEF Closing
  <2>3. CASE x # o
    <3>1. /\ run'[x] = run[x] /\ Busy(x) /\ Holds(x) /\ Closing(x)
          /\ run[x].part \in Partitions
      BY <1>2, <2>1, <2>3 DEF Busy, Closing, Holds, Working
    <3>2. /\ run[x].msg \in Behind(run[x].part) /\ dlq[run[x].part] # <<>>
          /\ Head(dlq[run[x].part]) = run[x].msg
      BY <2>1, <3>1 DEF BackBeforeCommit, HoldsHead, Covered
    <3>3. run[x].msg \in At(run[x].part)
      BY <3>1, <3>2, TailSet DEF Placed
    <3>4. run[x].msg \in Behind(run[x].part)'
      BY <3>1, <3>2, <3>3 DEF TopicsGrow
    <3> QED BY <3>1, <3>4 DEF Covered, Behind
  <2> QED BY <2>2, <2>3
<1> QED BY <1>3, <1>4, <1>5, <1>6

(* The committed record leaves its partition, no letter is lost by it, and   *)
(* no other run sees the partition move: o is the one who has it.            *)
LEMMA OffsetInductive ==
  ASSUME IInv, NEW o \in Operators, Closing(o), Holds(o), OffsetMoves(o),
         UNCHANGED <<fresh, source, done, lost>>, faults' \in 0..MaxFaults,
         NEW r \in Run \union {Off}, r.at \notin {"send", "commit"}, Becomes(o, r),
         owner' \in [Partitions -> Operators \union {NoOperator}],
         \A p \in Partitions : owner'[p] = owner[p] \/ owner'[p] = NoOperator,
         r = Off => \A p \in Partitions : owner'[p] # o
  PROVE  IInv'
<1> USE DEF IInv
<1> DEFINE q == run[o].part
           m == run[o].msg
<1>1. q \in Partitions /\ owner[q] = o /\ dlq[q] # <<>> /\ Head(dlq[q]) = m /\ dlq[q] \in Seq(At(q))
  BY DEF Busy, Holds, HoldsHead, InHand, Placed
<1>2. /\ dlq' = [dlq EXCEPT ![q] = Tail(@)]
      /\ passed' = IF Raw(m) THEN passed ELSE passed \union {m}
  BY DEF OffsetMoves
<1>3. Raw(m) => m \in Behind(q)
  BY DEF BackBeforeCommit, Covered
<1> HIDE DEF q, m
<1>4. /\ dlq'[q] = Tail(dlq[q])
      /\ \A p \in Partitions : p # q => dlq'[p] = dlq[p]
      /\ dlq' = [p \in Partitions |-> dlq'[p]]
  BY <1>1, <1>2 DEF TypeOK
<1>5. /\ Tail(dlq[q]) \in Seq(At(q)) /\ m \in At(q)
      /\ SetOf(dlq[q]) = {m} \union SetOf(Tail(dlq[q]))
  BY <1>1, TailSet
<1>6. /\ run' \in [Operators -> Run \union {Off}] /\ run'[o] = r
      /\ \A x \in Operators : x # o => run'[x] = run[x]
  BY RunAfter
<1>7. Placed'
  BY <1>4, <1>5 DEF Placed, At
<1>8. TypeOK'
  <2>1. \A p \in Partitions : dlq'[p] \in Seq(Messages)
    <3>1. Tail(dlq[q]) \in Seq(Messages)
      BY <1>1, TailSet DEF TypeOK
    <3> QED BY <1>4, <3>1 DEF TypeOK
  <2>2. dlq' \in [Partitions -> Seq(Messages)]
    BY <1>4, <2>1
  <2>3. passed' \subseteq Messages
    BY <1>2, <1>5 DEF TypeOK, At
  <2> QED BY <1>6, <2>2, <2>3 DEF TypeOK
<1>9. OwnersUp'
  <2>1. SUFFICES ASSUME NEW p \in Partitions, NEW x \in Operators, owner'[p] = x PROVE run'[x] # Off
    BY DEF OwnersUp, Working
  <2>2. owner[p] = x /\ run[x] # Off
    BY <2>1 DEF OwnersUp, Working
  <2> QED BY <1>6, <2>1, <2>2
<1>10. Kept'
  <2>1. SUFFICES ASSUME NEW x \in Messages \ fresh PROVE x \in Places(PartOf[x])'
    BY DEF Kept
  <2>2. x \in Places(PartOf[x])
    BY <2>1 DEF Kept
  <2>3. passed \subseteq passed'
    BY <1>2
  <2>4. CASE PartOf[x] = q
    <3>1. x # m => x \in SetOf(Tail(dlq[q])) \union SetOf(source) \union done \union lost \union passed
      BY <1>5, <2>2, <2>4 DEF Places
    <3>2. m \in SetOf(Tail(dlq[q])) \union SetOf(source) \union done \union lost \union passed'
      BY <1>2, <1>3 DEF Behind
    <3>3. x \in SetOf(Tail(dlq[q])) \union SetOf(source) \union done \union lost \union passed'
      BY <2>3, <3>1, <3>2
    <3>4. dlq'[PartOf[x]] = Tail(dlq[q])
      BY <1>4, <2>4
    <3> QED BY <3>3, <3>4 DEF Places
  <2>5. CASE PartOf[x] # q
    <3>1. dlq'[PartOf[x]] = dlq[PartOf[x]]
      BY <1>4, <2>1, <2>5
    <3> QED BY <2>2, <2>3, <3>1 DEF Places
  <2> QED BY <2>4, <2>5
<1>11. ASSUME NEW x \in Operators, Busy(x)'
       PROVE  run'[x] = run[x] /\ Busy(x) /\ run[x].part \in Partitions
  <2>1. x # o
    BY <1>6, <1>11 DEF Busy, Sending, Closing
  <2> QED BY <1>6, <1>11, <2>1 DEF Busy, Sending, Closing, Working, InHand
<1>12. ASSUME NEW x \in Operators, Busy(x)', owner'[run'[x].part] = x
       PROVE  Holds(x) /\ dlq'[run[x].part] = dlq[run[x].part]
  <2>1. x # o
    BY <1>6, <1>12 DEF Busy, Sending, Closing
  <2>2. run'[x] = run[x] /\ run[x].part \in Partitions
    BY <1>11, <1>12
  <2>3. owner[run[x].part] = x
    BY <1>12, <2>2
  <2>4. run[x].part # q
    BY <1>1, <2>1, <2>3
  <2> QED BY <1>4, <2>2, <2>3, <2>4 DEF Holds
<1>13. InHand'
  <2>1. SUFFICES ASSUME NEW x \in Operators, Busy(x)'
                 PROVE  run'[x].part \in Partitions /\ run'[x].msg \in Messages /\ run'[x].n < Limit
    BY DEF InHand
  <2> QED BY <1>11, <2>1 DEF InHand
<1>14. HoldsHead'
  <2>1. SUFFICES ASSUME NEW x \in Operators, Busy(x)', owner'[run'[x].part] = x
                 PROVE  dlq'[run'[x].part] # <<>> /\ Head(dlq'[run'[x].part]) = run'[x].msg
    BY DEF HoldsHead, Holds
  <2> QED BY <1>11, <1>12, <2>1 DEF HoldsHead
<1>15. BackBeforeCommit'
  <2>1. SUFFICES ASSUME NEW x \in Operators, Closing(x)', owner'[run'[x].part] = x, Raw(run'[x].msg)
                 PROVE  Covered(x)'
    BY DEF BackBeforeCommit, Holds, Raw
  <2>2. Busy(x)'
    BY <2>1 DEF Busy
  <2>3. /\ run'[x] = run[x] /\ Holds(x) /\ dlq'[run[x].part] = dlq[run[x].part]
    BY <1>11, <1>12, <2>1, <2>2
  <2>4. Closing(x)
    BY <2>1, <2>3 DEF Closing, Working
  <2>5. run[x].msg \in Behind(run[x].part)
    BY <2>1, <2>3, <2>4 DEF BackBeforeCommit, Covered
  <2> QED BY <2>3, <2>5 DEF Covered, Behind
<1> QED BY <1>7, <1>8, <1>9, <1>10, <1>13, <1>14, <1>15

(* A letter comes in behind those of its partition. *)
LEMMA LetterJoins ==
  ASSUME TypeOK, Placed, NEW m \in Messages, ToDlq(m)
  PROVE  /\ dlq' \in [Partitions -> Seq(Messages)] /\ Placed'
         /\ SetOf(dlq'[PartOf[m]]) = SetOf(dlq[PartOf[m]]) \union {m}
         /\ \A p \in Partitions : p # PartOf[m] => dlq'[p] = dlq[p]
         /\ \A p \in Partitions : dlq[p] # <<>> =>
              /\ dlq'[p] # <<>> /\ Head(dlq'[p]) = Head(dlq[p])
              /\ SetOf(Tail(dlq[p])) \subseteq SetOf(Tail(dlq'[p]))
              /\ p = PartOf[m] => m \in SetOf(Tail(dlq'[p]))
<1> DEFINE q == PartOf[m]
<1>1. /\ q \in Partitions /\ m \in At(q) /\ dlq[q] \in Seq(At(q)) /\ dlq[q] \in Seq(Messages)
  BY DEF At, Placed, TypeOK
<1>2. dlq' = [dlq EXCEPT ![q] = Append(@, m)]
  BY DEF ToDlq
<1> HIDE DEF q
<1>3. /\ dlq'[q] = Append(dlq[q], m)
      /\ \A p \in Partitions : p # q => dlq'[p] = dlq[p]
      /\ dlq' = [p \in Partitions |-> dlq'[p]]
  BY <1>1, <1>2 DEF TypeOK
<1>4. /\ Append(dlq[q], m) \in Seq(At(q)) /\ Append(dlq[q], m) \in Seq(Messages)
      /\ SetOf(Append(dlq[q], m)) = SetOf(dlq[q]) \union {m}
      /\ dlq[q] # <<>> => Head(Append(dlq[q], m)) = Head(dlq[q])
  BY <1>1, AppendSet
<1>5. Append(dlq[q], m) # <<>>
  BY <1>1, AppendNotEmpty
<1>6. dlq[q] # <<>> => SetOf(Tail(Append(dlq[q], m))) = SetOf(Tail(dlq[q])) \union {m}
  BY <1>1, AppendToTail
<1>7. dlq' \in [Partitions -> Seq(Messages)]
  <2>1. \A p \in Partitions : dlq'[p] \in Seq(Messages)
    BY <1>3, <1>4 DEF TypeOK
  <2> QED BY <1>3, <2>1
<1>8. Placed'
  BY <1>3, <1>4 DEF Placed, At
<1>9. SetOf(dlq'[q]) = SetOf(dlq[q]) \union {m}
  BY <1>3, <1>4
<1>10. ASSUME NEW p \in Partitions, dlq[p] # <<>>
       PROVE  /\ dlq'[p] # <<>> /\ Head(dlq'[p]) = Head(dlq[p])
              /\ SetOf(Tail(dlq[p])) \subseteq SetOf(Tail(dlq'[p]))
              /\ p = q => m \in SetOf(Tail(dlq'[p]))
  <2>1. CASE p = q
    BY <1>3, <1>4, <1>5, <1>6, <1>10, <2>1
  <2>2. CASE p # q
    BY <1>3, <1>10, <2>2
  <2> QED BY <2>1, <2>2
<1> QED BY <1>3, <1>7, <1>8, <1>9, <1>10 DEF q

------------------------------------------------------------------------------
LEMMA InitInductive == Init => IInv
<1> SUFFICES ASSUME Init PROVE IInv
  OBVIOUS
<1>1. /\ dlq = Dead /\ source = <<>> /\ fresh = Messages \ Letters
      /\ done = {} /\ passed = {} /\ lost = {} /\ faults = 0
      /\ owner = [p \in Partitions |-> NoOperator] /\ run = [o \in Operators |-> Off]
  BY DEF Init
<1>2. ASSUME NEW p \in Partitions
      PROVE  /\ dlq[p] \in Seq(Messages)
             /\ \A i \in DOMAIN dlq[p] : PartOf[dlq[p][i]] = p
  BY <1>1, <1>2, DeadAssumption
<1>3. TypeOK
  BY <1>1, DeadAssumption DEF TypeOK
<1>4. Placed
  <2>1. SUFFICES ASSUME NEW p \in Partitions PROVE dlq[p] \in Seq(At(p))
    BY DEF Placed
  <2>2. \A i \in 1..Len(dlq[p]) : dlq[p][i] \in At(p)
    BY <1>2 DEF At
  <2> QED BY <1>2, <2>2
<1>5. OwnersUp
  BY <1>1 DEF OwnersUp
<1>6. InHand /\ HoldsHead /\ BackBeforeCommit
  BY <1>1 DEF InHand, HoldsHead, BackBeforeCommit, Busy, Sending, Closing, Working
<1>7. Kept
  <2>1. SUFFICES ASSUME NEW m \in Messages \ fresh PROVE m \in Places(PartOf[m])
    BY DEF Kept
  <2>2. PICK p \in Partitions : m \in SetOf(dlq[p])
    BY <1>1, <2>1 DEF Letters
  <2>3. PartOf[m] = p
    BY <1>2, <2>2 DEF SetOf
  <2> QED BY <2>2, <2>3 DEF Places
<1> QED BY <1>3, <1>4, <1>5, <1>6, <1>7 DEF IInv

LEMMA LaunchInductive ==
  ASSUME IInv, NEW o \in Operators, Launch(o) PROVE IInv'
<1> USE DEF IInv
<1> DEFINE r == [at |-> "poll", part |-> "none", msg |-> "none", n |-> 0]
<1>1. /\ run[o] = Off /\ Becomes(o, r) /\ UNCHANGED <<topics, faults>>
      /\ owner' = [p \in Partitions |-> IF owner[p] = NoOperator THEN o ELSE owner[p]]
  BY DEF Launch, Waits, Becomes, Working
<1>2. r \in Run /\ r.at = "poll" /\ r # Off
  BY DEF Run, Off
<1>3. /\ run' \in [Operators -> Run \union {Off}] /\ run'[o] = r
      /\ \A x \in Operators : x # o => run'[x] = run[x]
  BY <1>1, <1>2, RunAfter
<1>4. TypeOK'
  BY <1>1, <1>3 DEF TypeOK, topics
<1>5. OwnersUp'
  BY <1>1, <1>2, <1>3 DEF OwnersUp, Working
<1>6. NobodyTakes
  <2>1. SUFFICES ASSUME NEW x \in Operators, Busy(x)'
                 PROVE  run'[x] = run[x] /\ (owner'[run[x].part] = x => owner[run[x].part] = x)
    BY DEF NobodyTakes
  <2>2. x # o /\ run'[x] = run[x]
    BY <1>2, <1>3, <2>1 DEF Busy, Sending, Closing
  <2>3. Busy(x) /\ run[x].part \in Partitions
    BY <2>1, <2>2 DEF Busy, Sending, Closing, Working, InHand
  <2> QED BY <1>1, <2>2, <2>3
<1>7. Placed' /\ Kept' /\ TopicsGrow
  BY <1>1, TopicsStay DEF topics
<1> QED BY <1>4, <1>5, <1>6, <1>7, Preserved

LEMMA RebalanceInductive ==
  ASSUME IInv, NEW o \in Operators, Assign(o) \/ \E p \in Partitions : TakeOver(o, p)
  PROVE  IInv'
<1> USE DEF IInv
<1>1. CASE Assign(o)
  <2>1. PICK q \in Partitions : owner' = [owner EXCEPT ![q] = o]
    BY <1>1 DEF Assign
  <2>2. Polling(o) /\ UNCHANGED <<topics, run, faults>>
    BY <1>1 DEF Assign
  <2>3. owner' \in [Partitions -> Operators \union {NoOperator}]
    BY <2>1 DEF TypeOK
  <2>4. \A p \in Partitions : owner'[p] = owner[p] \/ (owner'[p] = o /\ Polling(o))
    BY <2>1, <2>2 DEF TypeOK
  <2> QED BY <2>2, <2>3, <2>4, OwnersInductive DEF TypeOK
<1>2. ASSUME NEW q \in Partitions, TakeOver(o, q) PROVE IInv'
  <2>1. /\ owner' = [p \in Partitions |->
                       IF p = q THEN o
                       ELSE IF owner[p] = owner[q] /\ ~Polling(owner[q]) THEN NoOperator ELSE owner[p]]
        /\ Polling(o) /\ UNCHANGED <<topics, run>> /\ faults' \in 0..MaxFaults
    BY <1>2 DEF TakeOver, Fault, TypeOK
  <2>2. owner' \in [Partitions -> Operators \union {NoOperator}]
    BY <2>1 DEF TypeOK
  <2>3. \A p \in Partitions : \/ owner'[p] = owner[p] \/ owner'[p] = NoOperator
                              \/ owner'[p] = o /\ Polling(o)
    BY <2>1
  <2> QED BY <2>1, <2>2, <2>3, OwnersInductive
<1> QED BY <1>1, <1>2

LEMMA PollInductive ==
  ASSUME IInv, NEW o \in Operators, Poll(o) PROVE IInv'
<1> USE DEF IInv
<1>1. PICK p \in Partitions : NextRecord(o, p) /\ Takes(o, p, run[o].n)
  BY DEF Poll
<1> DEFINE m == Head(dlq[p])
           r == [at |-> IF Raw(m) THEN "send" ELSE "commit", part |-> p, msg |-> m, n |-> run[o].n]
<1>2. /\ Working(o) /\ run[o].n < Limit /\ owner[p] = o /\ dlq[p] # <<>>
      /\ Becomes(o, r) /\ UNCHANGED <<topics, owner, faults>>
  BY <1>1 DEF Poll, Polling, NextRecord, Takes, Becomes
<1>3. run[o] \in Run /\ m \in Messages
  BY <1>2, WorkingRun, TailSet DEF TypeOK
<1>4. r \in Run
  BY <1>3 DEF Run
<1>5. run' \in [Operators -> Run \union {Off}]
  BY <1>2, <1>4, RunAfter
<1>6. TypeOK'
  BY <1>2, <1>5 DEF TypeOK, topics
<1>7. Placed' /\ Kept' /\ TopicsGrow
  BY <1>2, TopicsStay DEF topics
<1>8. dlq'[r.part] # <<>> /\ Head(dlq'[r.part]) = r.msg
  BY <1>2 DEF topics
<1>9. ~(r.at = "commit" /\ Raw(r.msg))
  OBVIOUS
<1>10. r.part \in Partitions /\ r.msg \in Messages /\ r.n < Limit
  BY <1>2, <1>3
<1> HIDE DEF r
<1> QED BY <1>2, <1>4, <1>6, <1>7, <1>8, <1>9, <1>10, TakesInductive

LEMMA PutBackInductive ==
  ASSUME IInv, NEW o \in Operators, PutBack(o) \/ PutBackRefused(o) PROVE IInv'
<1> USE DEF IInv
<1> DEFINE r == [run[o] EXCEPT !.at = "commit"]
<1>1. /\ Working(o) /\ run[o].at = "send" /\ run' = [run EXCEPT ![o].at = "commit"]
      /\ UNCHANGED <<fresh, dlq, done, passed, owner>>
      /\ faults' \in 0..MaxFaults
  BY DEF PutBack, PutBackRefused, Sending, Closes, Fault, TypeOK
<1>2. run[o] \in Run /\ run[o].part \in Partitions /\ run[o].msg \in Messages /\ run[o].n < Limit
  BY <1>1, WorkingRun DEF InHand, Busy, Sending
<1>3. /\ r \in Run /\ r.at = "commit" /\ r.part = run[o].part /\ r.msg = run[o].msg
      /\ r.n = run[o].n
  BY <1>2 DEF Run
<1>4. Becomes(o, r)
  BY <1>1 DEF Becomes
<1> HIDE DEF r
<1>5. run' \in [Operators -> Run \union {Off}] /\ run'[o] = r
  BY <1>3, <1>4, RunAfter
<1>6. /\ source' \in Seq(Messages) /\ lost' \subseteq Messages
      /\ SetOf(source) \union lost \union {run[o].msg} = SetOf(source') \union lost'
  <2>1. CASE PutBack(o)
    <3>1. source' = Append(source, run[o].msg) /\ lost' = lost
      BY <2>1 DEF PutBack
    <3> QED BY <1>2, <3>1, AppendSet DEF TypeOK
  <2>2. CASE PutBackRefused(o)
    BY <2>2, <1>2 DEF PutBackRefused, TypeOK
  <2> QED BY <2>1, <2>2
<1>7. TypeOK'
  BY <1>1, <1>5, <1>6 DEF TypeOK
<1>8. Placed' /\ Kept' /\ TopicsGrow
  BY <1>1, <1>6, TopicsStay
<1>9. owner[r.part] = o => dlq'[r.part] # <<>> /\ Head(dlq'[r.part]) = r.msg
  BY <1>1, <1>3 DEF HoldsHead, Holds, Busy, Sending
<1>10. Covered(o)'
  BY <1>3, <1>5, <1>6 DEF Covered, Behind
<1> QED BY <1>1, <1>2, <1>3, <1>4, <1>7, <1>8, <1>9, <1>10, TakesInductive

LEMMA CommitInductive ==
  ASSUME IInv, NEW o \in Operators, Commit(o) PROVE IInv'
<1> USE DEF IInv
<1>0. /\ Closing(o) /\ run[o] \in Run /\ run[o].n < Limit
      /\ UNCHANGED <<fresh, source, done, lost, faults>> /\ faults' \in 0..MaxFaults
  BY WorkingRun DEF Commit, Closing, InHand, Busy, TypeOK
<1>1. CASE Holds(o)
  <2> DEFINE r == [at |-> "poll", part |-> "none", msg |-> "none",
                   n |-> IF Raw(run[o].msg) THEN run[o].n + 1 ELSE run[o].n]
  <2>1. OffsetMoves(o) /\ Becomes(o, r) /\ owner' = owner
    BY <1>1 DEF Commit, Waits, Becomes
  <2>2. r \in Run /\ r # Off /\ r.at = "poll"
    BY <1>0 DEF Run, Off
  <2> HIDE DEF r
  <2>3. owner' \in [Partitions -> Operators \union {NoOperator}]
    BY <2>1 DEF TypeOK
  <2>4. \A p \in Partitions : owner'[p] = owner[p]
    BY <2>1
  <2> QED BY <1>0, <1>1, <2>1, <2>2, <2>3, <2>4, OffsetInductive
<1>2. CASE ~Holds(o)
  <2>1. Leave(o) /\ UNCHANGED <<dlq, passed>>
    BY <1>2 DEF Commit
  <2>2. source' \in Seq(Messages) /\ SetOf(source) \subseteq SetOf(source')
    BY <1>0 DEF TypeOK
  <2> QED BY <1>0, <2>1, <2>2, LeaveInductive
<1> QED BY <1>1, <1>2

LEMMA CommitFailsInductive ==
  ASSUME IInv, NEW o \in Operators, CommitFails(o) PROVE IInv'
<1> USE DEF IInv
<1>1. /\ Closing(o) /\ Holds(o) /\ Leave(o) /\ faults' \in 0..MaxFaults
      /\ UNCHANGED <<fresh, source, done, lost>>
      /\ OffsetMoves(o) \/ UNCHANGED <<dlq, passed>>
  BY DEF CommitFails, Fault, TypeOK
<1>2. CASE UNCHANGED <<dlq, passed>>
  <2>1. source' \in Seq(Messages) /\ SetOf(source) \subseteq SetOf(source')
    BY <1>1 DEF TypeOK
  <2> QED BY <1>1, <1>2, <2>1, LeaveInductive
<1>3. CASE OffsetMoves(o)
  <2>1. Becomes(o, Off) /\ owner' = [p \in Partitions |-> IF owner[p] = o THEN NoOperator ELSE owner[p]]
    BY <1>1 DEF Leave, Becomes
  <2>2. /\ owner' \in [Partitions -> Operators \union {NoOperator}]
        /\ \A p \in Partitions : owner'[p] = owner[p] \/ owner'[p] = NoOperator
        /\ \A p \in Partitions : owner'[p] # o
    BY <2>1 DEF TypeOK
  <2>3. Off \in Run \union {Off} /\ Off.at \notin {"send", "commit"}
    BY DEF Off
  <2> QED BY <1>1, <1>3, <2>1, <2>2, <2>3, OffsetInductive
<1> QED BY <1>1, <1>2, <1>3

(* The topics move, the runs do not: what leaves one of them is somewhere    *)
(* else.                                                                     *)
LEMMA TopicsInductive ==
  ASSUME IInv, UNCHANGED <<owner, run>>, TypeOK', Placed', Kept', TopicsGrow
  PROVE  IInv'
<1> USE DEF IInv
<1>1. OwnersUp'
  BY DEF OwnersUp, Working
<1>2. NobodyTakes
  BY DEF NobodyTakes
<1> QED BY <1>1, <1>2, Preserved

LEMMA StageSucceedsInductive ==
  ASSUME IInv, StageSucceeds PROVE IInv'
<1> USE DEF IInv
<1>1. /\ source # <<>> /\ source' = Tail(source) /\ done' = done \union {Head(source)}
      /\ UNCHANGED <<fresh, dlq, passed, lost, owner, run, faults>>
  BY DEF StageSucceeds
<1>2. /\ Tail(source) \in Seq(Messages) /\ Head(source) \in Messages
      /\ SetOf(source) = {Head(source)} \union SetOf(Tail(source))
  BY <1>1, TailSet DEF TypeOK
<1>3. SetOf(source) \union done = SetOf(source') \union done'
  BY <1>1, <1>2
<1>4. TypeOK'
  BY <1>1, <1>2 DEF TypeOK
<1>5. Placed'
  BY <1>1 DEF Placed, At
<1>6. Kept'
  BY <1>1, <1>3 DEF Kept, Places
<1>7. TopicsGrow
  BY <1>1, <1>3 DEF TopicsGrow, Behind
<1> QED BY <1>1, <1>4, <1>5, <1>6, <1>7, TopicsInductive

LEMMA StageFailsInductive ==
  ASSUME IInv, StageFails PROVE IInv'
<1> USE DEF IInv
<1> DEFINE m == Head(source)
<1>1. /\ source # <<>> /\ source' = Tail(source) /\ ToDlq(m)
      /\ UNCHANGED <<fresh, done, passed, lost, owner, run>> /\ faults' \in 0..MaxFaults
  BY DEF StageFails, Fault, NoFault, TypeOK
<1>2. /\ Tail(source) \in Seq(Messages) /\ m \in Messages
      /\ SetOf(source) = {m} \union SetOf(Tail(source))
  BY <1>1, TailSet DEF TypeOK
<1> HIDE DEF m
<1>3. /\ dlq' \in [Partitions -> Seq(Messages)] /\ Placed'
      /\ SetOf(dlq'[PartOf[m]]) = SetOf(dlq[PartOf[m]]) \union {m}
      /\ \A p \in Partitions : p # PartOf[m] => dlq'[p] = dlq[p]
      /\ \A p \in Partitions : dlq[p] # <<>> =>
           /\ dlq'[p] # <<>> /\ Head(dlq'[p]) = Head(dlq[p])
           /\ SetOf(Tail(dlq[p])) \subseteq SetOf(Tail(dlq'[p]))
           /\ p = PartOf[m] => m \in SetOf(Tail(dlq'[p]))
  BY <1>1, <1>2, LetterJoins
<1>4. TypeOK'
  BY <1>1, <1>2, <1>3 DEF TypeOK
<1>5. SetOf(source) = {m} \union SetOf(source')
  BY <1>1, <1>2
<1>6. Kept'
  <2>1. SUFFICES ASSUME NEW x \in Messages \ fresh PROVE x \in Places(PartOf[x])'
    BY <1>1 DEF Kept
  <2>2. x \in Places(PartOf[x])
    BY DEF Kept
  <2>3. SetOf(dlq[PartOf[x]]) \subseteq SetOf(dlq'[PartOf[x]])
    BY <1>3, <2>1
  <2> QED BY <1>1, <1>3, <1>5, <2>2, <2>3 DEF Places
<1>7. TopicsGrow
  <2>1. SUFFICES ASSUME NEW p \in Partitions, dlq[p] # <<>>, NEW x \in At(p), x \in Behind(p)
                 PROVE  x \in Behind(p)'
    BY <1>3 DEF TopicsGrow
  <2>2. PartOf[x] = p
    BY DEF At
  <2> QED BY <1>1, <1>3, <1>5, <2>1, <2>2 DEF Behind
<1> QED BY <1>1, <1>3, <1>4, <1>6, <1>7, TopicsInductive

LEMMA ArrivesInductive ==
  ASSUME IInv, NEW m \in Messages, Arrives(m) PROVE IInv'
<1> USE DEF IInv
<1>1. /\ fresh' = fresh \ {m} /\ UNCHANGED <<done, passed, lost, owner, run, faults>>
      /\ \/ source' = Append(source, m) /\ UNCHANGED dlq
         \/ ToDlq(m) /\ UNCHANGED source
  BY DEF Arrives
<1>2. CASE source' = Append(source, m) /\ UNCHANGED dlq
  <2>1. source' \in Seq(Messages) /\ SetOf(source') = SetOf(source) \union {m}
    BY <1>2, AppendSet DEF TypeOK
  <2>2. TypeOK'
    BY <1>1, <1>2, <2>1 DEF TypeOK
  <2>3. Placed'
    BY <1>2 DEF Placed, At
  <2>4. Kept'
    BY <1>1, <1>2, <2>1 DEF Kept, Places
  <2>5. TopicsGrow
    BY <1>1, <1>2, <2>1 DEF TopicsGrow, Behind
  <2> QED BY <1>1, <2>2, <2>3, <2>4, <2>5, TopicsInductive
<1>3. CASE ToDlq(m) /\ UNCHANGED source
  <2>1. /\ dlq' \in [Partitions -> Seq(Messages)] /\ Placed'
        /\ SetOf(dlq'[PartOf[m]]) = SetOf(dlq[PartOf[m]]) \union {m}
        /\ \A p \in Partitions : p # PartOf[m] => dlq'[p] = dlq[p]
        /\ \A p \in Partitions : dlq[p] # <<>> =>
             /\ dlq'[p] # <<>> /\ Head(dlq'[p]) = Head(dlq[p])
             /\ SetOf(Tail(dlq[p])) \subseteq SetOf(Tail(dlq'[p]))
    BY <1>3, LetterJoins
  <2>2. TypeOK'
    BY <1>1, <1>3, <2>1 DEF TypeOK
  <2>3. Kept'
    <3>1. SUFFICES ASSUME NEW x \in Messages \ fresh' PROVE x \in Places(PartOf[x])'
      BY DEF Kept
    <3>2. x = m \/ x \in Places(PartOf[x])
      BY <1>1 DEF Kept
    <3>3. SetOf(dlq[PartOf[x]]) \subseteq SetOf(dlq'[PartOf[x]])
      BY <2>1, <3>1
    <3> QED BY <1>1, <1>3, <2>1, <3>2, <3>3 DEF Places
  <2>4. TopicsGrow
    BY <1>1, <1>3, <2>1 DEF TopicsGrow, Behind
  <2> QED BY <1>1, <2>1, <2>2, <2>3, <2>4, TopicsInductive
<1> QED BY <1>1, <1>2, <1>3

LEMMA RunEndsInductive ==
  ASSUME IInv, NEW o \in Operators,
         Crash(o) \/ PollGarbled(o) \/ Finish(o) \/ PutBackFails(o)
  PROVE  IInv'
<1> USE DEF IInv
<1>1. Leave(o) /\ UNCHANGED <<fresh, dlq, done, passed, lost>> /\ faults' \in 0..MaxFaults
  BY DEF Crash, PollGarbled, Finish, PutBackFails, topics, Fault, NoFault, TypeOK
<1>2. source' \in Seq(Messages) /\ SetOf(source) \subseteq SetOf(source')
  <2>1. CASE source' = source
    BY <2>1 DEF TypeOK
  <2>2. CASE PutBackFails(o) /\ source' = Append(source, run[o].msg)
    <3>1. run[o].msg \in Messages
      BY <2>2 DEF PutBackFails, InHand, Busy
    <3> QED BY <2>2, <3>1, AppendSet DEF TypeOK
  <2> QED BY <2>1, <2>2 DEF Crash, PollGarbled, Finish, PutBackFails, topics
<1> QED BY <1>1, <1>2, LeaveInductive

LEMMA StepInductive == IInv /\ [Next]_vars => IInv'
<1>1. ASSUME IInv, NEW o \in Operators,
             \/ Step(o) \/ Launch(o) \/ Assign(o) \/ Crash(o) \/ Finish(o)
             \/ PutBackFails(o) \/ PutBackRefused(o) \/ CommitFails(o)
             \/ \E p \in Partitions : TakeOver(o, p)
      PROVE  IInv'
  BY <1>1, LaunchInductive, RebalanceInductive, PollInductive, PutBackInductive,
     CommitInductive, CommitFailsInductive, RunEndsInductive DEF Step
<1>2. ASSUME IInv, UNCHANGED vars PROVE IInv'
  <2>1. UNCHANGED <<fresh, dlq, source, done, passed, lost, owner, run, faults>>
    BY <1>2 DEF vars
  <2>2. TypeOK' /\ Placed' /\ Kept' /\ TopicsGrow
    BY <1>2, <2>1 DEF IInv, TypeOK, Placed, At, Kept, Places, TopicsGrow, Behind
  <2> QED BY <1>2, <2>1, <2>2, TopicsInductive
<1> QED BY <1>1, <1>2, StageSucceedsInductive, StageFailsInductive, ArrivesInductive
       DEF Next, Quiet

------------------------------------------------------------------------------
(* The invariant holds in every behaviour. *)
THEOREM Inductive == Spec => []IInv
BY InitInductive, StepInductive, PTL DEF Spec

(* Every state of a replay is of its type: a run never counts beyond --limit. *)
THEOREM TypeCorrect == Spec => []TypeOK
<1>1. IInv => TypeOK
  BY DEF IInv
<1> QED BY <1>1, Inductive, PTL

(* No dead letter with a body disappears, for any partitions, any number of  *)
(* operators that replay at once, any limit and any faults: a run puts a      *)
(* message back before it commits it, and the offset of a partition moves     *)
(* over nothing but the record that its one owner has in hand.                *)
THEOREM LettersKept == Spec => []LettersConserved
<1>1. IInv => LettersConserved
  <2>1. SUFFICES ASSUME IInv, NEW m \in Messages \ fresh
                 PROVE  m \in Letters \union SetOf(source) \union done \union lost \union passed
    BY DEF LettersConserved
  <2>2. m \in Places(PartOf[m]) /\ PartOf[m] \in Partitions
    BY <2>1 DEF IInv, Kept
  <2> QED BY <2>2 DEF Places, Letters
<1> QED BY <1>1, Inductive, PTL
=============================================================================
