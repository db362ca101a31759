--------------------------- MODULE AsyncioProofs ---------------------------
(* Theorems about the asyncio side of the system: the status stream          *)
(* (WsStream), for any number of events, clients, limits and faults, and the *)
(* processes and POST /index (Api), for any set of requests and any number   *)
(* of outages.                                                               *)
EXTENDS WsStream, Api, FunctionTheorems, FiniteSetTheorems, SequenceTheorems, TLAPS

USE LimitsAssumption

------------------------------------------------------------------------------
(* The inductive invariant of the stream.                                    *)

(* In the order of the topic, one partition at a time; with it, none twice. *)
InOrder(s) ==
  \A i, j \in DOMAIN s : i < j /\ SamePartition(s[i], s[j]) => s[i] < s[j]

(* The events the pump may still receive. *)
Coming == unread \union (published + 1)..N

(* The events the pump has received and the dispatcher still replays. *)
Passed == (1..published) \ (unread \union gap \union faded)

Ahead(e, s) == \A f \in SetOf(s) : SamePartition(e, f) => f < e

(* Events the pump received: in order, and in front of those to come. *)
Received(s, coming) == InOrder(s) /\ \A e \in coming : Ahead(e, s)

(* What was recorded or seen is never ahead of an event that is missing. *)
NotBehind(seen, others) ==
  \A f \in SetOf(seen), e \in others : SamePartition(e, f) /\ e < f => e \in SetOf(seen)

RowInOrder == InOrder(history) /\ NotBehind(history, Events)

BufferInOrder == Received(buffer, Coming) /\ Passed \subseteq SetOf(buffer)

(* The events of a connection that are on their way to the client. *)
Waiting(k) == IF k.pending = 0 THEN k.queue ELSE <<k.pending>> \o k.queue

(* The ids a connection remembers are those of what the client has.         *)
SeenIsSent(k, s) ==
  /\ k.at # "live" => k.pending = 0
  /\ k.at = "loading"  => k.seen = <<>>
  /\ k.at = "snapshot" => k.seen = k.snap
  /\ k.at = "live"     => k.seen = s

(* A connection k with s sent and l lost: what comes is in order, what the   *)
(* client has is not ahead of it, and nothing is missing.                   *)
Following(k, s, l, coming, passed) ==
  /\ SeenIsSent(k, s)
  /\ Received(Waiting(k), coming)
  /\ InOrder(k.seen) /\ NotBehind(k.seen, SetOf(Waiting(k)) \union coming)
  /\ passed \subseteq l \union SetOf(Waiting(k)) \union SetOf(k.seen)

ClientServed(c) ==
  /\ InOrder(sent[c])
  /\ conn[c] # Off => Following(conn[c], sent[c], lost[c], Coming, Passed)

(* The inductive invariant.  None of the three properties is inductive: what *)
(* the client will get depends on the queue, the buffer and the row.        *)
IInv == TypeOK /\ RowInOrder /\ BufferInOrder /\ \A c \in Clients : ClientServed(c)
------------------------------------------------------------------------------
(* Sequences of events. *)

LEMMA EventsAreNat == Events \subseteq Nat /\ 0 \notin Events
BY DEF Events

LEMMA InOrderIsDistinct ==
  ASSUME NEW s \in Seq(Events), InOrder(s), NEW i \in DOMAIN s, NEW j \in DOMAIN s, i # j
  PROVE  s[i] # s[j]
<1>1. i \in Nat /\ j \in Nat /\ s[i] \in Nat /\ s[j] \in Nat
  <2>1. i \in 1..Len(s) /\ j \in 1..Len(s) /\ Len(s) \in Nat
    OBVIOUS
  <2>2. s[i] \in Events /\ s[j] \in Events
    BY <2>1
  <2>3. i \in Nat /\ j \in Nat
    BY <2>1
  <2> QED
    BY <2>2, <2>3, EventsAreNat
<1>2. SUFFICES ASSUME s[i] = s[j] PROVE FALSE
  OBVIOUS
<1>3. SamePartition(s[i], s[j]) /\ SamePartition(s[j], s[i])
  BY <1>2 DEF SamePartition
<1>4. CASE i < j
  BY <1>1, <1>2, <1>3, <1>4 DEF InOrder
<1>5. CASE j < i
  BY <1>1, <1>2, <1>3, <1>5 DEF InOrder
<1> QED
  BY <1>1, <1>4, <1>5

(* No more events than there are. *)
LEMMA InOrderIsShort ==
  ASSUME NEW s \in Seq(Events), InOrder(s) PROVE Len(s) <= N
<1>1. IsFiniteSet(1..N) /\ Cardinality(1..N) = N
  BY FS_Interval
<1>2. IsFiniteSet(1..Len(s)) /\ Cardinality(1..Len(s)) = Len(s)
  <2>1. Len(s) \in Int /\ 1 \in Int /\ Len(s) >= 0
    OBVIOUS
  <2>2. IsFiniteSet(1..Len(s)) /\ Cardinality(1..Len(s)) = IF 1 > Len(s) THEN 0 ELSE Len(s) - 1 + 1
    BY <2>1, FS_Interval
  <2> QED
    BY <2>1, <2>2
<1>3. s \in Injection(1..Len(s), Events)
  BY InOrderIsDistinct DEF Injection, IsInjective
<1> QED
  BY <1>1, <1>2, <1>3, FS_Injection DEF Events

LEMMA AppendInOrder ==
  ASSUME NEW s \in Seq(Events), NEW e \in Events, InOrder(s),
         \A f \in SetOf(s) : SamePartition(e, f) => f < e
  PROVE  InOrder(Append(s, e))
<1> DEFINE t == Append(s, e)
<1>1. t \in Seq(Events) /\ Len(t) = Len(s) + 1 /\ t[Len(s) + 1] = e
      /\ \A i \in 1..Len(s) : t[i] = s[i]
  OBVIOUS
<1> SUFFICES ASSUME NEW i \in DOMAIN t, NEW j \in DOMAIN t, i < j, SamePartition(t[i], t[j])
             PROVE  t[i] < t[j]
  BY DEF InOrder
<1>2. i \in 1..Len(s)
  BY <1>1
<1>3. CASE j \in 1..Len(s)
  BY <1>1, <1>2, <1>3 DEF InOrder
<1>4. CASE j = Len(s) + 1
  BY <1>1, <1>2, <1>4 DEF SetOf, SamePartition
<1> QED
  BY <1>1, <1>3, <1>4

LEMMA AppendSet ==
  ASSUME NEW s \in Seq(Events), NEW e \in Events
  PROVE  SetOf(Append(s, e)) = SetOf(s) \union {e}
<1> DEFINE t == Append(s, e)
<1>1. t \in Seq(Events) /\ Len(t) = Len(s) + 1 /\ t[Len(s) + 1] = e
      /\ \A i \in 1..Len(s) : t[i] = s[i]
  OBVIOUS
<1>2. DOMAIN t = DOMAIN s \union {Len(s) + 1} /\ DOMAIN s = 1..Len(s)
  BY <1>1
<1> QED
  BY <1>1, <1>2 DEF SetOf

LEMMA SetType == ASSUME NEW s \in Seq(Events) PROVE SetOf(s) \subseteq Events
BY DEF SetOf

LEMMA EmptyInOrder == InOrder(<<>>) /\ SetOf(<<>>) = {} /\ <<>> \in Seq(Events)
BY DEF InOrder, SetOf

(* A part of a sequence without gaps. *)
LEMMA PartInOrder ==
  ASSUME NEW s \in Seq(Events), NEW t \in Seq(Events), NEW m \in Nat, m + Len(t) <= Len(s),
         \A i \in 1..Len(t) : t[i] = s[m + i]
  PROVE  /\ InOrder(s) => InOrder(t)
         /\ SetOf(t) \subseteq SetOf(s)
<1>1. ASSUME NEW i \in DOMAIN t PROVE m + i \in DOMAIN s /\ t[i] = s[m + i] /\ i \in Nat
  <2>1. i \in 1..Len(t) /\ DOMAIN s = 1..Len(s) /\ Len(t) \in Nat /\ Len(s) \in Nat
    OBVIOUS
  <2>2. m + i \in 1..Len(s)
    BY <2>1
  <2> QED
    BY <2>1, <2>2
<1>2. SetOf(t) \subseteq SetOf(s)
  BY <1>1 DEF SetOf
<1>3. ASSUME InOrder(s), NEW i \in DOMAIN t, NEW j \in DOMAIN t, i < j, SamePartition(t[i], t[j])
      PROVE  t[i] < t[j]
  <2>1. m + i < m + j
    BY <1>1, <1>3
  <2> QED
    BY <1>1, <1>3, <2>1 DEF InOrder
<1> QED
  BY <1>2, <1>3 DEF InOrder

LEMMA LatestPart ==
  ASSUME NEW s \in Seq(Events), NEW n \in Nat \ {0}
  PROVE  /\ Latest(s, n) \in Seq(Events) /\ Len(Latest(s, n)) <= n
         /\ InOrder(s) => InOrder(Latest(s, n))
         /\ SetOf(Latest(s, n)) \subseteq SetOf(s)
         /\ s # <<>> => s[Len(s)] \in SetOf(Latest(s, n))
<1>1. CASE Len(s) <= n
  <2>1. s # <<>> => Len(s) \in DOMAIN s
    OBVIOUS
  <2> QED
    BY <1>1, <2>1 DEF Latest, SetOf
<1>2. CASE Len(s) > n
  <2> DEFINE m == Len(s) - n
             t == Latest(s, n)
  <2>1. m \in Nat /\ t = SubSeq(s, m + 1, Len(s)) /\ \A i \in (m + 1)..Len(s) : s[i] \in Events
    BY <1>2 DEF Latest
  <2>2. t \in Seq(Events) /\ Len(t) = n /\ \A i \in 1..n : t[i] = s[m + i]
    <3>1. m + 1 \in Int /\ Len(s) \in Int /\ m + 1 <= Len(s) /\ Len(s) - (m + 1) + 1 = n
      BY <1>2
    <3>2. \A i \in 1..n : m + 1 + i - 1 = m + i
      BY <2>1
    <3> HIDE DEF m, t
    <3> QED
      BY <2>1, <3>1, <3>2, SubSeqProperties
  <2>3. t[n] = s[Len(s)] /\ n \in DOMAIN t
    <3>1. m + n = Len(s) /\ n \in 1..n
      BY <1>2
    <3> HIDE DEF m, t
    <3>2. DOMAIN t = 1..n
      BY <2>2
    <3> QED
      BY <2>2, <3>1, <3>2
  <2> HIDE DEF m, t
  <2>4. m + Len(t) <= Len(s) /\ \A i \in 1..Len(t) : t[i] = s[m + i]
    BY <2>2 DEF m
  <2>5. (InOrder(s) => InOrder(t)) /\ SetOf(t) \subseteq SetOf(s)
    <3>1. m \in Nat /\ t \in Seq(Events)
      BY <2>1, <2>2
    <3> QED
      BY <2>4, <3>1, PartInOrder
  <2>6. s[Len(s)] \in SetOf(t)
    BY <2>3 DEF SetOf
  <2> QED
    BY <2>2, <2>5, <2>6 DEF t
<1> QED
  BY <1>1, <1>2

(* The row and a connection never forget an event of the stream. *)
LEMMA LatestIsAll ==
  ASSUME NEW s \in Seq(Events), InOrder(s), NEW n, n \in {HISTORY_MAX, SEEN_MAX}
  PROVE  Latest(s, n) = s
BY InOrderIsShort DEF Latest

LEMMA PrefixPart ==
  ASSUME NEW s \in Seq(Events), NEW n \in 0..Len(s)
  PROVE  /\ SubSeq(s, 1, n) \in Seq(Events) /\ Len(SubSeq(s, 1, n)) = n
         /\ InOrder(s) => InOrder(SubSeq(s, 1, n))
         /\ SetOf(SubSeq(s, 1, n)) \subseteq SetOf(s)
<1> DEFINE t == SubSeq(s, 1, n)
<1>1. \A i \in 1..n : s[i] \in Events
  OBVIOUS
<1>2. t \in Seq(Events) /\ Len(t) = n /\ \A i \in 1..n : t[i] = s[0 + i]
  BY <1>1, SubSeqProperties
<1> HIDE DEF t
<1>3. (InOrder(s) => InOrder(t)) /\ SetOf(t) \subseteq SetOf(s)
  <2>1. 0 + Len(t) <= Len(s) /\ 0 \in Nat
    BY <1>2
  <2> QED
    BY <1>2, <2>1, PartInOrder
<1> QED
  BY <1>2, <1>3 DEF t

------------------------------------------------------------------------------
(* What a connection waits for. *)

LEMMA ConnTypes ==
  ASSUME TypeOK, NEW c \in Clients, conn[c] # Off
  PROVE  /\ conn[c] \in Open /\ Len(conn[c].queue) <= QUEUE_MAXSIZE
         /\ Len(conn[c].seen) <= SEEN_MAX
BY DEF TypeOK

LEMMA OffIsNotOpen == ASSUME NEW k \in Open PROVE k # Off
BY DEF Open, Off

LEMMA WaitingType ==
  ASSUME NEW k \in Open
  PROVE  /\ Waiting(k) \in Seq(Events)
         /\ k.pending # 0 => /\ k.pending \in Events
                             /\ Waiting(k) # <<>>
                             /\ Head(Waiting(k)) = k.pending /\ Tail(Waiting(k)) = k.queue
<1>1. k.queue \in Seq(Events) /\ k.pending \in 0..N
  BY DEF Open
<1>2. CASE k.pending = 0
  BY <1>1, <1>2 DEF Waiting
<1>3. CASE k.pending # 0
  <2> DEFINE p == k.pending
             q == k.queue
             t == <<p>> \o q
  <2>1. p \in Events /\ q \in Seq(Events) /\ Waiting(k) = t
    BY <1>1, <1>3 DEF Waiting, Events
  <2> HIDE DEF p, q
  <2>2. t \in Seq(Events) /\ Len(t) = 1 + Len(q) /\ t[1] = p /\ \A i \in 1..Len(q) : t[i + 1] = q[i]
    BY <2>1
  <2>3. t # <<>> /\ Head(t) = p
    BY <2>1, <2>2
  <2>4. Tail(t) = q
    <3>1. Tail(t) \in Seq(Events) /\ Len(Tail(t)) = Len(q) /\ \A i \in 1..Len(q) : Tail(t)[i] = t[i + 1]
      BY <2>2, <2>3, HeadTailProperties
    <3> HIDE DEF t
    <3>2. \A i \in 1..Len(q) : Tail(t)[i] = q[i]
      BY <2>2, <3>1
    <3> QED
      BY <2>1, <3>1, <3>2, SeqEqual
  <2> QED
    BY <2>1, <2>2, <2>3, <2>4 DEF p, q
<1> QED
  BY <1>2, <1>3

LEMMA HeadFirst ==
  ASSUME NEW s \in Seq(Events), s # <<>>, InOrder(s)
  PROVE  /\ Head(s) \in Events /\ Tail(s) \in Seq(Events)
         /\ InOrder(Tail(s)) /\ SetOf(s) = {Head(s)} \union SetOf(Tail(s))
         /\ \A e \in SetOf(Tail(s)) : SamePartition(e, Head(s)) => Head(s) < e
<1>1. /\ Len(s) \in Nat \ {0} /\ DOMAIN s = 1..Len(s) /\ Head(s) = s[1]
      /\ Tail(s) \in Seq(Events) /\ Len(Tail(s)) = Len(s) - 1
      /\ \A i \in 1..(Len(s) - 1) : Tail(s)[i] = s[i + 1]
  BY HeadTailProperties
<1>2. InOrder(Tail(s)) /\ SetOf(Tail(s)) \subseteq SetOf(s)
  <2>1. 1 + Len(Tail(s)) <= Len(s) /\ \A i \in 1..Len(Tail(s)) : Tail(s)[i] = s[1 + i]
    BY <1>1
  <2> QED
    BY <1>1, <2>1, PartInOrder
<1>3. \A i \in DOMAIN s : i # 1 => s[i] \in SetOf(Tail(s))
  <2> SUFFICES ASSUME NEW i \in 1..Len(s), i # 1 PROVE s[i] \in SetOf(Tail(s))
    BY <1>1
  <2>1. i - 1 \in 1..(Len(s) - 1) /\ i - 1 \in DOMAIN Tail(s)
    BY <1>1
  <2>2. Tail(s)[i - 1] = s[i]
    BY <1>1, <2>1
  <2> QED
    BY <2>1, <2>2 DEF SetOf
<1>4. SetOf(s) = {Head(s)} \union SetOf(Tail(s))
  BY <1>1, <1>2, <1>3 DEF SetOf
<1>5. ASSUME NEW e \in SetOf(Tail(s)), SamePartition(e, Head(s)) PROVE Head(s) < e
  <2>1. PICK i \in 1..(Len(s) - 1) : Tail(s)[i] = e
    BY <1>1, <1>5 DEF SetOf
  <2>2. i + 1 \in 1..Len(s) /\ 1 < i + 1 /\ s[i + 1] = e /\ 1 \in 1..Len(s)
    BY <1>1, <2>1
  <2>3. SamePartition(s[1], s[i + 1])
    BY <1>1, <1>5, <2>2 DEF SamePartition
  <2> QED
    BY <1>1, <2>2, <2>3 DEF InOrder
<1> QED
  BY <1>1, <1>2, <1>4, <1>5

(* A part of what was received, while fewer events are to come. *)
LEMMA ReceivedPart ==
  ASSUME NEW s, NEW t, NEW c1, NEW c2, Received(s, c1), c2 \subseteq c1,
         InOrder(s) => InOrder(t), SetOf(t) \subseteq SetOf(s)
  PROVE  Received(t, c2)
BY DEF Received, Ahead

LEMMA ReceivedAppend ==
  ASSUME NEW s \in Seq(Events), NEW c1, NEW c2, NEW e \in Events,
         Received(s, c1), c2 \subseteq c1, e \in c1,
         \A g \in c2 : SamePartition(g, e) => e < g
  PROVE  Received(Append(s, e), c2)
BY AppendInOrder, AppendSet DEF Received, Ahead

(* The pump hands a connection one more event, or nothing happens to it. *)
LEMMA StillFollowing ==
  ASSUME NEW k \in Open, NEW s, NEW l, NEW m, NEW c1, NEW c2, NEW p1, NEW p2,
         Following(k, s, l, c1, p1), c2 \subseteq c1, p2 \subseteq p1, l \subseteq m
  PROVE  Following(k, s, m, c2, p2)
BY DEF Following, Received, Ahead, NotBehind

LEMMA OfferedFollowing ==
  ASSUME NEW k \in Open, NEW s, NEW l, NEW m, NEW c1, NEW c2, NEW p1, NEW p2, NEW e \in Events,
         Following(k, s, l, c1, p1), c2 \subseteq c1, e \in c1, p2 \subseteq p1 \union {e},
         \A g \in c2 : SamePartition(g, e) => e < g,
         l \subseteq m, Len(k.queue) >= QUEUE_MAXSIZE => e \in m
  PROVE  LET k2 == [k EXCEPT !.queue = Offer(@, e)] IN k2 \in Open /\ Following(k2, s, m, c2, p2)
<1> DEFINE k2 == [k EXCEPT !.queue = Offer(@, e)]
<1>1. /\ k2 \in Open /\ k2.queue = Offer(k.queue, e) /\ k2.at = k.at /\ k2.pending = k.pending
      /\ k2.seen = k.seen /\ k2.snap = k.snap
      /\ k.queue \in Seq(Events) /\ k.pending \in 0..N
  <2>1. k.queue \in Seq(Events) /\ k.pending \in 0..N
    BY DEF Open
  <2>2. Offer(k.queue, e) \in Seq(Events)
    BY <2>1 DEF Offer
  <2> QED
    BY <2>1, <2>2 DEF Open
<1> HIDE DEF k2
<1>2. SeenIsSent(k2, s)
  BY <1>1 DEF Following, SeenIsSent
<1>3. CASE Len(k.queue) < QUEUE_MAXSIZE
  <2>1. Waiting(k2) = Append(Waiting(k), e)
    <3>1. k2.queue = Append(k.queue, e)
      BY <1>1, <1>3 DEF Offer
    <3>2. k.pending # 0 => <<k.pending>> \o Append(k.queue, e) = Append(<<k.pending>> \o k.queue, e)
      BY <1>1
    <3> QED
      BY <1>1, <3>1, <3>2 DEF Waiting
  <2>2. SetOf(Waiting(k2)) = SetOf(Waiting(k)) \union {e}
    BY <2>1, WaitingType, AppendSet
  <2>3. Received(Waiting(k2), c2)
    BY <2>1, WaitingType, ReceivedAppend DEF Following
  <2>4. NotBehind(k2.seen, SetOf(Waiting(k2)) \union c2)
    BY <1>1, <2>2 DEF Following, NotBehind
  <2>5. p2 \subseteq m \union SetOf(Waiting(k2)) \union SetOf(k2.seen)
    BY <1>1, <2>2 DEF Following
  <2> QED
    BY <1>1, <1>2, <2>3, <2>4, <2>5 DEF Following, k2
<1>4. CASE Len(k.queue) >= QUEUE_MAXSIZE
  <2>1. Waiting(k2) = Waiting(k)
    <3>1. k2.queue = k.queue
      BY <1>1, <1>4 DEF Offer
    <3> QED
      BY <1>1, <3>1 DEF Waiting
  <2>2. Received(Waiting(k2), c2)
    BY <2>1, ReceivedPart DEF Following
  <2>3. NotBehind(k2.seen, SetOf(Waiting(k2)) \union c2)
    BY <1>1, <2>1 DEF Following, NotBehind
  <2>4. p2 \subseteq m \union SetOf(Waiting(k2)) \union SetOf(k2.seen)
    BY <1>1, <1>4, <2>1 DEF Following
  <2> QED
    BY <1>1, <1>2, <2>2, <2>3, <2>4 DEF Following, k2
<1> QED
  BY <1>1, <1>3, <1>4

------------------------------------------------------------------------------
(* The initial state and the steps. *)

LEMMA StreamInit == Init => IInv
<1> SUFFICES ASSUME Init PROVE IInv
  OBVIOUS
<1>1. TypeOK
  <2>1. published \in 0..N /\ faults \in 0..MaxFaults /\ pumping \in BOOLEAN /\ status \in Statuses
    BY DEF Init, Statuses, Progress
  <2>2. conn \in [Clients -> Open \union {Off}] /\ \A c \in Clients : conn[c] = Off
    BY DEF Init
  <2>3. sent \in [Clients -> Seq(Events)] /\ lost \in [Clients -> SUBSET Events]
    BY DEF Init
  <2>4. history = <<>> /\ buffer = <<>> /\ unread = {} /\ gap = {} /\ faded = {}
    BY DEF Init
  <2>5. <<>> \in Seq(Events) /\ Len(<<>>) = 0
    OBVIOUS
  <2> QED
    BY <2>1, <2>2, <2>3, <2>4, <2>5 DEF TypeOK
<1>2. RowInOrder
  BY EmptyInOrder DEF Init, RowInOrder, NotBehind
<1>3. BufferInOrder
  BY EmptyInOrder DEF Init, BufferInOrder, Received, Ahead, Passed
<1>4. ASSUME NEW c \in Clients PROVE ClientServed(c)
  BY EmptyInOrder DEF Init, ClientServed
<1> QED
  BY <1>1, <1>2, <1>3, <1>4 DEF IInv

(* A connection that the step leaves alone. *)
LEMMA ClientAlone ==
  ASSUME TypeOK, NEW c \in Clients, ClientServed(c),
         conn'[c] = conn[c], sent'[c] = sent[c], lost[c] \subseteq lost'[c],
         Coming' \subseteq Coming, Passed' \subseteq Passed
  PROVE  ClientServed(c)'
<1>1. InOrder(sent'[c])
  BY DEF ClientServed
<1>2. ASSUME conn[c] # Off PROVE Following(conn[c], sent[c], lost'[c], Coming', Passed')
  BY <1>2, ConnTypes, StillFollowing DEF ClientServed
<1> QED
  BY <1>1, <1>2 DEF ClientServed

(* Steps of the row, the pump and the dispatcher that no connection sees. *)
LEMMA AllAlone ==
  ASSUME IInv, TypeOK', UNCHANGED client, Coming' \subseteq Coming, Passed' \subseteq Passed,
         RowInOrder', BufferInOrder'
  PROVE  IInv'
<1> SUFFICES ASSUME NEW c \in Clients PROVE ClientServed(c)'
  BY DEF IInv
<1> QED
  BY ClientAlone DEF IInv, client

LEMMA RowAlone == ASSUME RowInOrder, history' = history PROVE RowInOrder'
BY DEF RowInOrder

LEMMA BufferAlone ==
  ASSUME BufferInOrder, buffer' = buffer, Coming' \subseteq Coming, Passed' \subseteq Passed
  PROVE  BufferInOrder'
BY DEF BufferInOrder, Received, Ahead

LEMMA PublishStep == ASSUME IInv, Publish PROVE IInv'
<1>0. TypeOK /\ published \in 0..N /\ unread \subseteq 1..published /\ gap \subseteq 1..published
  BY DEF IInv, TypeOK
<1>1. published' = published + 1 /\ published' \in 0..N
  BY <1>0 DEF Publish
<1>2. unread' \subseteq 1..published' /\ gap' \subseteq 1..published'
  <2>1. 1..published \subseteq 1..published' /\ published + 1 \in 1..published'
    BY <1>0, <1>1
  <2>2. unread' \subseteq unread \union {published + 1} /\ gap' \subseteq gap \union {published + 1}
    BY DEF Publish
  <2> QED
    BY <1>0, <2>1, <2>2
<1>3. TypeOK'
  BY <1>0, <1>1, <1>2 DEF Publish, TypeOK, memory, client
<1>4. Coming' \subseteq Coming
  BY <1>0, <1>1 DEF Publish, Coming
<1>5. Passed' \subseteq Passed
  BY <1>0, <1>1 DEF Publish, Passed, memory
<1> QED
  BY <1>3, <1>4, <1>5, AllAlone, RowAlone, BufferAlone DEF IInv, Publish, memory

LEMMA RecordStep == ASSUME IInv, NEW e \in Events, Record(e) PROVE IInv'
<1>0. TypeOK /\ history \in Seq(Events) /\ InOrder(history) /\ NotBehind(history, Events)
  BY DEF IInv, TypeOK, RowInOrder
<1>1. e \notin SetOf(history) /\ \A f \in 1..(e - 1) : SamePartition(e, f) => f \in SetOf(history)
  BY DEF Record
<1>2. Ahead(e, history)
  <2> SUFFICES ASSUME NEW f \in SetOf(history), SamePartition(e, f) PROVE f < e
    BY DEF Ahead
  <2>1. f \in Nat /\ e \in Nat /\ f # e /\ f \in Events
    BY <1>0, <1>1, SetType, EventsAreNat
  <2>2. ~(e < f)
    BY <1>0, <1>1 DEF NotBehind
  <2> QED
    BY <2>1, <2>2
<1> DEFINE t == Append(history, e)
<1>3. t \in Seq(Events) /\ InOrder(t) /\ SetOf(t) = SetOf(history) \union {e}
  BY <1>0, <1>2, AppendInOrder, AppendSet DEF Ahead
<1>4. history' = t
  BY <1>3, LatestIsAll DEF Record
<1>5. NotBehind(history', Events)
  <2> SUFFICES ASSUME NEW f \in SetOf(t), NEW g \in Events, SamePartition(g, f), g < f
               PROVE  g \in SetOf(t)
    BY <1>4 DEF NotBehind
  <2>1. CASE f \in SetOf(history)
    BY <1>0, <1>3, <2>1 DEF NotBehind
  <2>2. CASE f = e
    <3>1. g \in 1..(e - 1) /\ SamePartition(e, g)
      BY <2>2 DEF Events, SamePartition
    <3> QED
      BY <1>1, <1>3, <3>1
  <2> QED
    BY <1>3, <2>1, <2>2
<1>6. RowInOrder'
  BY <1>3, <1>4, <1>5 DEF RowInOrder
<1>7. TypeOK'
  <2>1. status' \in Statuses
    BY <1>0 DEF Record, TypeOK, Events
  <2>2. Len(history') <= HISTORY_MAX
    <3> HIDE DEF t
    <3>1. Len(t) <= N /\ Len(t) \in Nat
      BY <1>3, InOrderIsShort
    <3> QED
      BY <1>4, <3>1
  <2> QED
    BY <1>0, <1>3, <1>4, <2>1, <2>2 DEF Record, TypeOK, pump, memory, client
<1>8. Coming' = Coming /\ Passed' = Passed /\ UNCHANGED client /\ buffer' = buffer
  BY DEF Record, Coming, Passed, pump, memory
<1> QED
  BY <1>6, <1>7, <1>8, AllAlone, BufferAlone DEF IInv

LEMMA PumpConnectionStep == ASSUME IInv, PumpFails \/ PumpReconnects PROVE IInv'
<1>0. TypeOK /\ published \in 0..N /\ unread \subseteq 1..published /\ gap \subseteq 1..published
  BY DEF IInv, TypeOK
<1>1. faults' \in 0..MaxFaults
  BY <1>0 DEF PumpFails, PumpReconnects, Fault, TypeOK
<1>2. TypeOK'
  BY <1>0, <1>1 DEF PumpFails, PumpReconnects, TypeOK, topic, memory, client
<1>3. Coming' \subseteq Coming /\ Passed' \subseteq Passed
  BY <1>0 DEF PumpFails, PumpReconnects, Coming, Passed, topic, memory
<1>4. UNCHANGED client /\ history' = history /\ buffer' = buffer
  BY DEF PumpFails, PumpReconnects, topic, memory
<1> QED
  BY <1>2, <1>3, <1>4, AllAlone, RowAlone, BufferAlone DEF IInv

LEMMA EvictStep == ASSUME IInv, Evict PROVE IInv'
<1>0. TypeOK /\ buffer \in Seq(Events) /\ BufferInOrder
  BY DEF IInv, TypeOK
<1>1. faults' \in 0..MaxFaults /\ faded' \subseteq Events
  BY <1>0, SetType DEF Evict, Fault, TypeOK
<1>2. TypeOK'
  BY <1>0, <1>1, EmptyInOrder DEF Evict, TypeOK, topic, pump, client
<1>3. Coming' = Coming /\ Passed' \subseteq Passed /\ Passed' \intersect SetOf(buffer) = {}
  BY <1>0 DEF Evict, Coming, Passed, topic, pump
<1>4. UNCHANGED client /\ history' = history /\ buffer' = <<>>
  BY DEF Evict, topic
<1>5. BufferInOrder'
  BY <1>0, <1>3, <1>4, EmptyInOrder DEF BufferInOrder, Received, Ahead
<1> QED
  BY <1>2, <1>3, <1>4, <1>5, AllAlone, RowAlone DEF IInv

LEMMA PumpStep == ASSUME IInv, NEW e \in Events, Pump(e) PROVE IInv'
<1>0. /\ TypeOK /\ buffer \in Seq(Events) /\ BufferInOrder
      /\ published \in 0..N /\ unread \subseteq 1..published /\ e \in unread
  BY DEF IInv, TypeOK, Pump
<1>1. published' = published /\ unread' = unread \ {e} /\ gap' = gap /\ history' = history
      /\ sent' = sent
  BY DEF Pump, topic
<1>2. e \in Coming /\ Coming' \subseteq Coming
  BY <1>0, <1>1 DEF Coming
<1>3. ASSUME NEW g \in Coming', SamePartition(g, e) PROVE e < g
  <2>1. SamePartition(e, g)
    BY <1>3 DEF SamePartition
  <2> QED
    BY <1>0, <1>1, <1>3, <2>1 DEF Coming, Pump, Events
<1> DEFINE t == Append(buffer, e)
<1>4. /\ buffer' = Latest(t, BUFFER_MAX_EVENTS)
      /\ faded' = faded \union (SetOf(buffer) \ SetOf(buffer'))
  BY DEF Pump, Remember
<1>5. t \in Seq(Events) /\ Received(t, Coming') /\ t # <<>> /\ t[Len(t)] = e
  <2>1. t \in Seq(Events) /\ t # <<>> /\ t[Len(t)] = e
    BY <1>0
  <2>2. Received(t, Coming')
    BY <1>0, <1>2, <1>3, ReceivedAppend DEF BufferInOrder
  <2> QED
    BY <2>1, <2>2
<1>6. /\ buffer' \in Seq(Events) /\ Len(buffer') <= BUFFER_MAX_EVENTS
      /\ InOrder(t) => InOrder(buffer')
      /\ SetOf(buffer') \subseteq SetOf(t) /\ e \in SetOf(buffer')
  <2> HIDE DEF t
  <2> QED
    BY <1>4, <1>5, LatestPart
<1>7. Received(buffer', Coming')
  <2> HIDE DEF t
  <2> QED
    BY <1>5, <1>6, ReceivedPart
<1>8. Passed' \subseteq Passed \union {e} /\ Passed' \subseteq SetOf(buffer')
  BY <1>0, <1>1, <1>4, <1>6 DEF Passed, BufferInOrder
<1>9. BufferInOrder'
  BY <1>7, <1>8 DEF BufferInOrder
<1>10. ASSUME NEW c \in Clients
       PROVE  /\ conn'[c] \in Open \union {Off} /\ lost'[c] \in SUBSET Events
              /\ conn'[c] # Off => Len(conn'[c].queue) <= QUEUE_MAXSIZE /\ Len(conn'[c].seen) <= SEEN_MAX
              /\ ClientServed(c)'
  <2>1. /\ conn'[c] = IF conn[c] = Off THEN Off ELSE [conn[c] EXCEPT !.queue = Offer(@, e)]
        /\ lost'[c] = IF conn[c] # Off /\ Len(conn[c].queue) >= QUEUE_MAXSIZE
                        THEN lost[c] \union {e} ELSE lost[c]
    BY <1>0 DEF Pump, TypeOK
  <2>2. lost'[c] \in SUBSET Events /\ lost[c] \subseteq lost'[c] /\ InOrder(sent'[c])
    BY <1>0, <1>1, <2>1 DEF IInv, ClientServed, TypeOK
  <2>3. CASE conn[c] = Off
    BY <2>1, <2>2, <2>3 DEF ClientServed
  <2>4. CASE conn[c] # Off
    <3> DEFINE k == conn[c]
               k2 == [k EXCEPT !.queue = Offer(@, e)]
    <3>1. /\ k \in Open /\ Following(k, sent[c], lost[c], Coming, Passed)
          /\ Len(k.queue) <= QUEUE_MAXSIZE /\ Len(k.seen) <= SEEN_MAX
          /\ Len(k.queue) >= QUEUE_MAXSIZE => e \in lost'[c]
          /\ conn'[c] = k2
      BY <1>0, <2>1, <2>4, ConnTypes DEF IInv, ClientServed
    <3>2. k2.queue = Offer(k.queue, e) /\ k2.seen = k.seen /\ k.queue \in Seq(Events)
      BY <3>1 DEF Open
    <3>3. Len(k2.queue) <= QUEUE_MAXSIZE
      BY <3>1, <3>2 DEF Offer
    <3>4. k2 \in Open /\ Following(k2, sent[c], lost'[c], Coming', Passed')
      <4> HIDE DEF k
      <4> QED
        BY <1>2, <1>3, <1>8, <2>2, <3>1, OfferedFollowing
    <3> HIDE DEF k2
    <3> QED
      BY <1>1, <2>2, <3>1, <3>2, <3>3, <3>4 DEF ClientServed
  <2> QED
    BY <2>3, <2>4
<1>11. TypeOK'
  <2>1. conn' \in [Clients -> Open \union {Off}] /\ lost' \in [Clients -> SUBSET Events]
    BY <1>10 DEF Pump
  <2>2. faded' \subseteq Events
    BY <1>0, <1>4, SetType DEF TypeOK
  <2> QED
    BY <1>0, <1>1, <1>6, <1>10, <2>1, <2>2 DEF TypeOK, Pump, topic
<1> QED
  BY <1>1, <1>9, <1>10, <1>11, RowAlone DEF IInv

------------------------------------------------------------------------------
(* The steps of a connection: one connection changes, the others do not.     *)

LEMMA OneClient ==
  ASSUME IInv, NEW c \in Clients, UNCHANGED <<topic, pump, memory>>,
         conn' = [conn EXCEPT ![c] = conn'[c]], conn'[c] \in Open \union {Off},
         sent' = [sent EXCEPT ![c] = sent'[c]], sent'[c] \in Seq(Events),
         lost' = [lost EXCEPT ![c] = lost'[c]], lost'[c] \in SUBSET Events,
         conn'[c] # Off => Len(conn'[c].queue) <= QUEUE_MAXSIZE /\ Len(conn'[c].seen) <= SEEN_MAX,
         faults' \in 0..MaxFaults, ClientServed(c)'
  PROVE  IInv'
<1>1. Coming' = Coming /\ Passed' = Passed /\ history' = history /\ buffer' = buffer
  BY DEF Coming, Passed, topic, pump, memory
<1>2. ASSUME NEW d \in Clients, d # c
      PROVE  conn'[d] = conn[d] /\ sent'[d] = sent[d] /\ lost'[d] = lost[d]
  BY <1>2 DEF IInv, TypeOK
<1>3. TypeOK'
  <2>1. conn' \in [Clients -> Open \union {Off}] /\ sent' \in [Clients -> Seq(Events)]
        /\ lost' \in [Clients -> SUBSET Events]
    BY DEF IInv, TypeOK
  <2>2. ASSUME NEW d \in Clients, conn'[d] # Off
        PROVE  Len(conn'[d].queue) <= QUEUE_MAXSIZE /\ Len(conn'[d].seen) <= SEEN_MAX
    BY <1>2, <2>2 DEF IInv, TypeOK
  <2> QED
    BY <2>1, <2>2 DEF IInv, TypeOK, topic, pump, memory
<1>4. ASSUME NEW d \in Clients PROVE ClientServed(d)'
  BY <1>1, <1>2, ClientAlone DEF IInv
<1> QED
  BY <1>1, <1>3, <1>4, RowAlone, BufferAlone DEF IInv

LEMMA FaultCounted ==
  ASSUME TypeOK, Fault \/ faults' = faults PROVE faults' \in 0..MaxFaults
BY DEF TypeOK, Fault

LEMMA ConnectStep == ASSUME IInv, NEW c \in Clients, Connect(c) PROVE IInv'
<1>0. TypeOK /\ buffer \in Seq(Events) /\ BufferInOrder
  BY DEF IInv, TypeOK
<1> DEFINE n    == IF Len(buffer) < QUEUE_MAXSIZE THEN Len(buffer) ELSE QUEUE_MAXSIZE
           kept == SubSeq(buffer, 1, n)
           k    == [at |-> "loading", queue |-> kept, pending |-> 0, seen |-> <<>>,
                    snap |-> <<>>, final |-> FALSE]
<1>1. n \in 0..Len(buffer) /\ n <= QUEUE_MAXSIZE
  BY <1>0
<1>2. /\ kept \in Seq(Events) /\ Len(kept) <= QUEUE_MAXSIZE
      /\ InOrder(buffer) => InOrder(kept)
      /\ SetOf(kept) \subseteq SetOf(buffer)
  <2> HIDE DEF n
  <2> QED
    BY <1>0, <1>1, PrefixPart
<1>3. /\ conn' = [conn EXCEPT ![c] = k] /\ sent' = [sent EXCEPT ![c] = <<>>]
      /\ lost' = [lost EXCEPT ![c] = SetOf(buffer) \ SetOf(kept)]
      /\ UNCHANGED <<topic, pump, memory, faults>>
  BY DEF Connect
<1> HIDE DEF kept, n
<1>4. conn'[c] = k /\ sent'[c] = <<>> /\ lost'[c] = SetOf(buffer) \ SetOf(kept)
  BY <1>0, <1>3 DEF TypeOK
<1>5. k \in Open /\ Waiting(k) = kept /\ Len(k.seen) = 0
  BY <1>2 DEF Open, Waiting
<1>6. Coming' = Coming /\ Passed' = Passed
  BY <1>3 DEF Coming, Passed, topic, pump, memory
<1>7. Following(k, <<>>, lost'[c], Coming, Passed)
  <2>1. SeenIsSent(k, <<>>)
    BY DEF SeenIsSent
  <2>2. Received(kept, Coming)
    BY <1>0, <1>2, ReceivedPart DEF BufferInOrder
  <2>3. k.seen = <<>> /\ InOrder(<<>>) /\ SetOf(<<>>) = {}
    BY EmptyInOrder
  <2>4. NotBehind(<<>>, SetOf(kept) \union Coming)
    BY <2>3 DEF NotBehind
  <2>5. Passed \subseteq lost'[c] \union SetOf(kept)
    BY <1>0, <1>4 DEF BufferInOrder
  <2> HIDE DEF k
  <2> QED
    BY <1>5, <2>1, <2>2, <2>3, <2>4, <2>5 DEF Following
<1>8. ClientServed(c)'
  <2> HIDE DEF k
  <2> QED
    BY <1>4, <1>6, <1>7, EmptyInOrder DEF ClientServed
<1>9. lost'[c] \in SUBSET Events /\ <<>> \in Seq(Events)
  BY <1>0, <1>4, SetType
<1>10. faults' \in 0..MaxFaults
  BY <1>0, <1>3, FaultCounted
<1> HIDE DEF k
<1>11. k.queue = kept
  BY DEF k
<1>12. /\ UNCHANGED <<topic, pump, memory>>
       /\ conn' = [conn EXCEPT ![c] = conn'[c]] /\ sent' = [sent EXCEPT ![c] = sent'[c]]
       /\ lost' = [lost EXCEPT ![c] = lost'[c]]
  BY <1>3, <1>4
<1>13. Len(conn'[c].queue) <= QUEUE_MAXSIZE /\ Len(conn'[c].seen) <= SEEN_MAX
  BY <1>2, <1>4, <1>5, <1>11
<1>14. conn'[c] \in Open \union {Off} /\ sent'[c] \in Seq(Events)
  BY <1>4, <1>5, <1>9
<1> QED
  BY <1>8, <1>9, <1>10, <1>12, <1>13, <1>14, OneClient

LEMMA LoadSnapshotStep == ASSUME IInv, NEW c \in Clients, LoadSnapshot(c) PROVE IInv'
<1> DEFINE k  == conn[c]
           k2 == [k EXCEPT !.at = "snapshot", !.snap = history, !.seen = Latest(history, SEEN_MAX),
                           !.final = is_final(status)]
<1>0. /\ TypeOK /\ history \in Seq(Events) /\ InOrder(history) /\ NotBehind(history, Events)
      /\ k \in Open /\ k.at = "loading" /\ Len(k.queue) <= QUEUE_MAXSIZE
      /\ Following(k, sent[c], lost[c], Coming, Passed) /\ InOrder(sent[c])
  BY ConnTypes DEF IInv, TypeOK, RowInOrder, ClientServed, LoadSnapshot
<1>1. conn' = [conn EXCEPT ![c] = k2] /\ UNCHANGED <<topic, pump, memory, sent, lost, faults>>
  BY DEF LoadSnapshot
<1>2. Latest(history, SEEN_MAX) = history /\ Len(history) <= SEEN_MAX
  <2>1. Len(history) <= N /\ Len(history) \in Nat
    BY <1>0, InOrderIsShort
  <2> QED
    BY <1>0, <2>1, LatestIsAll
<1>3. conn'[c] = k2 /\ sent'[c] = sent[c] /\ lost'[c] = lost[c]
  BY <1>0, <1>1 DEF TypeOK
<1>4. /\ k2 \in Open /\ k2.at = "snapshot" /\ k2.snap = history /\ k2.seen = history
      /\ k2.queue = k.queue /\ k2.pending = k.pending
  <2>1. is_final(status) \in BOOLEAN
    BY DEF is_final
  <2> QED
    BY <1>0, <1>2, <2>1 DEF Open
<1> HIDE DEF k2
<1>5. Waiting(k2) = Waiting(k) /\ Waiting(k) \in Seq(Events)
  BY <1>0, <1>4, WaitingType DEF Waiting
<1>6. Following(k2, sent[c], lost[c], Coming, Passed)
  <2>1. SeenIsSent(k2, sent[c])
    BY <1>0, <1>4 DEF Following, SeenIsSent
  <2>2. SetOf(Waiting(k)) \union Coming \subseteq Events
    <3>1. unread \subseteq 1..published /\ published \in 0..N
      BY <1>0 DEF TypeOK
    <3>2. Coming \subseteq Events
      BY <3>1 DEF Coming, Events
    <3> QED
      BY <1>5, <3>2, SetType
  <2>3. NotBehind(history, SetOf(Waiting(k)) \union Coming)
    BY <1>0, <2>2 DEF NotBehind
  <2>4. Passed \subseteq lost[c] \union SetOf(Waiting(k)) \union SetOf(history)
    <3>1. k.seen = <<>>
      BY <1>0 DEF Following, SeenIsSent
    <3> QED
      BY <1>0, <3>1, EmptyInOrder DEF Following
  <2> QED
    BY <1>0, <1>4, <1>5, <2>1, <2>3, <2>4 DEF Following
<1>7. ClientServed(c)'
  <2>1. Coming' = Coming /\ Passed' = Passed
    BY <1>1 DEF Coming, Passed, topic, pump, memory
  <2> HIDE DEF k
  <2> QED
    BY <1>0, <1>3, <1>6, <2>1 DEF ClientServed
<1>8. faults' \in 0..MaxFaults /\ sent'[c] \in Seq(Events) /\ lost'[c] \in SUBSET Events
  BY <1>0, <1>1, <1>3, FaultCounted DEF TypeOK
<1>9. sent' = [sent EXCEPT ![c] = sent'[c]] /\ lost' = [lost EXCEPT ![c] = lost'[c]]
  BY <1>0, <1>1 DEF TypeOK
<1>10. Len(k2.queue) <= QUEUE_MAXSIZE /\ Len(k2.seen) <= SEEN_MAX
  BY <1>0, <1>2, <1>4
<1> HIDE DEF k
<1> QED
  BY <1>1, <1>3, <1>4, <1>7, <1>8, <1>9, <1>10, OneClient

LEMMA SendSnapshotStep == ASSUME IInv, NEW c \in Clients, SendSnapshot(c) PROVE IInv'
<1> DEFINE k  == conn[c]
           k2 == [k EXCEPT !.at = "live"]
<1>0. /\ TypeOK /\ k \in Open /\ k.at = "snapshot"
      /\ Len(k.queue) <= QUEUE_MAXSIZE /\ Len(k.seen) <= SEEN_MAX
      /\ Following(k, sent[c], lost[c], Coming, Passed)
  BY ConnTypes DEF IInv, ClientServed, SendSnapshot
<1>1. /\ conn' = [conn EXCEPT ![c] = IF k.final THEN Off ELSE k2]
      /\ sent' = [sent EXCEPT ![c] = k.snap]
      /\ UNCHANGED <<topic, pump, memory, lost, faults>>
  BY DEF SendSnapshot
<1>2. conn'[c] = (IF k.final THEN Off ELSE k2) /\ sent'[c] = k.snap /\ lost'[c] = lost[c]
  BY <1>0, <1>1 DEF TypeOK
<1>3. /\ k2 \in Open /\ k2.at = "live" /\ k2.seen = k.seen
      /\ k2.queue = k.queue /\ k2.pending = k.pending /\ k.snap \in Seq(Events)
  BY <1>0 DEF Open
<1> HIDE DEF k2
<1>4. Waiting(k2) = Waiting(k)
  BY <1>3 DEF Waiting
<1>5. k.seen = k.snap /\ InOrder(k.snap)
  BY <1>0 DEF Following, SeenIsSent
<1>6. Following(k2, k.snap, lost[c], Coming, Passed)
  BY <1>0, <1>3, <1>4, <1>5 DEF Following, SeenIsSent
<1>7. ClientServed(c)'
  <2>1. Coming' = Coming /\ Passed' = Passed
    BY <1>1 DEF Coming, Passed, topic, pump, memory
  <2> HIDE DEF k
  <2> QED
    BY <1>2, <1>5, <1>6, <2>1 DEF ClientServed
<1>8. faults' \in 0..MaxFaults /\ lost'[c] \in SUBSET Events
  BY <1>0, <1>1, <1>2, FaultCounted DEF TypeOK
<1>9. /\ conn' = [conn EXCEPT ![c] = conn'[c]] /\ sent' = [sent EXCEPT ![c] = sent'[c]]
      /\ lost' = [lost EXCEPT ![c] = lost'[c]]
  BY <1>0, <1>1, <1>2 DEF TypeOK
<1>10. conn'[c] # Off => Len(conn'[c].queue) <= QUEUE_MAXSIZE /\ Len(conn'[c].seen) <= SEEN_MAX
  BY <1>0, <1>2, <1>3
<1>11. conn'[c] \in Open \union {Off} /\ sent'[c] \in Seq(Events)
  BY <1>2, <1>3
<1> HIDE DEF k
<1> QED
  BY <1>1, <1>7, <1>8, <1>9, <1>10, <1>11, OneClient

LEMMA TakeStep == ASSUME IInv, NEW c \in Clients, Take(c) PROVE IInv'
<1> DEFINE k  == conn[c]
           k2 == [k EXCEPT !.pending = Head(k.queue), !.queue = Tail(@)]
<1>0. /\ TypeOK /\ k \in Open /\ k.at = "live" /\ k.pending = 0 /\ k.queue # <<>>
      /\ Len(k.queue) <= QUEUE_MAXSIZE /\ Len(k.seen) <= SEEN_MAX
      /\ Following(k, sent[c], lost[c], Coming, Passed) /\ InOrder(sent[c])
  BY ConnTypes DEF IInv, ClientServed, Take
<1>1. conn' = [conn EXCEPT ![c] = k2] /\ UNCHANGED <<topic, pump, memory, sent, lost, faults>>
  BY DEF Take
<1>2. conn'[c] = k2 /\ sent'[c] = sent[c] /\ lost'[c] = lost[c]
  BY <1>0, <1>1 DEF TypeOK
<1>3. /\ k.queue \in Seq(Events) /\ Head(k.queue) \in Events /\ Tail(k.queue) \in Seq(Events)
      /\ Len(Tail(k.queue)) = Len(k.queue) - 1
  BY <1>0, HeadTailProperties DEF Open
<1>4. /\ k2 \in Open /\ k2.at = "live" /\ k2.seen = k.seen
      /\ k2.queue = Tail(k.queue) /\ k2.pending = Head(k.queue)
  <2>1. Head(k.queue) \in 0..N
    BY <1>3 DEF Events
  <2> QED
    BY <1>0, <1>3, <2>1 DEF Open
<1> HIDE DEF k2
<1>5. Waiting(k2) = Waiting(k)
  <2>1. k2.pending # 0
    BY <1>3, <1>4, EventsAreNat
  <2>2. <<Head(k.queue)>> \o Tail(k.queue) = k.queue
    BY <1>0, <1>3
  <2> QED
    BY <1>0, <1>4, <2>1, <2>2 DEF Waiting
<1>6. Following(k2, sent[c], lost[c], Coming, Passed)
  BY <1>0, <1>4, <1>5 DEF Following, SeenIsSent
<1>7. ClientServed(c)'
  <2>1. Coming' = Coming /\ Passed' = Passed
    BY <1>1 DEF Coming, Passed, topic, pump, memory
  <2> HIDE DEF k
  <2> QED
    BY <1>0, <1>2, <1>6, <2>1 DEF ClientServed
<1>8. faults' \in 0..MaxFaults /\ sent'[c] \in Seq(Events) /\ lost'[c] \in SUBSET Events
  BY <1>0, <1>1, <1>2, FaultCounted DEF TypeOK
<1>9. /\ conn' = [conn EXCEPT ![c] = conn'[c]] /\ sent' = [sent EXCEPT ![c] = sent'[c]]
      /\ lost' = [lost EXCEPT ![c] = lost'[c]]
  BY <1>0, <1>1, <1>2 DEF TypeOK
<1>10. Len(k2.queue) <= QUEUE_MAXSIZE /\ Len(k2.seen) <= SEEN_MAX
  BY <1>0, <1>3, <1>4
<1> HIDE DEF k
<1> QED
  BY <1>1, <1>2, <1>4, <1>7, <1>8, <1>9, <1>10, OneClient

(* An event that is not seen goes to the client behind everything it has.    *)
LEMMA ForwardStep == ASSUME IInv, NEW c \in Clients, Forward(c) PROVE IInv'
<1> DEFINE k == conn[c]
           e == conn[c].pending
           t == Append(sent[c], e)
<1>0. /\ TypeOK /\ k \in Open /\ k.at = "live" /\ e # 0
      /\ Len(k.queue) <= QUEUE_MAXSIZE /\ Len(k.seen) <= SEEN_MAX
      /\ Following(k, sent[c], lost[c], Coming, Passed) /\ InOrder(sent[c])
      /\ sent[c] \in Seq(Events)
  BY ConnTypes DEF IInv, ClientServed, Forward, TypeOK
<1>1. /\ e \in Events /\ Waiting(k) \in Seq(Events) /\ Waiting(k) # <<>>
      /\ Head(Waiting(k)) = e /\ Tail(Waiting(k)) = k.queue
  BY <1>0, WaitingType
<1>2. k.seen = sent[c] /\ Received(Waiting(k), Coming)
      /\ NotBehind(k.seen, SetOf(Waiting(k)) \union Coming)
  BY <1>0 DEF Following, SeenIsSent
<1>3. /\ k.queue \in Seq(Events) /\ InOrder(k.queue)
      /\ SetOf(Waiting(k)) = {e} \union SetOf(k.queue)
      /\ \A g \in SetOf(k.queue) : SamePartition(g, e) => e < g
  <2>1. InOrder(Waiting(k))
    BY <1>2 DEF Received
  <2> HIDE DEF k, e
  <2> QED
    BY <1>1, <2>1, HeadFirst
<1>4. /\ Received(k.queue, Coming) /\ \A g \in Coming : SamePartition(g, e) => e < g
  BY <1>2, <1>3 DEF Received, Ahead
<1>5. UNCHANGED <<topic, pump, memory, lost, faults>>
  BY DEF Forward
<1>6. Coming' = Coming /\ Passed' = Passed /\ lost'[c] = lost[c]
  BY <1>5 DEF Coming, Passed, topic, pump, memory
<1>7. faults' \in 0..MaxFaults /\ lost'[c] \in SUBSET Events
      /\ lost' = [lost EXCEPT ![c] = lost'[c]]
  BY <1>0, <1>5, FaultCounted DEF TypeOK
<1>8. CASE e \in SetOf(k.seen)
  <2> DEFINE k2 == [k EXCEPT !.pending = 0]
  <2>1. conn' = [conn EXCEPT ![c] = k2] /\ sent' = sent
    BY <1>8 DEF Forward
  <2>2. conn'[c] = k2 /\ sent'[c] = sent[c] /\ sent' = [sent EXCEPT ![c] = sent'[c]]
    BY <1>0, <2>1 DEF TypeOK
  <2>3. k2 \in Open /\ k2.at = "live" /\ k2.seen = k.seen /\ k2.queue = k.queue /\ k2.pending = 0
    <3>1. 0 \in 0..N
      OBVIOUS
    <3> QED
      BY <1>0, <3>1 DEF Open
  <2> HIDE DEF k2
  <2>4. Waiting(k2) = k.queue
    BY <2>3 DEF Waiting
  <2>5. NotBehind(k2.seen, SetOf(k.queue) \union Coming)
    BY <1>2, <1>3, <2>3 DEF NotBehind
  <2>6. Following(k2, sent[c], lost[c], Coming, Passed)
    BY <1>0, <1>2, <1>3, <1>4, <1>8, <2>3, <2>4, <2>5 DEF Following, SeenIsSent
  <2>7. ClientServed(c)'
    <3> HIDE DEF k
    <3> QED
      BY <1>0, <1>6, <2>2, <2>6 DEF ClientServed
  <2>8. conn' = [conn EXCEPT ![c] = conn'[c]]
    BY <2>1, <2>2
  <2> HIDE DEF k
  <2> QED
    BY <1>0, <1>5, <1>7, <2>2, <2>3, <2>7, <2>8, OneClient
<1>9. CASE e \notin SetOf(k.seen)
  <2> DEFINE k2 == [k EXCEPT !.pending = 0, !.seen = Latest(Append(@, e), SEEN_MAX)]
  <2>1. /\ conn' = [conn EXCEPT ![c] = IF is_final(StatusOf[e]) THEN Off ELSE k2]
        /\ sent' = [sent EXCEPT ![c] = t]
    <3>1. sent' = [sent EXCEPT ![c] = Append(sent[c], e)]
      BY <1>9 DEF Forward
    <3>2. conn' = [conn EXCEPT ![c] = IF is_final(StatusOf[e]) THEN Off ELSE k2]
      BY <1>9 DEF Forward
    <3> QED
      BY <3>1, <3>2
  <2>2. /\ conn'[c] = (IF is_final(StatusOf[e]) THEN Off ELSE k2)
        /\ sent'[c] = t
    BY <1>0, <2>1 DEF TypeOK
  <2>3. Ahead(e, sent[c])
    <3> SUFFICES ASSUME NEW f \in SetOf(sent[c]), SamePartition(e, f) PROVE f < e
      BY DEF Ahead
    <3>1. f \in Events /\ f # e
      BY <1>0, <1>2, <1>9, SetType
    <3>2. ~(e < f)
      BY <1>2, <1>3, <1>9 DEF NotBehind
    <3>3. f \in Nat /\ e \in Nat
      BY <1>1, <3>1, EventsAreNat
    <3> HIDE DEF e
    <3> QED
      BY <3>1, <3>2, <3>3
  <2>4. t \in Seq(Events) /\ InOrder(t) /\ SetOf(t) = SetOf(sent[c]) \union {e}
    BY <1>0, <1>1, <2>3, AppendInOrder, AppendSet DEF Ahead
  <2> HIDE DEF t
  <2>5. Latest(t, SEEN_MAX) = t /\ Len(t) <= SEEN_MAX
    <3>1. Len(t) <= N /\ Len(t) \in Nat
      BY <2>4, InOrderIsShort
    <3> QED
      BY <2>4, <3>1, LatestIsAll
  <2>6. k2 \in Open /\ k2.at = "live" /\ k2.seen = t /\ k2.queue = k.queue /\ k2.pending = 0
    <3>1. Latest(Append(k.seen, e), SEEN_MAX) = t
      BY <1>2, <2>5 DEF t
    <3>2. 0 \in 0..N
      OBVIOUS
    <3> QED
      BY <1>0, <2>4, <3>1, <3>2 DEF Open
  <2> HIDE DEF k2
  <2>7. Waiting(k2) = k.queue
    BY <2>6 DEF Waiting
  <2>8. NotBehind(t, SetOf(k.queue) \union Coming)
    <3> SUFFICES ASSUME NEW f \in SetOf(t), NEW g \in SetOf(k.queue) \union Coming,
                        SamePartition(g, f), g < f
                 PROVE  g \in SetOf(t)
      BY DEF NotBehind
    <3>1. CASE f \in SetOf(sent[c])
      BY <1>2, <1>3, <2>4, <3>1 DEF NotBehind
    <3>2. CASE f = e
      <4>1. e < g /\ g \in Events
        <5>1. Coming \subseteq Events
          BY <1>0 DEF TypeOK, Coming, Events
        <5> QED
          BY <1>3, <1>4, <3>2, <5>1, SetType
      <4>2. e \in Nat /\ g \in Nat
        BY <1>1, <4>1, EventsAreNat
      <4>3. g < e
        BY <3>2
      <4> HIDE DEF e
      <4> QED
        BY <4>1, <4>2, <4>3
    <3> QED
      BY <2>4, <3>1, <3>2
  <2>9. Following(k2, t, lost[c], Coming, Passed)
    <3>1. Passed \subseteq lost[c] \union SetOf(k.queue) \union SetOf(t)
      BY <1>0, <1>2, <1>3, <2>4 DEF Following
    <3> QED
      BY <1>4, <2>4, <2>6, <2>7, <2>8, <3>1 DEF Following, SeenIsSent
  <2>10. ClientServed(c)'
    <3> HIDE DEF k
    <3> QED
      BY <1>6, <2>2, <2>4, <2>9 DEF ClientServed
  <2>11. conn' = [conn EXCEPT ![c] = conn'[c]] /\ sent' = [sent EXCEPT ![c] = sent'[c]]
    BY <2>1, <2>2
  <2>12. /\ conn'[c] \in Open \union {Off}
         /\ conn'[c] # Off => Len(conn'[c].queue) <= QUEUE_MAXSIZE /\ Len(conn'[c].seen) <= SEEN_MAX
    BY <1>0, <2>2, <2>5, <2>6
  <2> HIDE DEF k
  <2> QED
    BY <1>5, <1>7, <2>2, <2>4, <2>10, <2>11, <2>12, OneClient
<1> QED
  BY <1>8, <1>9

LEMMA DisconnectStep == ASSUME IInv, NEW c \in Clients, Disconnect(c) PROVE IInv'
<1>0. TypeOK /\ InOrder(sent[c])
  BY DEF IInv, ClientServed
<1>1. conn' = [conn EXCEPT ![c] = Off] /\ UNCHANGED <<topic, pump, memory, sent, lost>>
  BY DEF Disconnect
<1>2. conn'[c] = Off /\ sent'[c] = sent[c] /\ lost'[c] = lost[c]
  BY <1>0, <1>1 DEF TypeOK
<1>3. /\ conn' = [conn EXCEPT ![c] = conn'[c]] /\ sent' = [sent EXCEPT ![c] = sent'[c]]
      /\ lost' = [lost EXCEPT ![c] = lost'[c]]
      /\ sent'[c] \in Seq(Events) /\ lost'[c] \in SUBSET Events
  BY <1>0, <1>1, <1>2 DEF TypeOK
<1>4. faults' \in 0..MaxFaults
  BY <1>0, FaultCounted DEF Disconnect
<1>5. ClientServed(c)'
  BY <1>0, <1>2 DEF ClientServed
<1> QED
  BY <1>1, <1>2, <1>3, <1>4, <1>5, OneClient

LEMMA StreamStep == IInv /\ [Next]_vars => IInv'
<1> SUFFICES ASSUME IInv, [Next]_vars PROVE IInv'
  OBVIOUS
<1>1. CASE UNCHANGED vars
  <2>1. TypeOK' /\ Coming' = Coming /\ Passed' = Passed /\ UNCHANGED <<client, history, buffer>>
    BY <1>1 DEF vars, IInv, TypeOK, Coming, Passed, client
  <2> QED
    BY <2>1, AllAlone, RowAlone, BufferAlone DEF IInv
<1>2. ASSUME NEW c \in Clients, Heartbeat(c) PROVE IInv'
  BY <1>1, <1>2 DEF Heartbeat
<1> QED
  BY <1>1, <1>2, PublishStep, PumpConnectionStep, EvictStep, RecordStep, PumpStep, ConnectStep,
     LoadSnapshotStep, SendSnapshotStep, TakeStep, ForwardStep, DisconnectStep
  DEF Next, Stream

------------------------------------------------------------------------------
(* The row, the buffer and every connection are served as IInv says, in      *)
(* every reachable state.                                                   *)
THEOREM StreamInductive == Spec => []IInv
BY StreamInit, StreamStep, PTL DEF Spec

(* TypeOK of the stream: queues, buffer, history and remembered ids keep     *)
(* their limits.                                                            *)
THEOREM StreamTypeCorrect == Spec => []TypeOK
<1>1. IInv => TypeOK
  BY DEF IInv
<1> QED
  BY <1>1, StreamInductive, PTL

(* StreamInOrder: snapshot, replay of the buffer and live events reach a     *)
(* client in the order of the topic, whatever pump and projector interleave. *)
THEOREM StreamNeverGoesBack == Spec => []StreamInOrder
<1>1. IInv => StreamInOrder
  BY DEF IInv, ClientServed, InOrder, StreamInOrder
<1> QED
  BY <1>1, StreamInductive, PTL

(* NoDuplicates: ws.py dedups by event_id, in snapshot, replay and live      *)
(* events.                                                                   *)
THEOREM NothingTwice == Spec => []NoDuplicates
<1>1. IInv => NoDuplicates
  <2> SUFFICES ASSUME IInv, NEW c \in Clients, NEW i \in DOMAIN sent[c], NEW j \in DOMAIN sent[c],
                      i # j
               PROVE  sent[c][i] # sent[c][j]
    BY DEF NoDuplicates
  <2>1. sent[c] \in Seq(Events) /\ InOrder(sent[c])
    BY DEF IInv, TypeOK, ClientServed
  <2> QED
    BY <2>1, InOrderIsDistinct
<1> QED
  BY <1>1, StreamInductive, PTL

(* NothingSlipsThrough: no event is lost between the snapshot and the        *)
(* subscription; a live connection with nothing waiting has everything the   *)
(* pump has passed, but for what was dropped, missed or evicted.             *)
THEOREM NothingIsMissed == Spec => []NothingSlipsThrough
<1>1. IInv => NothingSlipsThrough
  <2> SUFFICES ASSUME IInv, NEW c \in Clients, conn[c] # Off, conn[c].at = "live",
                      conn[c].queue = <<>>, conn[c].pending = 0
               PROVE  (1..published) \ (unread \union lost[c] \union gap \union faded)
                        \subseteq SetOf(sent[c])
    BY DEF NothingSlipsThrough
  <2>1. Following(conn[c], sent[c], lost[c], Coming, Passed)
    BY DEF IInv, ClientServed
  <2>2. conn[c].seen = sent[c] /\ SetOf(Waiting(conn[c])) = {}
    BY <2>1, EmptyInOrder DEF Following, SeenIsSent, Waiting
  <2> QED
    BY <2>1, <2>2 DEF Following, Passed
<1> QED
  BY <1>1, StreamInductive, PTL

------------------------------------------------------------------------------
(* The processes of the API and the projector, and POST /index. *)

USE OutagesAssumption

(* A call that has come to create_request has been acknowledged by the       *)
(* broker.                                                                   *)
SentBeforeInserted == \A r \in Requests : call[r] = "inserting" => r \in accepted

(* The inductive invariant.  AnsweredIsAccepted is not inductive: that the   *)
(* row is of an accepted request depends on what was awaited before it.      *)
ApiInv == ApiTypeOK /\ SentBeforeInserted /\ AnsweredIsAccepted

LEMMA ApiStarts == ApiInit => ApiInv
BY DEF ApiInit, ApiInv, ApiTypeOK, SentBeforeInserted, AnsweredIsAccepted, Ended, Hosts, Tasks

(* Steps of processes and tasks leave the calls alone. *)
LEMMA CallsUntouched ==
  ASSUME ApiInv, ApiTypeOK', UNCHANGED callVars
  PROVE  ApiInv'
BY DEF ApiInv, callVars, SentBeforeInserted, AnsweredIsAccepted

LEMMA ExitTypes ==
  ASSUME ApiTypeOK, NEW h \in Hosts, Exit(h)
  PROVE  /\ phase' \in [Hosts -> {"off", "starting", "serving", "stopping"}]
         /\ cancel' \in [Tasks -> BOOLEAN]
         /\ task' \in [Tasks -> Ended \union {"top", "connect", "read", "sleep", "close", "close_end"}]
         /\ producer' \in {"none", "created", "started"}
BY DEF Exit, ApiTypeOK, Ended

LEMMA HostInductive ==
  ASSUME ApiInv, NEW h \in Hosts, Launch(h) \/ Serve(h) \/ Signal(h) \/ Stopped(h) \/ Wake
  PROVE  ApiInv'
<1>1. UNCHANGED callVars
  BY DEF Launch, Serve, Signal, Stopped, Wake
<1> USE DEF ApiInv
<1>2. CASE Launch(h)
  <2>1. ApiTypeOK'
    BY <1>2 DEF Launch, ApiTypeOK, taskVars, callVars
  <2> QED BY <1>1, <2>1, CallsUntouched
<1>3. CASE Serve(h)
  <2>1. CASE Exit(h)
    BY <1>1, <1>3, <2>1, ExitTypes, CallsUntouched DEF Serve, ApiTypeOK, callVars
  <2>2. CASE ~Exit(h)
    <3>1. ApiTypeOK'
      BY <1>3, <2>2 DEF Serve, ApiTypeOK, callVars
    <3> QED BY <1>1, <3>1, CallsUntouched
  <2> QED BY <2>1, <2>2
<1>4. CASE Signal(h)
  <2>1. cancel' \in [Tasks -> BOOLEAN]
    BY <1>4 DEF Signal, ApiTypeOK
  <2>2. ApiTypeOK'
    BY <1>4, <2>1 DEF Signal, ApiTypeOK, callVars
  <2> QED BY <1>1, <2>2, CallsUntouched
<1>5. CASE Stopped(h)
  BY <1>1, <1>5, ExitTypes, CallsUntouched DEF Stopped, ApiTypeOK, callVars
<1>6. CASE Wake
  <2>1. ApiTypeOK'
    BY <1>6 DEF Wake, ApiTypeOK, hostVars, callVars
  <2> QED BY <1>1, <2>1, CallsUntouched
<1> QED BY <1>2, <1>3, <1>4, <1>5, <1>6

LEMMA CrashInductive == ASSUME ApiInv, NEW h \in Hosts, Crash(h) PROVE ApiInv'
<1>1. /\ UNCHANGED <<broker, stop, accepted, rows>> /\ outages' = outages + 1 /\ outages < MaxOutages
      /\ Exit(h)
  BY DEF Crash, Outage
<1>2. /\ call' \in [Requests -> {"none", "sending", "inserting", "200", "500", "dropped"}]
      /\ \A r \in Requests : call'[r] \in {"inserting", "200"} => call'[r] = call[r]
  BY DEF Crash, ApiInv, ApiTypeOK
<1>3. ApiTypeOK'
  BY <1>1, <1>2, ExitTypes DEF ApiInv, ApiTypeOK
<1> QED BY <1>1, <1>2, <1>3 DEF ApiInv, SentBeforeInserted, AnsweredIsAccepted

LEMMA TaskInductive ==
  ASSUME ApiInv, NEW t \in Tasks,
         Top(t) \/ StartConsumer(t) \/ ReadStops(t) \/ ReadFails(t) \/ WakeUp(t) \/ Closed(t) \/ Cancelled(t)
  PROVE  ApiInv'
<1> USE DEF ApiInv
<1>1. PICK to \in Ended \union {"top", "connect", "read", "sleep", "close", "close_end"} : Goes(t, to)
  BY DEF Top, StartConsumer, ReadStops, ReadFails, WakeUp, Closed, Cancelled, Ended
<1>2. UNCHANGED <<broker, hostVars, cancel, callVars>> /\ outages' \in 0..MaxOutages
  BY DEF Top, StartConsumer, ReadStops, ReadFails, WakeUp, Closed, Cancelled, Outage, NoOutage, ApiTypeOK
<1>3. ApiTypeOK'
  BY <1>1, <1>2 DEF Goes, ApiTypeOK, hostVars, callVars
<1> QED BY <1>2, <1>3, CallsUntouched

(* The answer of a call, from its state before the step. *)
LEMMA CallInductive ==
  ASSUME ApiInv, NEW r \in Requests,
         Post(r) \/ Send(r) \/ SendRaises(r) \/ Insert(r) \/ InsertRaises(r)
  PROVE  ApiInv'
<1> USE DEF ApiInv, hostVars, taskVars
<1>1. UNCHANGED <<broker, hostVars, taskVars>> /\ outages' \in 0..MaxOutages
  BY DEF Post, Send, SendRaises, Insert, InsertRaises, Outage, ApiTypeOK
<1>2. CASE Post(r)
  BY <1>1, <1>2 DEF Post, ApiTypeOK, SentBeforeInserted, AnsweredIsAccepted
<1>3. CASE Send(r)
  BY <1>1, <1>3 DEF Send, ApiTypeOK, SentBeforeInserted, AnsweredIsAccepted
<1>4. CASE SendRaises(r)
  BY <1>1, <1>4 DEF SendRaises, ApiTypeOK, SentBeforeInserted, AnsweredIsAccepted
<1>5. CASE Insert(r)
  BY <1>1, <1>5 DEF Insert, ApiTypeOK, SentBeforeInserted, AnsweredIsAccepted
<1>6. CASE InsertRaises(r)
  BY <1>1, <1>6 DEF InsertRaises, ApiTypeOK, SentBeforeInserted, AnsweredIsAccepted
<1> QED BY <1>2, <1>3, <1>4, <1>5, <1>6

LEMMA ApiSteps == ApiInv /\ [ApiNext]_apiVars => ApiInv'
<1> SUFFICES ASSUME ApiInv, [ApiNext]_apiVars PROVE ApiInv'
  OBVIOUS
<1>1. CASE BrokerDown \/ BrokerUp
  <2>1. broker' \in BOOLEAN
    BY <1>1 DEF BrokerDown, BrokerUp
  <2>2. UNCHANGED <<hostVars, taskVars, callVars>> /\ outages' \in 0..MaxOutages
    BY <1>1 DEF BrokerDown, BrokerUp, Outage, ApiInv, ApiTypeOK
  <2>3. ApiTypeOK'
    BY <2>1, <2>2 DEF ApiInv, ApiTypeOK, hostVars, taskVars, callVars
  <2> QED BY <2>2, <2>3, CallsUntouched
<1>2. ASSUME NEW h \in Hosts, Launch(h) \/ Signal(h) \/ HostStep(h) PROVE ApiInv'
  BY <1>2, HostInductive DEF HostStep
<1>3. ASSUME NEW h \in Hosts, Crash(h) PROVE ApiInv'
  BY <1>3, CrashInductive
<1>4. ASSUME NEW t \in Tasks, TaskStep(t) \/ ReadStops(t) \/ ReadFails(t) PROVE ApiInv'
  BY <1>4, TaskInductive DEF TaskStep
<1>5. ASSUME NEW r \in Requests, Post(r) \/ CallStep(r) \/ InsertRaises(r) PROVE ApiInv'
  BY <1>5, CallInductive DEF CallStep
<1>6. CASE UNCHANGED apiVars
  <2>1. ApiTypeOK' /\ UNCHANGED callVars
    BY <1>6 DEF apiVars, ApiInv, ApiTypeOK, callVars
  <2> QED BY <2>1, CallsUntouched
<1> QED BY <1>1, <1>2, <1>3, <1>4, <1>5, <1>6 DEF ApiNext

(* Processes, tasks and calls have their types; a row belongs to an accepted *)
(* request (main.py, __main__.py).                                           *)
THEOREM ApiTypeCorrect == ApiSpec => []ApiTypeOK
<1>1. ApiInv => ApiTypeOK
  BY DEF ApiInv
<1> QED BY <1>1, ApiStarts, ApiSteps, PTL DEF ApiSpec

(* An id that POST /index returned is in the topic and has a row, whatever   *)
(* fails, crashes or shuts down (main.py).                                   *)
THEOREM AnsweredOnlyAccepted == ApiSpec => []AnsweredIsAccepted
<1>1. ApiInv => AnsweredIsAccepted
  BY DEF ApiInv
<1> QED BY <1>1, ApiStarts, ApiSteps, PTL DEF ApiSpec
=============================================================================
