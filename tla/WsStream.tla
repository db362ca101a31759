------------------------------ MODULE WsStream ------------------------------
(* The status stream of one request over WebSocket: the event pump of        *)
(* src/kafka_service/async_client.py, src/realtime/dispatcher.py and         *)
(* src/realtime/ws.py, next to the projector that writes the request row     *)
(* (Projection, seen here as one atomic step per event).  The events of the *)
(* request are 1..N in the order they are published, in two partitions of   *)
(* index.events; pump and projector read them independently.                *)
EXTENDS StatusOrder, Naturals, Sequences, FiniteSets

CONSTANTS
  N,                  \* events published for the request
  StatusOf,           \* StatusOf[e]: the event's status
  ByUrl,              \* the events in the partition of the url (fetch failures)
  Clients,            \* WebSocket clients
  HISTORY_MAX,        \* entries of the row's history
  BUFFER_MAX_EVENTS,  \* events in the dispatcher's replay buffer
  QUEUE_MAXSIZE,      \* events in a connection's queue
  SEEN_MAX,           \* event ids remembered by a connection
  MaxFaults           \* bound on lost pump connections, evictions, disconnects

ASSUME LimitsAssumption ==
  /\ N \in Nat /\ BUFFER_MAX_EVENTS \in Nat \ {0} /\ QUEUE_MAXSIZE \in Nat \ {0}
  /\ HISTORY_MAX \in Nat \ {0} /\ SEEN_MAX \in Nat \ {0}
  /\ N <= HISTORY_MAX /\ N <= SEEN_MAX /\ MaxFaults \in Nat
  /\ StatusOf \in [1..N -> Statuses] /\ is_final(StatusOf[N])

Events == 1..N

VARIABLES
  published,  \* events in index.events: 1..published
  history,    \* history of the request row, in the order it was recorded
  status,     \* status of the request row
  pumping,    \* the pump's consumer is connected
  unread,     \* published events the pump will still receive
  buffer,     \* the dispatcher's recent events of the request
  conn,       \* conn[c]: the connection of client c
  sent,       \* sent[c]: what c received on this connection: event ids, in order
  lost,       \* lost[c]: events dropped by the full queue of c
  gap,        \* events the pump never received (history variable)
  faded,      \* events the dispatcher does not replay any more (history variable)
  faults

vars == <<published, history, status, pumping, unread, buffer, conn, sent, lost,
          gap, faded, faults>>

topic  == <<published, history, status>>
pump   == <<pumping, unread, gap>>
client == <<conn, sent, lost>>
memory == <<buffer, faded>>

Off == [at |-> "off"]

(* An open connection: the queue of its subscription, the event its pending *)
(* task has taken (0 for none), the ids it has seen and the snapshot read.  *)
Open == [at : {"loading", "snapshot", "live"}, queue : Seq(Events), pending : 0..N,
         seen : Seq(Events), snap : Seq(Events), final : BOOLEAN]

(* The last n elements of s: a deque(maxlen=n). *)
Latest(s, n) == IF Len(s) <= n THEN s ELSE SubSeq(s, Len(s) - n + 1, Len(s))
SetOf(s)     == {s[i] : i \in DOMAIN s}
SamePartition(e, f) == (e \in ByUrl) <=> (f \in ByUrl)

TypeOK ==
  /\ published \in 0..N /\ faults \in 0..MaxFaults
  /\ history \in Seq(Events) /\ Len(history) <= HISTORY_MAX
  /\ status \in Statuses
  /\ pumping \in BOOLEAN /\ unread \subseteq 1..published /\ gap \subseteq 1..published
  /\ buffer \in Seq(Events) /\ Len(buffer) <= BUFFER_MAX_EVENTS
  /\ conn \in [Clients -> Open \union {Off}]
  /\ \A c \in Clients :
       conn[c] # Off => Len(conn[c].queue) <= QUEUE_MAXSIZE /\ Len(conn[c].seen) <= SEEN_MAX
  /\ sent \in [Clients -> Seq(Events)] /\ lost \in [Clients -> SUBSET Events]
  /\ faded \subseteq Events

Init ==
  /\ published = 0
  /\ history = <<>> /\ status = "pending"
  /\ pumping = TRUE /\ unread = {} /\ gap = {}
  /\ buffer = <<>> /\ faded = {}
  /\ conn = [c \in Clients |-> Off]
  /\ sent = [c \in Clients |-> <<>>]
  /\ lost = [c \in Clients |-> {}]
  /\ faults = 0

Fault == faults < MaxFaults /\ faults' = faults + 1

------------------------------------------------------------------------------
(* index.events and its two readers. *)

Publish ==
  /\ published < N
  /\ published' = published + 1
  /\ IF pumping THEN unread' = unread \union {published + 1} /\ UNCHANGED gap
                ELSE gap' = gap \union {published + 1} /\ UNCHANGED unread
  /\ UNCHANGED <<history, status, pumping, memory, client, faults>>

(* record_status_event, in the order of each partition. *)
Record(e) ==
  /\ e \in 1..published \ SetOf(history)
  /\ \A f \in 1..(e - 1) : SamePartition(e, f) => f \in SetOf(history)
  /\ history' = Latest(Append(history, e), HISTORY_MAX)
  /\ status' = IF supersedes(status, StatusOf[e]) THEN StatusOf[e] ELSE status
  /\ UNCHANGED <<published, pump, memory, client, faults>>

(* Subscription.offer: a full queue loses the new event. *)
Offer(q, e) == IF Len(q) < QUEUE_MAXSIZE THEN Append(q, e) ELSE q

(* DEFECT: the buffer is an unbounded list. *)
RememberAll(e) ==
  /\ buffer' = Append(buffer, e)
  /\ faded' = faded \ {e}

(* DEFECT: the newest event is put at the front of the buffer. *)
RememberNewestFirst(e) ==
  /\ buffer' = SubSeq(<<e>> \o buffer, 1, IF Len(buffer) < BUFFER_MAX_EVENTS
                                             THEN Len(buffer) + 1 ELSE BUFFER_MAX_EVENTS)
  /\ faded' = faded \union (SetOf(buffer) \ SetOf(buffer'))

(* _remember: the oldest event falls out of a full buffer. *)
Remember(e) ==
  /\ buffer' = Latest(Append(buffer, e), BUFFER_MAX_EVENTS)
  /\ faded' = faded \union (SetOf(buffer) \ SetOf(buffer'))

(* The pump receives an event and publishes it to the dispatcher, without   *)
(* an await in between: the buffer, then every subscription.                *)
Pump(e) ==
  /\ pumping /\ e \in unread
  /\ \A f \in unread : SamePartition(e, f) => e <= f
  /\ unread' = unread \ {e}
  /\ Remember(e)
  /\ conn' = [c \in Clients |-> IF conn[c] = Off THEN Off
                                ELSE [conn[c] EXCEPT !.queue = Offer(@, e)]]
  /\ lost' = [c \in Clients |-> IF conn[c] # Off /\ Len(conn[c].queue) >= QUEUE_MAXSIZE
                                  THEN lost[c] \union {e} ELSE lost[c]]
  /\ UNCHANGED <<topic, pumping, gap, sent, faults>>

(* The consumer of the pump fails; the next one starts at the end of the    *)
(* topic (a new group, auto_offset_reset=latest).                           *)
PumpFails ==
  /\ pumping /\ Fault
  /\ pumping' = FALSE
  /\ gap' = gap \union unread /\ unread' = {}
  /\ UNCHANGED <<topic, memory, client>>

PumpReconnects ==
  /\ ~pumping /\ pumping' = TRUE
  /\ UNCHANGED <<topic, unread, gap, memory, client, faults>>

(* _prune: the events of other requests push this one out, by age or count. *)
Evict ==
  /\ buffer # <<>> /\ Fault
  /\ buffer' = <<>> /\ faded' = faded \union SetOf(buffer)
  /\ UNCHANGED <<topic, pump, client>>

------------------------------------------------------------------------------
(* stream_request. *)

(* DEFECT: the subscription starts empty, without a replay of the buffer. *)
ConnectNoReplay(c) ==
  /\ conn[c] = Off
  /\ conn' = [conn EXCEPT ![c] = [at |-> "loading", queue |-> <<>>, pending |-> 0,
                                  seen |-> <<>>, snap |-> <<>>, final |-> FALSE]]
  /\ sent' = [sent EXCEPT ![c] = <<>>]
  /\ lost' = [lost EXCEPT ![c] = {}]
  /\ UNCHANGED <<topic, pump, memory, faults>>

(* accept, then subscribe with a replay of the buffer. *)
Connect(c) ==
  /\ conn[c] = Off
  /\ LET kept == SubSeq(buffer, 1, IF Len(buffer) < QUEUE_MAXSIZE THEN Len(buffer)
                                                                   ELSE QUEUE_MAXSIZE)
     IN /\ conn' = [conn EXCEPT ![c] = [at |-> "loading", queue |-> kept, pending |-> 0,
                                        seen |-> <<>>, snap |-> <<>>, final |-> FALSE]]
        /\ lost' = [lost EXCEPT ![c] = SetOf(buffer) \ SetOf(kept)]
  /\ sent' = [sent EXCEPT ![c] = <<>>]
  /\ UNCHANGED <<topic, pump, memory, faults>>

(* DEFECT: the ids of the snapshot's history are not remembered. *)
LoadSnapshotUnseen(c) ==
  /\ conn[c] # Off /\ conn[c].at = "loading"
  /\ conn' = [conn EXCEPT ![c].at = "snapshot", ![c].snap = history,
                          ![c].final = is_final(status)]
  /\ UNCHANGED <<topic, pump, memory, sent, lost, faults>>

(* The row is read; the ids of its history are remembered. *)
LoadSnapshot(c) ==
  /\ conn[c] # Off /\ conn[c].at = "loading"
  /\ conn' = [conn EXCEPT ![c].at = "snapshot", ![c].snap = history,
                          ![c].seen = Latest(history, SEEN_MAX),
                          ![c].final = is_final(status)]
  /\ UNCHANGED <<topic, pump, memory, sent, lost, faults>>

(* The snapshot is sent; a final one ends the stream. *)
SendSnapshot(c) ==
  /\ conn[c] # Off /\ conn[c].at = "snapshot"
  /\ sent' = [sent EXCEPT ![c] = conn[c].snap]
  /\ conn' = [conn EXCEPT ![c] = IF @.final THEN Off ELSE [@ EXCEPT !.at = "live"]]
  /\ UNCHANGED <<topic, pump, memory, lost, faults>>

(* The pending task takes an event out of the queue. *)
Take(c) ==
  /\ conn[c] # Off /\ conn[c].at = "live"
  /\ conn[c].pending = 0 /\ conn[c].queue # <<>>
  /\ conn' = [conn EXCEPT ![c].pending = Head(conn[c].queue), ![c].queue = Tail(@)]
  /\ UNCHANGED <<topic, pump, memory, sent, lost, faults>>

(* DEFECT: the pending task is made anew after every heartbeat. *)
HeartbeatDrops(c) ==
  /\ conn[c] # Off /\ conn[c].at = "live"
  /\ conn' = [conn EXCEPT ![c].pending = 0]
  /\ UNCHANGED <<topic, pump, memory, sent, lost, faults>>

(* The wait times out, a ping is sent and the pending task is kept. *)
Heartbeat(c) ==
  /\ conn[c] # Off /\ conn[c].at = "live"
  /\ UNCHANGED vars

(* An event is taken from the task: dropped if seen, else sent. *)
Forward(c) ==
  /\ conn[c] # Off /\ conn[c].at = "live" /\ conn[c].pending # 0
  /\ LET e == conn[c].pending
     IN IF e \in SetOf(conn[c].seen)
          THEN conn' = [conn EXCEPT ![c].pending = 0] /\ UNCHANGED sent
          ELSE /\ sent' = [sent EXCEPT ![c] = Append(@, e)]
               /\ conn' = [conn EXCEPT ![c] =
                             IF is_final(StatusOf[e]) THEN Off
                             ELSE [@ EXCEPT !.pending = 0,
                                            !.seen = Latest(Append(conn[c].seen, e), SEEN_MAX)]]
  /\ UNCHANGED <<topic, pump, memory, lost, faults>>

(* The client goes away. *)
Disconnect(c) ==
  /\ conn[c] # Off /\ Fault
  /\ conn' = [conn EXCEPT ![c] = Off]
  /\ UNCHANGED <<topic, pump, memory, sent, lost>>

------------------------------------------------------------------------------
Stream(c) == LoadSnapshot(c) \/ SendSnapshot(c) \/ Take(c) \/ Forward(c)

Next == \/ Publish \/ PumpFails \/ PumpReconnects \/ Evict
        \/ \E e \in Events : Record(e) \/ Pump(e)
        \/ \E c \in Clients : Stream(c) \/ Connect(c) \/ Heartbeat(c) \/ Disconnect(c)

Spec == Init /\ [][Next]_vars

(* The request makes progress; projector, pump and connections run.         *)
FairSpec == /\ Spec
            /\ WF_vars(Publish) /\ WF_vars(PumpReconnects)
            /\ WF_vars(\E e \in Events : Record(e))
            /\ WF_vars(\E e \in Events : Pump(e))
            /\ \A c \in Clients : WF_vars(Stream(c))

------------------------------------------------------------------------------
(* A client gets no event twice on a connection, be it in the snapshot, in   *)
(* the replay of the buffer or live ("dedup by event_id").                  *)
NoDuplicates ==
  \A c \in Clients : \A i, j \in DOMAIN sent[c] : i # j => sent[c][i] # sent[c][j]

(* "an event can slip through between the SELECT and the subscription and    *)
(* would be lost": a live connection with nothing left in its queue has      *)
(* received every published event that the pump has passed, except those its *)
(* own queue had no room for, those the pump missed while it was             *)
(* disconnected and those that had left the replay buffer.                  *)
NothingSlipsThrough ==
  \A c \in Clients :
    (conn[c] # Off /\ conn[c].at = "live" /\ conn[c].queue = <<>> /\ conn[c].pending = 0)
      => (1..published) \ (unread \union lost[c] \union gap \union faded) \subseteq SetOf(sent[c])

(* What a client sees of a partition, first the history of the snapshot,     *)
(* then the replay of the buffer and the live events, is in the order of    *)
(* the topic: the stream never goes back behind the snapshot.               *)
StreamInOrder ==
  \A c \in Clients : \A i, j \in DOMAIN sent[c] :
    i < j /\ SamePartition(sent[c][i], sent[c][j]) => sent[c][i] < sent[c][j]

(* A connection ends by itself once the request is over, even if it missed   *)
(* other events: the last event, a final one, comes unless the queue had no  *)
(* room for it, the pump was not connected or it was evicted from the        *)
(* dispatcher ("After `final: true` the server closes the connection").  It  *)
(* is the last event of the request here: progress recorded after `skipped`, *)
(* which supersedes lets back in, is outside this module.                    *)
StreamEnds ==
  \A c \in Clients : conn[c] # Off ~> (conn[c] = Off \/ N \in lost[c] \union gap \union faded)
=============================================================================
