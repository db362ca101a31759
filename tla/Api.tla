--------------------------------- MODULE Api ---------------------------------
(* The asyncio processes: the API (lifespan, POST /index, event pump and     *)
(* projector as tasks) and the projector as a process of its own             *)
(* (run-projector). A step of a coroutine runs to its next await.            *)
EXTENDS Naturals

CONSTANTS
  Requests,    \* POST /index calls
  MaxOutages   \* bound on broker outages, crashes and failing database calls

ASSUME OutagesAssumption == MaxOutages \in Nat

Hosts      == {"api", "process"}
Tasks      == {"pump", "projector", "standalone"}
Host(t)    == IF t = "standalone" THEN "process" ELSE "api"
Projectors == {"projector", "standalone"}
TasksOf(h) == {t \in Tasks : Host(t) = h}
Ended      == {"none", "returned", "cancelled", "raised"}

VARIABLES
  broker,    \* is Kafka reachable?
  phase,     \* phase[h]: "off", "starting", "serving", "stopping"
  stop,      \* stop[h]: the asyncio.Event
  task,      \* task[t]: where the coroutine is, or how it ended
  cancel,    \* cancel[t]: a cancellation has been requested
  producer,  \* AsyncProducer of the API: "none", "created", "started"
  call,      \* call[r]: "none", "sending", "inserting", or the answer
  accepted,  \* requests in index.requests
  rows,      \* requests with a row
  outages

apiVars == <<broker, phase, stop, task, cancel, producer, call, accepted, rows, outages>>
hostVars == <<phase, stop, producer>>
taskVars == <<task, cancel>>
callVars == <<call, accepted, rows>>

ApiTypeOK ==
  /\ broker \in BOOLEAN /\ outages \in 0..MaxOutages
  /\ phase \in [Hosts -> {"off", "starting", "serving", "stopping"}]
  /\ stop \in [Hosts -> BOOLEAN] /\ cancel \in [Tasks -> BOOLEAN]
  /\ task \in [Tasks -> Ended \union {"top", "connect", "read", "sleep", "close", "close_end"}]
  /\ producer \in {"none", "created", "started"}
  /\ call \in [Requests -> {"none", "sending", "inserting", "200", "500", "dropped"}]
  /\ accepted \subseteq Requests /\ rows \subseteq accepted

ApiInit ==
  /\ broker = TRUE /\ outages = 0
  /\ phase = [h \in Hosts |-> "off"] /\ stop = [h \in Hosts |-> FALSE]
  /\ task = [t \in Tasks |-> "none"] /\ cancel = [t \in Tasks |-> FALSE]
  /\ producer = "none"
  /\ call = [r \in Requests |-> "none"] /\ accepted = {} /\ rows = {}

Outage == outages < MaxOutages /\ outages' = outages + 1
NoOutage == UNCHANGED outages

BrokerDown == broker /\ Outage /\ broker' = FALSE /\ UNCHANGED <<hostVars, taskVars, callVars>>
BrokerUp == /\ ~broker /\ broker' = TRUE
            /\ UNCHANGED <<hostVars, taskVars, callVars, outages>>

------------------------------------------------------------------------------
(* The processes. *)

(* A process starts, or the supervisor starts it after it ended. *)
Launch(h) ==
  /\ phase[h] = "off"
  /\ phase' = [phase EXCEPT ![h] = "starting"]
  /\ stop' = [stop EXCEPT ![h] = FALSE]
  /\ producer' = IF h = "api" THEN "created" ELSE producer
  /\ UNCHANGED <<broker, taskVars, callVars, outages>>

(* The tasks of a process are gone with it. *)
Exit(h) ==
  /\ phase' = [phase EXCEPT ![h] = "off"]
  /\ task' = [t \in Tasks |-> IF Host(t) = h THEN "none" ELSE task[t]]
  /\ cancel' = [t \in Tasks |-> IF Host(t) = h THEN FALSE ELSE cancel[t]]
  /\ producer' = IF h = "api" THEN "none" ELSE producer

(* lifespan up to its yield: without a producer the API does not start; the  *)
(* tasks are created and not awaited.                                       *)
Serve(h) ==
  /\ phase[h] = "starting"
  /\ IF h = "api" /\ ~broker
       THEN Exit(h)
       ELSE /\ phase' = [phase EXCEPT ![h] = "serving"]
            /\ task' = [t \in Tasks |-> IF Host(t) = h THEN "top" ELSE task[t]]
            /\ producer' = IF h = "api" THEN "started" ELSE producer
            /\ UNCHANGED cancel
  /\ UNCHANGED <<broker, stop, callVars, outages>>

(* SIGTERM: the server lets its calls finish and leaves the yield, where the *)
(* event is set and the tasks cancelled without an await in between; the     *)
(* process of a projector only sets the event, its main coroutine wakes up   *)
(* later.                                                                   *)
Signal(h) ==
  /\ phase[h] = "serving"
  /\ h = "api" => \A r \in Requests : call[r] \notin {"sending", "inserting"}
  /\ phase' = [phase EXCEPT ![h] = "stopping"]
  /\ stop' = [stop EXCEPT ![h] = TRUE]
  /\ cancel' = IF h = "api"
                 THEN [t \in Tasks |-> cancel[t] \/ Host(t) = h]
                 ELSE cancel
  /\ UNCHANGED <<broker, task, producer, callVars, outages>>

(* DEFECT: _run_projector waits for the task without cancelling it. *)
WakeNoCancel ==
  /\ phase["process"] = "stopping" /\ ~cancel["standalone"]
  /\ UNCHANGED apiVars

(* _run_projector after stop.wait(): task.cancel(). *)
Wake ==
  /\ phase["process"] = "stopping" /\ ~cancel["standalone"]
  /\ cancel' = [cancel EXCEPT !["standalone"] = TRUE]
  /\ UNCHANGED <<broker, hostVars, task, callVars, outages>>

(* The process ends when its tasks have ended (await task, asyncio.run). *)
Stopped(h) ==
  /\ phase[h] = "stopping"
  /\ \A t \in TasksOf(h) : cancel[t] /\ task[t] \in Ended
  /\ Exit(h)
  /\ UNCHANGED <<broker, stop, callVars, outages>>

Crash(h) ==
  /\ phase[h] # "off" /\ Outage /\ Exit(h)
  /\ call' = IF h # "api" THEN call
             ELSE [r \in Requests |-> IF call[r] \in {"sending", "inserting"}
                                        THEN "dropped" ELSE call[r]]
  /\ UNCHANGED <<broker, stop, accepted, rows>>

------------------------------------------------------------------------------
(* run_event_pump with iter_events, and run_status_projector. *)

Goes(t, to) == task' = [task EXCEPT ![t] = to]

(* while not stop.is_set() *)
Top(t) ==
  /\ task[t] = "top" /\ ~cancel[t]
  /\ Goes(t, IF stop[Host(t)] THEN "returned" ELSE "connect")
  /\ UNCHANGED <<broker, hostVars, cancel, callVars, outages>>

(* DEFECT: iter_events is called before the try of run_event_pump. *)
StartConsumerAllRaise(t) ==
  /\ task[t] = "connect" /\ ~cancel[t]
  /\ Goes(t, IF broker THEN "read" ELSE "raised")
  /\ UNCHANGED <<broker, hostVars, cancel, callVars, outages>>

(* consumer.start(): inside the try of the pump, before the projector's. *)
StartConsumer(t) ==
  /\ task[t] = "connect" /\ ~cancel[t]
  /\ Goes(t, IF broker THEN "read"
             ELSE IF t \in Projectors THEN "raised" ELSE "sleep")
  /\ UNCHANGED <<broker, hostVars, cancel, callVars, outages>>

(* An event while stop is set: both loops break and close the consumer. *)
ReadStops(t) ==
  /\ task[t] = "read" /\ ~cancel[t] /\ stop[Host(t)]
  /\ Goes(t, "close")
  /\ UNCHANGED <<broker, hostVars, cancel, callVars, outages>>

(* The iteration raises, or the projector's transaction does: the pump       *)
(* closes its consumer and sleeps, the projector sleeps and closes.          *)
ReadFails(t) ==
  /\ task[t] = "read" /\ ~cancel[t]
  /\ \/ ~broker /\ NoOutage
     \/ t \in Projectors /\ Outage
  /\ Goes(t, "sleep")
  /\ UNCHANGED <<broker, hostVars, cancel, callVars>>

WakeUp(t) ==
  /\ task[t] = "sleep" /\ ~cancel[t]
  /\ Goes(t, IF t \in Projectors THEN "close" ELSE "top")
  /\ UNCHANGED <<broker, hostVars, cancel, callVars, outages>>

(* The end of the finally block. *)
Closed(t) ==
  /\ task[t] = "close" /\ ~cancel[t]
  /\ Goes(t, "top")
  /\ UNCHANGED <<broker, hostVars, cancel, callVars, outages>>

(* CancelledError is raised at the await and leaves both loops, through the  *)
(* finally block where there is an open consumer.                           *)
Cancelled(t) ==
  /\ cancel[t] /\ task[t] \notin Ended
  /\ Goes(t, IF task[t] = "read" \/ (task[t] = "sleep" /\ t \in Projectors)
               THEN "close_end" ELSE "cancelled")
  /\ UNCHANGED <<broker, hostVars, cancel, callVars, outages>>

------------------------------------------------------------------------------
(* POST /index *)

Post(r) ==
  /\ call[r] = "none" /\ phase["api"] = "serving"
  /\ call' = [call EXCEPT ![r] = "sending"]
  /\ UNCHANGED <<broker, hostVars, taskVars, accepted, rows, outages>>

(* send_and_wait: the broker has acknowledged the request. *)
Send(r) ==
  /\ call[r] = "sending" /\ producer = "started" /\ broker
  /\ call' = [call EXCEPT ![r] = "inserting"]
  /\ accepted' = accepted \union {r}
  /\ UNCHANGED <<broker, hostVars, taskVars, rows, outages>>

(* It raises; after a timeout the broker may have the request all the same. *)
SendRaises(r) ==
  /\ call[r] = "sending" /\ ~broker
  /\ call' = [call EXCEPT ![r] = "500"]
  /\ accepted' \in {accepted, accepted \union {r}}
  /\ UNCHANGED <<broker, hostVars, taskVars, rows, outages>>

(* DEFECT: a failing create_request is caught and the id returned anyway. *)
InsertCaught(r) ==
  /\ call[r] = "inserting"
  /\ call' = [call EXCEPT ![r] = "200"]
  /\ rows' \in {rows, rows \union {r}}
  /\ UNCHANGED <<broker, hostVars, taskVars, accepted, outages>>

Insert(r) ==
  /\ call[r] = "inserting"
  /\ call' = [call EXCEPT ![r] = "200"]
  /\ rows' = rows \union {r}
  /\ UNCHANGED <<broker, hostVars, taskVars, accepted, outages>>

(* create_request raises: the request runs, and the client does not know its id. *)
InsertRaises(r) ==
  /\ call[r] = "inserting" /\ Outage
  /\ call' = [call EXCEPT ![r] = "500"]
  /\ UNCHANGED <<broker, hostVars, taskVars, accepted, rows>>

------------------------------------------------------------------------------
TaskStep(t) == \/ Top(t) \/ StartConsumer(t) \/ WakeUp(t) \/ Closed(t) \/ Cancelled(t)
               \/ (ReadFails(t) /\ NoOutage)
HostStep(h) == Serve(h) \/ Stopped(h) \/ (h = "process" /\ Wake)
CallStep(r) == Send(r) \/ SendRaises(r) \/ Insert(r)

ApiNext == \/ BrokerDown \/ BrokerUp
           \/ \E h \in Hosts : Launch(h) \/ Signal(h) \/ Crash(h) \/ HostStep(h)
           \/ \E t \in Tasks : TaskStep(t) \/ ReadStops(t) \/ ReadFails(t)
           \/ \E r \in Requests : Post(r) \/ CallStep(r) \/ InsertRaises(r)

ApiSpec == ApiInit /\ [][ApiNext]_apiVars

(* Coroutines go on, the broker comes back, a process that is off is started *)
(* again. Signals, clients and events are not fair.                         *)
ApiFairSpec == /\ ApiSpec /\ WF_apiVars(BrokerUp)
               /\ \A h \in Hosts : WF_apiVars(HostStep(h)) /\ WF_apiVars(Launch(h))
               /\ \A t \in Tasks : WF_apiVars(TaskStep(t))
               /\ \A r \in Requests : WF_apiVars(CallStep(r))

------------------------------------------------------------------------------
(* "we return an HTTP response only once the request is really accepted,     *)
(* otherwise the client gets a task_id pointing at nothing": an id that was  *)
(* returned is in the topic and has a row.                                  *)
AnsweredIsAccepted == \A r \in Requests : call[r] = "200" => r \in accepted \intersect rows

(* run_event_pump "reconnects when the connection drops", the projector logs *)
(* "reconnecting in 2s": while its host serves, a task reads again after     *)
(* every outage. The one exception is a projector that met the outage in     *)
(* consumer.start(), which is outside its try: it has ended for good.        *)
TasksComeBack ==
  \A t \in Tasks :
    phase[Host(t)] = "serving"
      ~> \/ task[t] = "read" \/ phase[Host(t)] # "serving"
         \/ t \in Projectors /\ task[t] = "raised"

(* A process that is told to stop ends, wherever its tasks are waiting and   *)
(* although no event comes that would wake them.  consumer.stop() and        *)
(* producer.stop() are taken to return.                                      *)
StopEnds == \A h \in Hosts : phase[h] = "stopping" ~> phase[h] = "off"
=============================================================================
