------------------------------- MODULE Gateway -------------------------------
(***************************************************************************)
(* The web gateway (vixel_web/gateway.py).  Three parts share its lock:    *)
(*  - the operations: enrollments and placements a browser starts, each    *)
(*    with a thread that sends the manager a goal and waits for it, while  *)
(*    feedback arrives on the executor's threads;                          *)
(*  - the connections: a bounded number of threads, each serving a poll    *)
(*    of a preview, a stream of previews or the stream of events;          *)
(*  - the previews: subscribed while somebody asks, dropped after 5 s.     *)
(* A step is what a thread does while it holds the lock.                   *)
(***************************************************************************)
EXTENDS FiniteSets, Functions, Naturals

CONSTANTS
  MaxOperations,  \* bound: operations the browsers start
  Connection,     \* connections it may open
  Sensor,         \* cameras with a preview
  max_active_operations,
  operation_history_limit,
  max_connections

ASSUME LimitAssumption ==
  /\ max_active_operations \in Nat \ {0}
  /\ operation_history_limit \in Nat \ {0}
  /\ max_connections \in Nat \ {0}
  /\ IsFiniteSet(Connection)
  /\ MaxOperations \in Nat

Operation == 1..MaxOperations \* a fresh ID each, in the order they start

VARIABLES
  operations, \* [operation kept -> its state]; the dictionary is in order of age
  worker,     \* what the thread of an operation does
  goal,       \* the goal it sent, as the manager has it
  feedback,   \* operations with a feedback message on its way
  revived,    \* history: operations whose feedback came after their end
  connection, \* what the thread of a connection does
  slots,      \* _connection_slots, what is left of it
  preview_topics,      \* cameras the manager says have a preview
  image_subscriptions, \* previews subscribed
  preview_demand,      \* [camera -> whether somebody asked in the last 5 s]
  frames,     \* cameras with a frame
  last        \* the frame a stream wrote last, compared with its camera's

operationVars == <<operations, worker, goal, feedback, revived>>
previewVars == <<preview_topics, image_subscriptions, preview_demand, frames, last>>
vars == <<operationVars, connection, slots, previewVars>>

\* "ended" stands for succeeded, failed and cancelled.
State == {"queued", "running", "ended"}
Thread == {"none", "ready", "waiting", "ended", "not started"}
\* The number of the last frame written (last_generation): none yet, lower
\* than the number of the camera's frame, the same, or higher, when the camera
\* was dropped and counts from one again.
Last == {"none", "older", "current", "ahead"}
Closed == [step |-> "closed"]
Accepted == [step |-> "accepted"]
\* Events are served without a camera.
Preview == [step : {"first", "wait", "again"}, kind : {"poll", "stream"},
            sensor : Sensor, left : BOOLEAN]
Events == [step : {"write"}, kind : {"events"}, left : BOOLEAN]
Request == Preview \cup Events

Init ==
  /\ operations = <<>>
  /\ worker = [o \in Operation |-> "none"] /\ goal = [o \in Operation |-> "none"]
  /\ feedback = {} /\ revived = {}
  /\ connection = [k \in Connection |-> Closed]
  /\ slots = max_connections
  /\ preview_topics = {} /\ image_subscriptions = {}
  /\ preview_demand = [s \in Sensor |-> "none"]
  /\ frames = {} /\ last = [k \in Connection |-> "none"]

(***************************************************************************)
(* Operations                                                              *)
(***************************************************************************)

(* ActiveRunning: an operation whose thread has not begun is not counted. *)
ActiveRunning == {o \in DOMAIN operations : operations[o] = "running"}

Active == {o \in DOMAIN operations : operations[o] # "ended"}

Kept(o) == o \in DOMAIN operations
StateOf(o) == IF Kept(o) THEN operations[o] ELSE "gone"

start_operation(o) ==
  /\ worker[o] = "none" /\ \A p \in 1..(o - 1) : worker[p] # "none"
  /\ Cardinality(Active) < max_active_operations
  /\ operations' = [p \in DOMAIN operations \cup {o} |->
                      IF p = o THEN "queued" ELSE operations[p]]
  /\ worker' = [worker EXCEPT ![o] = "ready"]
  /\ UNCHANGED <<goal, feedback, revived, connection, slots, previewVars>>

Later(items, p) == {q \in DOMAIN items : q > p}

(* PrunedOldest: the history is trimmed by age alone. *)
PrunedOldest(items) ==
  Restrict(items, {p \in DOMAIN items :
                     Cardinality(Later(items, p)) < operation_history_limit})

\* What an update leaves of the operations that ended: those that started last.
Pruned(items) ==
  LET ended == {p \in DOMAIN items : items[p] = "ended"}
      Recent(p) == Cardinality(ended \cap Later(items, p)) < operation_history_limit
  IN  Restrict(items, {p \in DOMAIN items : p \in ended => Recent(p)})

_update_operation(o, state) ==
  operations' = IF Kept(o) THEN Pruned([operations EXCEPT ![o] = state]) ELSE operations

\* The operation is registered, but its thread cannot be started.
OperationNotStarted(o) ==
  /\ worker[o] = "ready"
  /\ worker' = [worker EXCEPT ![o] = "not started"]
  /\ UNCHANGED <<operations, goal, feedback, revived, connection, slots, previewVars>>

_run_operation(o) ==
  /\ worker[o] = "ready"
  /\ _update_operation(o, "running")
  /\ worker' = [worker EXCEPT ![o] = "waiting"]
  /\ goal' = [goal EXCEPT ![o] = "sent"]
  /\ UNCHANGED <<feedback, revived, connection, slots, previewVars>>

\* The result or a refusal is here, or the wait for either is over; the goal
\* of an operation that timed out goes on.
WorkerEnds(o) ==
  /\ worker[o] = "waiting"
  /\ worker' = [worker EXCEPT ![o] = "ended"]
  /\ _update_operation(o, "ended")
  /\ UNCHANGED <<goal, feedback, revived, connection, slots, previewVars>>

ResultArrives(o) == goal[o] = "ended" /\ WorkerEnds(o)
(* NoTimeout: the wait for the result has no timeout. *)
NoTimeout(o) == goal[o] # "ended" /\ FALSE

WorkerTimesOut(o) == goal[o] # "ended" /\ WorkerEnds(o)

_operation_feedback(o) ==
  /\ o \in feedback
  /\ feedback' = feedback \ {o}
  /\ _update_operation(o, "running")
  /\ revived' = IF StateOf(o) = "ended" THEN revived \cup {o} ELSE revived
  /\ UNCHANGED <<worker, goal, connection, slots, previewVars>>

\* The manager runs a goal to its end with some feedback, or refuses it.
GoalProgresses(o) ==
  /\ goal[o] = "sent"
  /\ feedback' = feedback \cup {o}
  /\ UNCHANGED <<operations, worker, goal, revived, connection, slots, previewVars>>

GoalEnds(o) ==
  /\ goal[o] = "sent"
  /\ goal' = [goal EXCEPT ![o] = "ended"]
  /\ UNCHANGED <<operations, worker, feedback, revived, connection, slots, previewVars>>

(***************************************************************************)
(* Previews                                                                *)
(***************************************************************************)

(* SensorsKeepSubscriptions: what is no longer offered stays subscribed. *)
SensorsKeepSubscriptions(offered) ==
  /\ offered # preview_topics
  /\ preview_topics' = offered
  /\ UNCHANGED <<operationVars, connection, slots,
                 image_subscriptions, preview_demand, frames, last>>

Streams(k, s) ==
  connection[k] \in Preview /\ connection[k].kind = "stream" /\ connection[k].sensor = s

\* A state message of the manager: what is no longer offered is dropped,
\* with its frame, if it is subscribed.
_sensors(offered) ==
  /\ offered # preview_topics
  /\ preview_topics' = offered
  /\ LET dropped == image_subscriptions \ offered
     IN  /\ image_subscriptions' = image_subscriptions \ dropped
         /\ preview_demand' = [s \in Sensor |->
              IF s \in dropped THEN "none" ELSE preview_demand[s]]
         /\ frames' = frames \ dropped
         /\ last' = [k \in Connection |->
              IF last[k] # "none" /\ \E s \in dropped : Streams(k, s)
                THEN "ahead" ELSE last[k]]
  /\ UNCHANGED <<operationVars, connection, slots>>

request_preview(s) ==
  IF s \in preview_topics
    THEN /\ preview_demand' = [preview_demand EXCEPT ![s] = "recent"]
         /\ image_subscriptions' = image_subscriptions \cup {s}
    ELSE UNCHANGED <<preview_demand, image_subscriptions>>

\* Five seconds without a request.
DemandAges(s) ==
  /\ preview_demand[s] = "recent"
  /\ preview_demand' = [preview_demand EXCEPT ![s] = "old"]
  /\ UNCHANGED <<operationVars, connection, slots, preview_topics,
                 image_subscriptions, frames, last>>

(* ExpireDemandOnly: the subscription is left when its demand expires. *)
ExpireDemandOnly ==
  /\ \E s \in Sensor : preview_demand[s] = "old"
  /\ preview_demand' = [s \in Sensor |->
       IF preview_demand[s] = "old" THEN "none" ELSE preview_demand[s]]
  /\ UNCHANGED <<operationVars, connection, slots, preview_topics,
                 image_subscriptions, frames, last>>

_expire_preview_demand ==
  LET expired == {s \in Sensor : preview_demand[s] = "old"}
  IN  /\ expired # {}
      /\ preview_demand' = [s \in Sensor |->
           IF s \in expired THEN "none" ELSE preview_demand[s]]
      /\ image_subscriptions' = image_subscriptions \ expired
      /\ UNCHANGED <<operationVars, connection, slots, preview_topics, frames, last>>

\* Frames never end; a stream ahead of its camera is caught up with some time.
_frame(s) ==
  /\ s \in image_subscriptions
  /\ frames' = frames \cup {s}
  /\ \E caught \in SUBSET {k \in Connection : last[k] = "ahead"} :
       last' = [k \in Connection |->
         IF ~Streams(k, s) THEN last[k]
         ELSE IF last[k] = "current" THEN "older"
         ELSE IF k \in caught THEN "current"
         ELSE last[k]]
  /\ UNCHANGED <<operationVars, connection, slots, preview_topics,
                 image_subscriptions, preview_demand>>

(***************************************************************************)
(* Connections                                                             *)
(***************************************************************************)

Open(k) == connection[k] # Closed
Serving(k) == connection[k].step \notin {"closed", "accepted"}
GoTo(k, step) == connection' = [connection EXCEPT ![k].step = step]

\* A connection beyond the limit is answered at once and not kept.
process_request(k) ==
  /\ ~Open(k) /\ slots > 0
  /\ slots' = slots - 1
  /\ connection' = [connection EXCEPT ![k] = Accepted]
  /\ UNCHANGED <<operationVars, previewVars>>

Close(k) ==
  /\ connection' = [connection EXCEPT ![k] = Closed]
  /\ slots' = slots + 1
  /\ last' = [last EXCEPT ![k] = "none"]

(* SlotLost: a connection without a thread does not give its slot back. *)
SlotLost(k) ==
  /\ connection[k].step = "accepted"
  /\ connection' = [connection EXCEPT ![k] = Closed]
  /\ UNCHANGED <<operationVars, slots, previewVars>>

ThreadNotStarted(k) ==
  /\ connection[k].step = "accepted"
  /\ Close(k)
  /\ UNCHANGED <<operationVars, preview_topics, image_subscriptions, preview_demand, frames>>

\* The thread of the connection runs and reads the request.
process_request_thread(k, request) ==
  /\ connection[k].step = "accepted"
  /\ request.step \in {"first", "write"} /\ ~request.left
  /\ connection' = [connection EXCEPT ![k] = request]
  /\ UNCHANGED <<operationVars, slots, previewVars>>

\* Of a poll it makes no difference.
ClientLeaves(k) ==
  /\ Serving(k) /\ connection[k].kind # "poll" /\ ~connection[k].left
  /\ connection' = [connection EXCEPT ![k].left = TRUE]
  /\ UNCHANGED <<operationVars, slots, previewVars>>

\* The preview is asked for; a poll is answered and done, a stream goes on.
FirstRequest(k) ==
  LET s == connection[k].sensor
  IN  /\ connection[k].step = "first"
      /\ request_preview(s)
      /\ IF connection[k].kind = "stream" /\ s \in preview_topics
           THEN GoTo(k, "wait") /\ UNCHANGED <<slots, last>>
           ELSE Close(k)
      /\ UNCHANGED <<operationVars, preview_topics, frames>>

NewFrame(k) == IF last[k] = "none" THEN connection[k].sensor \in frames ELSE last[k] = "older"

(* StreamWritesOn: a broken pipe does not end the stream. *)
StreamWritesOn(k) ==
  /\ connection[k].step = "wait" /\ NewFrame(k)
  /\ GoTo(k, "again")
  /\ last' = [last EXCEPT ![k] = "current"]
  /\ UNCHANGED <<operationVars, slots, preview_topics, image_subscriptions,
                 preview_demand, frames>>

\* Writing to a client that has left ends the connection.
StreamWrites(k) ==
  /\ connection[k].step = "wait" /\ NewFrame(k)
  /\ IF connection[k].left
       THEN Close(k)
       ELSE /\ GoTo(k, "again")
            /\ last' = [last EXCEPT ![k] = "current"]
            /\ UNCHANGED slots
  /\ UNCHANGED <<operationVars, preview_topics, image_subscriptions, preview_demand, frames>>

\* Fifteen seconds without a frame: nothing is written.
StreamWaits(k) ==
  /\ connection[k].step = "wait" /\ ~NewFrame(k)
  /\ GoTo(k, "again")
  /\ UNCHANGED <<operationVars, slots, previewVars>>

StreamRequests(k) ==
  /\ connection[k].step = "again"
  /\ request_preview(connection[k].sensor)
  /\ GoTo(k, "wait")
  /\ UNCHANGED <<operationVars, slots, preview_topics, frames, last>>

\* A new state, or fifteen seconds: the event is written either way.
EventsWrite(k) ==
  /\ connection[k].step = "write" /\ connection[k].left
  /\ Close(k)
  /\ UNCHANGED <<operationVars, preview_topics, image_subscriptions, preview_demand, frames>>

ConnectionStep(k) ==
  \/ ThreadNotStarted(k)
  \/ \E request \in Request : process_request_thread(k, request)
  \/ FirstRequest(k)
  \/ StreamWrites(k)
  \/ StreamWaits(k)
  \/ StreamRequests(k)
  \/ EventsWrite(k)

Next ==
  \/ \E o \in Operation : start_operation(o)
  \/ \E o \in Operation : OperationNotStarted(o)
  \/ \E o \in Operation : _run_operation(o)
  \/ \E o \in Operation : ResultArrives(o)
  \/ \E o \in Operation : WorkerTimesOut(o)
  \/ \E o \in Operation : _operation_feedback(o)
  \/ \E o \in Operation : GoalProgresses(o)
  \/ \E o \in Operation : GoalEnds(o)
  \/ \E offered \in SUBSET Sensor : _sensors(offered)
  \/ \E s \in Sensor : DemandAges(s)
  \/ _expire_preview_demand
  \/ \E s \in Sensor : _frame(s)
  \/ \E k \in Connection : process_request(k)
  \/ \E k \in Connection : ClientLeaves(k)
  \/ \E k \in Connection : ConnectionStep(k)

(***************************************************************************)
(* Fairness.  A thread runs, or cannot be started; a wait for the manager  *)
(* ends with an answer or its timeout; five seconds pass and the timer     *)
(* that looks for old demand fires.  Nothing is assumed of the manager,    *)
(* the cameras or the browsers.                                            *)
(***************************************************************************)
Fairness ==
  /\ \A o \in Operation : /\ WF_vars(_run_operation(o) \/ OperationNotStarted(o))
                          /\ WF_vars(ResultArrives(o) \/ WorkerTimesOut(o))
  /\ \A k \in Connection : WF_vars(ConnectionStep(k))
  /\ \A s \in Sensor : WF_vars(DemandAges(s))
  /\ WF_vars(_expire_preview_demand)

Spec == Init /\ [][Next]_vars
LiveSpec == Spec /\ Fairness

(***************************************************************************)
(* Properties                                                              *)
(***************************************************************************)

\* Every variable stays in its set, and what is subscribed is on offer.
TypeOK ==
  /\ DOMAIN operations \subseteq Operation /\ operations \in [DOMAIN operations -> State]
  /\ worker \in [Operation -> Thread]
  /\ goal \in [Operation -> {"none", "sent", "ended"}]
  /\ feedback \subseteq Operation /\ revived \subseteq Operation
  /\ connection \in [Connection -> {Closed, Accepted} \cup Request]
  /\ slots \in Nat
  /\ preview_topics \subseteq Sensor
  /\ image_subscriptions \subseteq preview_topics
  /\ preview_demand \in [Sensor -> {"none", "recent", "old"}]
  /\ frames \subseteq Sensor /\ last \in [Connection -> Last]

\* No more operations run at a time than the limit allows, those whose thread
\* was never started counted, those that feedback brought back after their end
\* not.
ActiveLimit ==
  Cardinality(Active \ revived) <= max_active_operations

\* A browser can ask for the outcome of an operation until as many that were
\* started after it have ended as the history keeps: nothing else makes one
\* disappear, and never while its thread runs.  One that outlasts so many is
\* forgotten the moment it ends.
OutcomeKept ==
  [][\A o \in Operation :
       Kept(o) /\ ~Kept(o)' =>
         /\ worker[o]' = "ended"
         /\ Cardinality({p \in DOMAIN operations' : operations'[p] = "ended" /\ p > o})
              = operation_history_limit]_vars

\* Every operation ends, whether the manager answers or not; unless its thread
\* cannot be started, or feedback arrives after the end and sets it running for
\* good.
OperationsEnd ==
  \A o \in Operation :
    <>[](\/ StateOf(o) \notin {"queued", "running"}
         \/ worker[o] = "not started"
         \/ o \in revived)

\* A slot is taken by every open connection and by nothing else: no failure
\* to start a thread, refusal or broken connection loses or invents one.
SlotsConserved == slots + Cardinality({k \in Connection : Open(k)}) = max_connections

Starved(k) == connection[k].step \in {"wait", "again"} /\ ~NewFrame(k)
Withdrawn(k) == connection[k] \in Preview /\ connection[k].sensor \notin preview_topics

\* A connection whose client has left gives its slot back: that of the events
\* always, a stream unless it sees no new frame ever again, for that thread
\* never writes and never notices.  A preview that is withdrawn again and again
\* may take each frame away before the thread sees it.
LeavingFreesSlot ==
  \A k \in Connection :
    []<>~(Serving(k) /\ connection[k].left) \/ <>[]Starved(k) \/ []<>Withdrawn(k)

\* A preview nobody watches is unsubscribed: again and again it is off, or
\* there is a poll or a stream of it, which asks for it.  The events ask for
\* none.
PreviewReleased ==
  \A s \in Sensor :
    []<>(\/ s \notin image_subscriptions
         \/ \E k \in Connection : connection[k] \in Preview /\ connection[k].sensor = s)
=============================================================================
