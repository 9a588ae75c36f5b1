----------------------------- MODULE GatewayProofs -----------------------------
(***************************************************************************)
(* Theorems about Gateway, for any operations, connections, cameras and    *)
(* limits.                                                                 *)
(***************************************************************************)
EXTENDS Gateway, FiniteSetTheorems, FunctionTheorems, TLAPS

(* An operation is over only when its thread is, although its state may be *)
(* set to running again afterwards.                                        *)
EndedByWorker ==
  \A o \in DOMAIN operations : operations[o] = "ended" => worker[o] = "ended"

(* The three parts of the gateway share nothing but requests for previews: *)
(* each keeps its own invariant.                                           *)
OperationInv ==
  /\ DOMAIN operations \subseteq Operation /\ operations \in [DOMAIN operations -> State]
  /\ worker \in [Operation -> Thread]
  /\ goal \in [Operation -> {"none", "sent", "ended"}]
  /\ feedback \subseteq Operation /\ revived \subseteq Operation
  /\ EndedByWorker
  /\ ActiveLimit

PreviewInv ==
  /\ preview_topics \subseteq Sensor
  /\ image_subscriptions \subseteq preview_topics
  /\ preview_demand \in [Sensor -> {"none", "recent", "old"}]
  /\ frames \subseteq Sensor /\ last \in [Connection -> Last]

ConnectionInv ==
  /\ connection \in [Connection -> {Closed, Accepted} \cup Request]
  /\ slots \in Nat
  /\ SlotsConserved

IInv == OperationInv /\ PreviewInv /\ ConnectionInv

----------------------------------------------------------------------------
(* Sets of operations and connections are finite                           *)

LEMMA OperationFacts == Operation \subseteq Nat /\ IsFiniteSet(Operation)
<1>1. IsFiniteSet(1..MaxOperations)
  BY LimitAssumption, FS_Interval
<1>. QED
  BY <1>1, LimitAssumption DEF Operation

LEMMA SubsetCardinality ==
  ASSUME NEW T, IsFiniteSet(T), NEW S, S \subseteq T
  PROVE  /\ IsFiniteSet(S) /\ Cardinality(S) \in Nat /\ Cardinality(T) \in Nat
         /\ Cardinality(S) <= Cardinality(T)
BY FS_Subset, FS_CardinalityType

(* Opening a connection takes one slot, closing it gives one back.         *)
LEMMA OneConnection ==
  ASSUME NEW S, S \subseteq Connection, NEW k \in Connection
  PROVE  /\ Cardinality(S) \in Nat
         /\ k \notin S => Cardinality(S \cup {k}) = Cardinality(S) + 1
         /\ k \in S => Cardinality(S \ {k}) = Cardinality(S) - 1
<1>1. IsFiniteSet(S) /\ Cardinality(S) \in Nat
  BY LimitAssumption, SubsetCardinality
<1>. QED
  BY <1>1, FS_AddElement, FS_RemoveElement

----------------------------------------------------------------------------
(* _update_operation                                                       *)

LEMMA PrunedEffect ==
  ASSUME NEW items
  PROVE  /\ DOMAIN Pruned(items) \subseteq DOMAIN items
         /\ \A p \in DOMAIN Pruned(items) : Pruned(items)[p] = items[p]
         /\ \A p \in DOMAIN items : items[p] # "ended" => p \in DOMAIN Pruned(items)
         /\ Pruned(items) \in [DOMAIN Pruned(items) -> {items[p] : p \in DOMAIN items}]
BY DEF Pruned, Restrict

(* What an update does to the map: one state changes, and only operations  *)
(* that ended may disappear.                                               *)
LEMMA UpdateEffect ==
  ASSUME OperationInv, NEW o \in Operation, NEW state \in State, _update_operation(o, state)
  PROVE  /\ DOMAIN operations' \subseteq DOMAIN operations
         /\ operations' \in [DOMAIN operations' -> State]
         /\ \A p \in DOMAIN operations' :
              operations'[p] = IF p = o THEN state ELSE operations[p]
         /\ \A p \in DOMAIN operations \ DOMAIN operations' :
              (IF p = o THEN state ELSE operations[p]) = "ended"
<1>1. CASE ~Kept(o)
  BY <1>1 DEF _update_operation, Kept, OperationInv
<1>2. CASE Kept(o)
  <2>. DEFINE items == [operations EXCEPT ![o] = state]
  <2>1. /\ DOMAIN items = DOMAIN operations /\ items \in [DOMAIN operations -> State]
        /\ \A p \in DOMAIN operations : items[p] = IF p = o THEN state ELSE operations[p]
    BY <1>2 DEF Kept, OperationInv
  <2>2. operations' = Pruned(items)
    BY <1>2 DEF _update_operation
  <2>. HIDE DEF items
  <2>. QED
    BY <2>1, <2>2, PrunedEffect
<1>. QED
  BY <1>1, <1>2

(* An update to running or ended adds no active operation, but for one that*)
(* had ended and is then counted as revived.                               *)
LEMMA UpdateInv ==
  ASSUME OperationInv, NEW o \in Operation, NEW state \in {"running", "ended"},
         _update_operation(o, state), worker' \in [Operation -> Thread],
         \A p \in Operation : worker[p] = "ended" => worker'[p] = "ended",
         state = "ended" => worker'[o] = "ended",
         revived \subseteq revived', revived' \subseteq Operation,
         StateOf(o) = "ended" /\ state = "running" => o \in revived'
  PROVE  /\ DOMAIN operations' \subseteq Operation
         /\ operations' \in [DOMAIN operations' -> State]
         /\ EndedByWorker' /\ ActiveLimit'
<1>1. state \in State
  BY DEF State
<1>2. /\ DOMAIN operations' \subseteq DOMAIN operations
      /\ operations' \in [DOMAIN operations' -> State]
      /\ \A p \in DOMAIN operations' :
           operations'[p] = IF p = o THEN state ELSE operations[p]
  BY <1>1, UpdateEffect
<1>3. DOMAIN operations' \subseteq Operation
  BY <1>2 DEF OperationInv
<1>4. EndedByWorker'
  BY <1>2, <1>3 DEF EndedByWorker, OperationInv
<1>5. Active' \ revived' \subseteq Active \ revived
  BY <1>2 DEF Active, StateOf, Kept
<1>6. IsFiniteSet(Active \ revived)
  BY OperationFacts, SubsetCardinality DEF OperationInv, Active
<1>7. ActiveLimit'
  <2>1. Cardinality(Active' \ revived') <= Cardinality(Active \ revived)
    BY <1>5, <1>6, SubsetCardinality
  <2>2. Cardinality(Active' \ revived') \in Nat /\ Cardinality(Active \ revived) \in Nat
    BY <1>5, <1>6, SubsetCardinality
  <2>. QED
    BY <2>1, <2>2, LimitAssumption DEF ActiveLimit, OperationInv
<1>. QED
  BY <1>2, <1>3, <1>4, <1>7

----------------------------------------------------------------------------
(* The operations                                                          *)

LEMMA StartInv ==
  ASSUME OperationInv, NEW o \in Operation, start_operation(o)
  PROVE  OperationInv'
<1>1. /\ DOMAIN operations' = DOMAIN operations \cup {o}
      /\ operations' \in [DOMAIN operations' -> State]
      /\ \A p \in DOMAIN operations' :
           operations'[p] = IF p = o THEN "queued" ELSE operations[p]
  BY DEF start_operation, OperationInv, State
<1>2. /\ worker' \in [Operation -> Thread]
      /\ \A p \in Operation \ {o} : worker'[p] = worker[p]
      /\ UNCHANGED <<goal, feedback, revived>>
  BY DEF start_operation, OperationInv, Thread
<1>3. EndedByWorker'
  BY <1>1, <1>2 DEF EndedByWorker, OperationInv
<1>4. ActiveLimit'
  <2>1. Active \subseteq Operation /\ IsFiniteSet(Active) /\ Cardinality(Active) \in Nat
    BY OperationFacts, SubsetCardinality DEF OperationInv, Active
  <2>2. /\ IsFiniteSet(Active \cup {o})
        /\ Cardinality(Active \cup {o}) <= Cardinality(Active) + 1
    BY <2>1, FS_AddElement
  <2>3. Active' \ revived' \subseteq Active \cup {o}
    BY <1>1 DEF Active
  <2>4. /\ Cardinality(Active' \ revived') <= Cardinality(Active \cup {o})
        /\ Cardinality(Active' \ revived') \in Nat /\ Cardinality(Active \cup {o}) \in Nat
    BY <2>2, <2>3, SubsetCardinality
  <2>5. Cardinality(Active) < max_active_operations
    BY DEF start_operation
  <2>. QED
    BY <2>1, <2>2, <2>4, <2>5, LimitAssumption DEF ActiveLimit
<1>. QED
  BY <1>1, <1>2, <1>3, <1>4 DEF OperationInv

LEMMA RunInv ==
  ASSUME OperationInv, NEW o \in Operation, _run_operation(o)
  PROVE  OperationInv'
<1>1. /\ worker' \in [Operation -> Thread]
      /\ \A p \in Operation : worker[p] = "ended" => worker'[p] = "ended"
      /\ goal' \in [Operation -> {"none", "sent", "ended"}]
      /\ UNCHANGED <<feedback, revived>>
  BY DEF _run_operation, OperationInv, Thread
<1>2. StateOf(o) # "ended"
  BY DEF _run_operation, OperationInv, EndedByWorker, StateOf, Kept
<1>3. _update_operation(o, "running")
  BY DEF _run_operation
<1>4. revived \subseteq revived' /\ revived' \subseteq Operation
  BY <1>1 DEF OperationInv
<1>5. /\ DOMAIN operations' \subseteq Operation
      /\ operations' \in [DOMAIN operations' -> State]
      /\ EndedByWorker' /\ ActiveLimit'
  BY <1>1, <1>2, <1>3, <1>4, UpdateInv
<1>. QED
  BY <1>1, <1>5 DEF OperationInv

LEMMA WorkerEndsInv ==
  ASSUME OperationInv, NEW o \in Operation, WorkerEnds(o)
  PROVE  OperationInv'
<1>1. /\ worker' \in [Operation -> Thread]
      /\ \A p \in Operation : worker[p] = "ended" => worker'[p] = "ended"
      /\ worker'[o] = "ended"
      /\ UNCHANGED <<goal, feedback, revived>>
  BY DEF WorkerEnds, OperationInv, Thread
<1>2. _update_operation(o, "ended")
  BY DEF WorkerEnds
<1>3. revived \subseteq revived' /\ revived' \subseteq Operation
  BY <1>1 DEF OperationInv
<1>4. /\ DOMAIN operations' \subseteq Operation
      /\ operations' \in [DOMAIN operations' -> State]
      /\ EndedByWorker' /\ ActiveLimit'
  BY <1>1, <1>2, <1>3, UpdateInv
<1>. QED
  BY <1>1, <1>4 DEF OperationInv

LEMMA FeedbackInv ==
  ASSUME OperationInv, NEW o \in Operation, _operation_feedback(o)
  PROVE  OperationInv'
<1>1. /\ UNCHANGED <<worker, goal>> /\ feedback' \subseteq Operation
      /\ revived \subseteq revived' /\ revived' \subseteq Operation
      /\ StateOf(o) = "ended" => o \in revived'
  BY DEF _operation_feedback, OperationInv
<1>2. _update_operation(o, "running")
  BY DEF _operation_feedback
<1>3. worker' \in [Operation -> Thread]
  BY <1>1 DEF OperationInv
<1>4. /\ DOMAIN operations' \subseteq Operation
      /\ operations' \in [DOMAIN operations' -> State]
      /\ EndedByWorker' /\ ActiveLimit'
  BY <1>1, <1>2, <1>3, UpdateInv
<1>. QED
  BY <1>1, <1>3, <1>4 DEF OperationInv

LEMMA NotStartedInv ==
  ASSUME OperationInv, NEW o \in Operation, OperationNotStarted(o)
  PROVE  OperationInv'
<1>1. /\ worker' \in [Operation -> Thread]
      /\ \A p \in Operation : worker[p] = "ended" => worker'[p] = "ended"
      /\ UNCHANGED <<operations, goal, feedback, revived>>
  BY DEF OperationNotStarted, OperationInv, Thread
<1>. QED
  BY <1>1 DEF OperationInv, EndedByWorker, ActiveLimit, Active

(* The manager's part of an operation.                                     *)
LEMMA GoalInv ==
  ASSUME OperationInv, NEW o \in Operation, GoalProgresses(o) \/ GoalEnds(o)
  PROVE  OperationInv'
<1>1. UNCHANGED <<operations, worker, revived>>
  BY DEF GoalProgresses, GoalEnds
<1>2. goal' \in [Operation -> {"none", "sent", "ended"}] /\ feedback' \subseteq Operation
  BY DEF GoalProgresses, GoalEnds, OperationInv
<1>. QED
  BY <1>1, <1>2 DEF OperationInv, EndedByWorker, ActiveLimit, Active

LEMMA OperationFrame ==
  ASSUME OperationInv, UNCHANGED operationVars
  PROVE  OperationInv'
BY DEF OperationInv, operationVars, EndedByWorker, ActiveLimit, Active

----------------------------------------------------------------------------
(* The previews                                                            *)

LEMMA LastType ==
  ASSUME PreviewInv, NEW k \in Connection,
         \/ Close(k)
         \/ last' = [last EXCEPT ![k] = "current"]
         \/ UNCHANGED last
  PROVE  last' \in [Connection -> Last]
BY DEF PreviewInv, Close, Last

LEMMA RequestPreviewInv ==
  ASSUME PreviewInv, NEW s \in Sensor, request_preview(s),
         UNCHANGED <<preview_topics, frames>>, last' \in [Connection -> Last]
  PROVE  PreviewInv'
BY DEF request_preview, PreviewInv

LEMMA PreviewSteps ==
  ASSUME PreviewInv,
         \/ \E offered \in SUBSET Sensor : _sensors(offered)
         \/ \E s \in Sensor : DemandAges(s)
         \/ _expire_preview_demand
         \/ \E s \in Sensor : _frame(s)
  PROVE  PreviewInv' /\ UNCHANGED <<operationVars, connection, slots>>
<1>1. ASSUME NEW offered \in SUBSET Sensor, _sensors(offered)
      PROVE  PreviewInv' /\ UNCHANGED <<operationVars, connection, slots>>
  BY <1>1 DEF _sensors, PreviewInv, Last
<1>2. ASSUME NEW s \in Sensor, DemandAges(s)
      PROVE  PreviewInv' /\ UNCHANGED <<operationVars, connection, slots>>
  BY <1>2 DEF DemandAges, PreviewInv
<1>3. CASE _expire_preview_demand
  BY <1>3 DEF _expire_preview_demand, PreviewInv
<1>4. ASSUME NEW s \in Sensor, _frame(s)
      PROVE  PreviewInv' /\ UNCHANGED <<operationVars, connection, slots>>
  <2>1. last' \in [Connection -> Last]
    BY <1>4 DEF _frame, PreviewInv, Last
  <2>. QED
    BY <1>4, <2>1 DEF _frame, PreviewInv
<1>. QED
  BY <1>1, <1>2, <1>3, <1>4

LEMMA PreviewFrame ==
  ASSUME PreviewInv, UNCHANGED previewVars
  PROVE  PreviewInv'
BY DEF PreviewInv, previewVars

LEMMA LastInv ==
  ASSUME PreviewInv, last' \in [Connection -> Last],
         UNCHANGED <<preview_topics, image_subscriptions, preview_demand, frames>>
  PROVE  PreviewInv'
BY DEF PreviewInv

----------------------------------------------------------------------------
(* The connections                                                         *)

OpenConnections == {k \in Connection : Open(k)}

LEMMA RequestRecord ==
  ASSUME NEW r \in Request
  PROVE  /\ r # Closed /\ r # Accepted
         /\ [r EXCEPT !.left = TRUE] \in Request
         /\ r.step # "write" =>
              /\ r.sensor \in Sensor
              /\ \A step \in {"wait", "again"} : [r EXCEPT !.step = step] \in Request
<1>1. CASE r \in Preview
  <2>1. r.step \in {"first", "wait", "again"} /\ r.sensor \in Sensor
    BY <1>1 DEF Preview
  <2>2. r # Closed /\ r # Accepted
    BY <2>1 DEF Closed, Accepted
  <2>3. /\ [r EXCEPT !.left = TRUE] \in Preview
        /\ \A step \in {"wait", "again"} : [r EXCEPT !.step = step] \in Preview
    BY <1>1 DEF Preview
  <2>. QED
    BY <2>1, <2>2, <2>3 DEF Request
<1>2. CASE r \in Events
  <2>1. r.step = "write"
    BY <1>2 DEF Events
  <2>2. r # Closed /\ r # Accepted
    BY <2>1 DEF Closed, Accepted
  <2>3. [r EXCEPT !.left = TRUE] \in Events
    BY <1>2 DEF Events
  <2>. QED
    BY <2>1, <2>2, <2>3 DEF Request
<1>. QED
  BY <1>1, <1>2 DEF Request

(* A connection that is being served holds a request.                      *)
LEMMA ServedRequest ==
  ASSUME ConnectionInv, NEW k \in Connection
  PROVE  /\ connection[k].step \notin {"closed", "accepted"} =>
              connection[k] \in Request /\ Open(k)
         /\ connection[k].step = "accepted" => Open(k)
BY RequestRecord DEF ConnectionInv, Closed, Accepted, Open

LEMMA CloseInv ==
  ASSUME ConnectionInv, NEW k \in Connection, Open(k), Close(k)
  PROVE  ConnectionInv'
<1>1. /\ connection' \in [Connection -> {Closed, Accepted} \cup Request]
      /\ slots' \in Nat /\ slots' = slots + 1
  BY DEF Close, ConnectionInv
<1>2. OpenConnections' = OpenConnections \ {k} /\ k \in OpenConnections
  BY DEF Close, ConnectionInv, OpenConnections, Open
<1>3. OpenConnections \subseteq Connection
  BY DEF OpenConnections
<1>4. SlotsConserved'
  BY <1>1, <1>2, <1>3, OneConnection
  DEF ConnectionInv, SlotsConserved, OpenConnections
<1>. QED
  BY <1>1, <1>4 DEF ConnectionInv

LEMMA OpenInv ==
  ASSUME ConnectionInv, NEW k \in Connection, process_request(k)
  PROVE  ConnectionInv'
<1>1. /\ connection' \in [Connection -> {Closed, Accepted} \cup Request]
      /\ slots' \in Nat /\ slots' = slots - 1
  BY DEF process_request, ConnectionInv
<1>2. OpenConnections' = OpenConnections \cup {k} /\ k \notin OpenConnections
  BY DEF process_request, ConnectionInv, OpenConnections, Open, Closed, Accepted
<1>3. OpenConnections \subseteq Connection
  BY DEF OpenConnections
<1>4. SlotsConserved'
  BY <1>1, <1>2, <1>3, OneConnection
  DEF ConnectionInv, SlotsConserved, OpenConnections
<1>. QED
  BY <1>1, <1>4 DEF ConnectionInv

(* An open connection goes on.                                             *)
LEMMA GoOnInv ==
  ASSUME ConnectionInv, NEW k \in Connection, Open(k), NEW r \in Request,
         connection' = [connection EXCEPT ![k] = r], UNCHANGED slots
  PROVE  ConnectionInv'
<1>1. connection' \in [Connection -> {Closed, Accepted} \cup Request] /\ slots' \in Nat
  BY DEF ConnectionInv
<1>2. OpenConnections' = OpenConnections
  BY RequestRecord DEF ConnectionInv, OpenConnections, Open
<1>3. SlotsConserved'
  BY <1>2 DEF ConnectionInv, SlotsConserved, OpenConnections
<1>. QED
  BY <1>1, <1>3 DEF ConnectionInv

(* Only a request for a preview goes on from step to step.                 *)
LEMMA GoToInv ==
  ASSUME ConnectionInv, NEW k \in Connection,
         connection[k].step \in {"first", "wait", "again"},
         NEW step \in {"wait", "again"}, GoTo(k, step), UNCHANGED slots
  PROVE  ConnectionInv'
<1>1. connection[k] \in Request /\ Open(k) /\ connection[k].step # "write"
  BY ServedRequest
<1>2. [connection[k] EXCEPT !.step = step] \in Request
  BY <1>1, RequestRecord
<1>3. connection' = [connection EXCEPT ![k] = [connection[k] EXCEPT !.step = step]]
  BY DEF GoTo, ConnectionInv
<1>. QED
  BY <1>1, <1>2, <1>3, GoOnInv

LEMMA ConnectionFrame ==
  ASSUME ConnectionInv, UNCHANGED <<connection, slots>>
  PROVE  ConnectionInv'
BY DEF ConnectionInv, SlotsConserved, Open

LEMMA ConnectionSteps ==
  ASSUME PreviewInv, ConnectionInv, NEW k \in Connection,
         process_request(k) \/ ClientLeaves(k) \/ ConnectionStep(k)
  PROVE  PreviewInv' /\ ConnectionInv' /\ UNCHANGED operationVars
<1>1. CASE process_request(k)
  <2>1. UNCHANGED <<operationVars, previewVars>>
    BY <1>1 DEF process_request
  <2>. QED
    BY <1>1, <2>1, OpenInv, PreviewFrame
<1>2. CASE ClientLeaves(k)
  <2>1. UNCHANGED <<operationVars, previewVars, slots>>
    BY <1>2 DEF ClientLeaves
  <2>2. connection[k] \in Request /\ Open(k)
    BY <1>2, ServedRequest DEF ClientLeaves, Serving
  <2>3. connection' = [connection EXCEPT ![k] = [connection[k] EXCEPT !.left = TRUE]]
    BY <1>2 DEF ClientLeaves, ConnectionInv
  <2>4. [connection[k] EXCEPT !.left = TRUE] \in Request
    BY <2>2, RequestRecord
  <2>. QED
    BY <2>1, <2>2, <2>3, <2>4, GoOnInv, PreviewFrame
<1>3. CASE ThreadNotStarted(k)
  <2>1. Close(k) /\ Open(k)
    BY <1>3, ServedRequest DEF ThreadNotStarted
  <2>2. UNCHANGED <<operationVars, preview_topics, image_subscriptions, preview_demand, frames>>
    BY <1>3 DEF ThreadNotStarted
  <2>. QED
    BY <2>1, <2>2, CloseInv, LastType, LastInv
<1>4. ASSUME NEW request \in Request, process_request_thread(k, request)
      PROVE  PreviewInv' /\ ConnectionInv' /\ UNCHANGED operationVars
  <2>1. connection' = [connection EXCEPT ![k] = request]
    BY <1>4 DEF process_request_thread
  <2>2. Open(k) /\ UNCHANGED <<operationVars, slots, previewVars>>
    BY <1>4, ServedRequest DEF process_request_thread
  <2>. QED
    BY <2>1, <2>2, GoOnInv, PreviewFrame
<1>5. CASE FirstRequest(k)
  <2>1. connection[k].step = "first"
    BY <1>5 DEF FirstRequest
  <2>2. connection[k] \in Request /\ Open(k) /\ connection[k].sensor \in Sensor
    BY <2>1, ServedRequest, RequestRecord
  <2>3. Close(k) \/ (GoTo(k, "wait") /\ UNCHANGED <<slots, last>>)
    BY <1>5 DEF FirstRequest
  <2>4. last' \in [Connection -> Last]
    BY <2>3, LastType
  <2>5. PreviewInv' /\ UNCHANGED operationVars
    BY <1>5, <2>2, <2>4, RequestPreviewInv DEF FirstRequest
  <2>. QED
    BY <2>1, <2>2, <2>3, <2>5, CloseInv, GoToInv
<1>6. CASE StreamWrites(k)
  <2>1. connection[k].step = "wait"
    BY <1>6 DEF StreamWrites
  <2>2. Open(k)
    BY <2>1, ServedRequest
  <2>3. UNCHANGED <<operationVars, preview_topics, image_subscriptions, preview_demand, frames>>
    BY <1>6 DEF StreamWrites
  <2>4. CASE Close(k)
    BY <2>2, <2>3, <2>4, CloseInv, LastType, LastInv
  <2>5. CASE ~Close(k)
    <3>1. GoTo(k, "again") /\ last' = [last EXCEPT ![k] = "current"] /\ UNCHANGED slots
      BY <1>6, <2>5 DEF StreamWrites
    <3>. QED
      BY <2>1, <2>3, <3>1, GoToInv, LastType, LastInv
  <2>. QED
    BY <2>4, <2>5
<1>7. CASE StreamWaits(k)
  <2>1. connection[k].step = "wait" /\ GoTo(k, "again") /\ UNCHANGED slots
    BY <1>7 DEF StreamWaits
  <2>2. UNCHANGED <<operationVars, previewVars>>
    BY <1>7 DEF StreamWaits
  <2>. QED
    BY <2>1, <2>2, GoToInv, PreviewFrame
<1>8. CASE StreamRequests(k)
  <2>1. connection[k].step = "again" /\ GoTo(k, "wait") /\ UNCHANGED slots
    BY <1>8 DEF StreamRequests
  <2>2. connection[k].sensor \in Sensor
    BY <2>1, ServedRequest, RequestRecord
  <2>3. last' \in [Connection -> Last]
    BY <1>8, LastType DEF StreamRequests
  <2>4. PreviewInv' /\ UNCHANGED operationVars
    BY <1>8, <2>2, <2>3, RequestPreviewInv DEF StreamRequests
  <2>. QED
    BY <2>1, <2>4, GoToInv
<1>9. CASE EventsWrite(k)
  <2>1. Close(k) /\ Open(k)
    BY <1>9, ServedRequest DEF EventsWrite
  <2>2. UNCHANGED <<operationVars, preview_topics, image_subscriptions, preview_demand, frames>>
    BY <1>9 DEF EventsWrite
  <2>. QED
    BY <2>1, <2>2, CloseInv, LastType, LastInv
<1>. QED
  BY <1>1, <1>2, <1>3, <1>4, <1>5, <1>6, <1>7, <1>8, <1>9 DEF ConnectionStep

----------------------------------------------------------------------------
(* The invariant                                                           *)

LEMMA InitInv == Init => IInv
<1>. SUFFICES ASSUME Init PROVE IInv
  OBVIOUS
<1>1. DOMAIN operations = {} /\ operations \in [DOMAIN operations -> State]
  BY DEF Init
<1>2. OperationInv
  <2>1. Active \ revived = {}
    BY <1>1 DEF Active
  <2>2. ActiveLimit
    BY <2>1, FS_EmptySet, LimitAssumption DEF ActiveLimit
  <2>. QED
    BY <1>1, <2>2 DEF Init, OperationInv, EndedByWorker, Thread
<1>3. PreviewInv
  BY DEF Init, PreviewInv, Last
<1>4. ConnectionInv
  <2>1. OpenConnections = {}
    BY DEF Init, OpenConnections, Open
  <2>2. Cardinality(OpenConnections) = 0 /\ slots = max_connections
    BY <2>1, FS_EmptySet DEF Init
  <2>3. SlotsConserved
    BY <2>2, LimitAssumption DEF SlotsConserved, OpenConnections
  <2>. QED
    BY <2>3, LimitAssumption DEF Init, ConnectionInv
<1>. QED
  BY <1>2, <1>3, <1>4 DEF IInv

OperationStep(o) ==
  \/ start_operation(o)
  \/ OperationNotStarted(o)
  \/ _run_operation(o)
  \/ ResultArrives(o)
  \/ WorkerTimesOut(o)
  \/ _operation_feedback(o)
  \/ GoalProgresses(o)
  \/ GoalEnds(o)

LEMMA OperationSteps ==
  ASSUME OperationInv, NEW o \in Operation, OperationStep(o)
  PROVE  OperationInv' /\ UNCHANGED <<previewVars, connection, slots>>
<1>1. OperationInv'
  BY StartInv, NotStartedInv, RunInv, WorkerEndsInv, FeedbackInv, GoalInv
  DEF OperationStep, ResultArrives, WorkerTimesOut
<1>2. UNCHANGED <<previewVars, connection, slots>>
  BY DEF OperationStep, ResultArrives, WorkerTimesOut, WorkerEnds, start_operation,
         OperationNotStarted, _run_operation, _operation_feedback, GoalProgresses, GoalEnds
<1>. QED
  BY <1>1, <1>2

LEMMA NextCases ==
  ASSUME [Next]_vars
  PROVE  \/ \E o \in Operation : OperationStep(o)
         \/ \E offered \in SUBSET Sensor : _sensors(offered)
         \/ \E s \in Sensor : DemandAges(s)
         \/ _expire_preview_demand
         \/ \E s \in Sensor : _frame(s)
         \/ \E k \in Connection : process_request(k) \/ ClientLeaves(k) \/ ConnectionStep(k)
         \/ UNCHANGED vars
BY DEF Next, OperationStep

LEMMA Inductive == IInv /\ [Next]_vars => IInv'
<1>. SUFFICES ASSUME IInv, [Next]_vars PROVE IInv'
  OBVIOUS
<1>. USE DEF IInv
<1>1. ASSUME NEW o \in Operation, OperationStep(o)
      PROVE  IInv'
  BY <1>1, OperationSteps, PreviewFrame, ConnectionFrame
<1>2. CASE \/ \E offered \in SUBSET Sensor : _sensors(offered)
           \/ \E s \in Sensor : DemandAges(s)
           \/ _expire_preview_demand
           \/ \E s \in Sensor : _frame(s)
  BY <1>2, PreviewSteps, OperationFrame, ConnectionFrame
<1>3. ASSUME NEW k \in Connection, process_request(k) \/ ClientLeaves(k) \/ ConnectionStep(k)
      PROVE  IInv'
  BY <1>3, ConnectionSteps, OperationFrame
<1>4. CASE UNCHANGED vars
  BY <1>4, OperationFrame, PreviewFrame, ConnectionFrame DEF vars
<1>. QED
  BY <1>1, <1>2, <1>3, <1>4, NextCases

LEMMA Invariant == Spec => []IInv
BY InitInv, Inductive, PTL DEF Spec

(* The variables of the gateway keep their types.                          *)
THEOREM GatewayTypes == Spec => []TypeOK
<1>1. IInv => TypeOK
  BY DEF IInv, OperationInv, PreviewInv, ConnectionInv, TypeOK
<1>. QED
  BY <1>1, Invariant, PTL

(* The limit on active operations holds however many threads, results and  *)
(* feedback messages are under way (gateway.py:1096-1099): only feedback   *)
(* after the end brings one back uncounted.                                *)
THEOREM ActiveOperationsLimited == Spec => []ActiveLimit
<1>1. IInv => ActiveLimit
  BY DEF IInv, OperationInv
<1>. QED
  BY <1>1, Invariant, PTL

(* No path through process_request and its thread loses a connection slot  *)
(* or gives one back twice (gateway.py:1330-1355).                         *)
THEOREM ConnectionSlotsConserved == Spec => []SlotsConserved
<1>1. IInv => SlotsConserved
  BY DEF IInv, ConnectionInv
<1>. QED
  BY <1>1, Invariant, PTL

----------------------------------------------------------------------------
(* The history                                                             *)

Rank(E, p) == Cardinality({q \in E : q > p})

LEMMA BelowCardinality ==
  ASSUME NEW m \in Nat
  PROVE  IsFiniteSet(0..(m - 1)) /\ Cardinality(0..(m - 1)) = m
<1>1. 0 \in Int /\ m - 1 \in Int
  OBVIOUS
<1>. QED
  BY <1>1, FS_Interval

(* In a finite set of numbers that has more than n, exactly n have fewer   *)
(* than n above them: the ranks are 0, 1, 2, ..., each taken once.         *)
LEMMA LargestN ==
  ASSUME NEW E \in SUBSET Nat, IsFiniteSet(E), NEW n \in Nat, n <= Cardinality(E)
  PROVE  Cardinality({p \in E : Rank(E, p) < n}) = n
<1>. DEFINE c == Cardinality(E)
            rank == [p \in E |-> Rank(E, p)]
            top == {p \in E : Rank(E, p) < n}
<1>1. c \in Nat
  BY FS_CardinalityType
<1>2. ASSUME NEW p \in E
      PROVE  Rank(E, p) \in 0..(c - 1)
  <2>1. {q \in E : q > p} \subseteq E \ {p}
    OBVIOUS
  <2>2. IsFiniteSet(E \ {p}) /\ Cardinality(E \ {p}) = c - 1
    BY FS_RemoveElement
  <2>3. /\ Rank(E, p) \in Nat /\ Cardinality(E \ {p}) \in Nat
        /\ Rank(E, p) <= Cardinality(E \ {p})
    BY <2>1, <2>2, SubsetCardinality DEF Rank
  <2>. QED
    BY <1>1, <2>2, <2>3
<1>3. ASSUME NEW p \in E, NEW q \in E, p < q
      PROVE  Rank(E, p) > Rank(E, q)
  <2>0. /\ \A r \in E : r \in Nat
        /\ q \notin {r \in E : r > q}
    OBVIOUS
  <2>1. {r \in E : r > q} \cup {q} \subseteq {r \in E : r > p}
    <3>1. \A r \in E : r > q => r > p
      BY <1>3, <2>0
    <3>. QED
      BY <1>3, <2>0, <3>1
  <2>2. IsFiniteSet({r \in E : r > q}) /\ IsFiniteSet({r \in E : r > p})
    BY SubsetCardinality
  <2>3. /\ IsFiniteSet({r \in E : r > q} \cup {q})
        /\ Cardinality({r \in E : r > q} \cup {q}) = Rank(E, q) + 1
    BY <2>0, <2>2, FS_AddElement DEF Rank
  <2>4. Cardinality({r \in E : r > q} \cup {q}) <= Rank(E, p)
    BY <2>1, <2>2, SubsetCardinality DEF Rank
  <2>. QED
    BY <1>2, <2>3, <2>4
<1>4. rank \in Injection(E, 0..(c - 1))
  <2>1. rank \in [E -> 0..(c - 1)]
    BY <1>2
  <2>2. ASSUME NEW p \in E, NEW q \in E, rank[p] = rank[q]
        PROVE  p = q
    <3>1. ~(p < q) /\ ~(q < p)
      BY <1>2, <1>3, <2>2
    <3>. QED
      BY <3>1
  <2>. QED
    BY <2>1, <2>2, Fun_IsInj
<1>5. rank \in Surjection(E, 0..(c - 1))
  <2>1. IsFiniteSet(0..(c - 1)) /\ Cardinality(0..(c - 1)) = c
    BY <1>1, BelowCardinality
  <2>. QED
    BY <1>4, <2>1, FS_Injection
<1>6. rank \in [E -> 0..(c - 1)]
  BY <1>2
<1>7. \A i \in 0..(c - 1) : \E p \in E : rank[p] = i
  BY <1>5 DEF Surjection
<1>8. \A p, q \in E : rank[p] = rank[q] => p = q
  BY <1>4, Fun_InjectionProperties
<1>9. [p \in top |-> Rank(E, p)] \in Bijection(top, 0..(n - 1))
  <2>. DEFINE g == [p \in top |-> Rank(E, p)]
  <2>1. g \in [top -> 0..(n - 1)]
    <3>1. \A p \in top : p \in E /\ Rank(E, p) < n
      OBVIOUS
    <3>2. ASSUME NEW p \in top
          PROVE  Rank(E, p) \in 0..(n - 1)
      <4>1. Rank(E, p) \in Nat /\ Rank(E, p) < n
        BY <1>1, <1>2, <3>1
      <4>. QED
        BY <4>1
    <3>. QED
      BY <3>2
  <2>2. \A p, q \in top : g[p] = g[q] => p = q
    BY <1>8
  <2>3. ASSUME NEW i \in 0..(n - 1)
        PROVE  \E p \in top : g[p] = i
    <3>1. i \in 0..(c - 1)
      BY <1>1
    <3>2. PICK p \in E : rank[p] = i
      BY <1>7, <3>1
    <3>3. p \in top /\ g[p] = i
      BY <3>2
    <3>. QED
      BY <3>3
  <2>. HIDE DEF g
  <2>4. g \in Injection(top, 0..(n - 1)) /\ g \in Surjection(top, 0..(n - 1))
    BY <2>1, <2>2, <2>3, Fun_IsInj, Fun_IsSurj
  <2>5. g \in Bijection(top, 0..(n - 1))
    BY <2>4 DEF Bijection
  <2>. QED
    BY <2>5 DEF g
<1>10. IsFiniteSet(top) /\ IsFiniteSet(0..(n - 1)) /\ Cardinality(0..(n - 1)) = n
  <2>1. top \subseteq E
    OBVIOUS
  <2>. HIDE DEF top
  <2>. QED
    BY <2>1, SubsetCardinality, BelowCardinality
<1>. QED
  BY <1>9, <1>10, FS_Bijection DEF ExistsBijection

(* Pruning forgets an operation that ended, and leaves as many that ended, *)
(* all of them started later, as the history keeps.                        *)
LEMMA PrunedForgets ==
  ASSUME NEW D \in SUBSET Operation, NEW items \in [D -> State],
         NEW o \in D, o \notin DOMAIN Pruned(items)
  PROVE  /\ items[o] = "ended"
         /\ Cardinality({p \in DOMAIN Pruned(items) : Pruned(items)[p] = "ended" /\ p > o})
              = operation_history_limit
<1>. DEFINE E == {p \in D : items[p] = "ended"}
            n == operation_history_limit
            top == {p \in E : Rank(E, p) < n}
<1>1. E \in SUBSET Nat /\ IsFiniteSet(E) /\ n \in Nat
  BY OperationFacts, SubsetCardinality, LimitAssumption
<1>2. ASSUME NEW p \in D
      PROVE  E \cap Later(items, p) = {q \in E : q > p}
  BY DEF Later
<1>3. /\ DOMAIN Pruned(items) = {p \in D : p \in E => Rank(E, p) < n}
      /\ \A p \in DOMAIN Pruned(items) : Pruned(items)[p] = items[p]
  BY <1>2 DEF Pruned, Restrict, Rank
<1>4. o \in E /\ ~(Rank(E, o) < n)
  BY <1>3
<1>5. {p \in DOMAIN Pruned(items) : Pruned(items)[p] = "ended"} = top
  BY <1>3
<1>. HIDE DEF E, n, top
<1>6. ASSUME NEW p \in E
      PROVE  /\ IsFiniteSet({q \in E : q > p}) /\ Rank(E, p) \in Nat
             /\ Rank(E, p) <= Cardinality(E)
  <2>1. {q \in E : q > p} \subseteq E
    OBVIOUS
  <2>. QED
    BY <1>1, <2>1, SubsetCardinality DEF Rank
<1>7. n <= Cardinality(E)
  <2>1. /\ Rank(E, o) \in Nat /\ Rank(E, o) <= Cardinality(E) /\ ~(Rank(E, o) < n)
        /\ Cardinality(E) \in Nat /\ n \in Nat
    BY <1>1, <1>4, <1>6, FS_CardinalityType
  <2>. QED
    BY <2>1
<1>8. Cardinality(top) = n
  BY <1>1, <1>7, LargestN DEF top
<1>9. ASSUME NEW p \in top
      PROVE  p > o
  <2>1. p \in E /\ Rank(E, p) < n
    BY DEF top
  <2>2. CASE ~(p > o)
    <3>1. {q \in E : q > o} \subseteq {q \in E : q > p}
      <4>1. o \in Nat /\ p \in Nat /\ \A q \in E : q \in Nat
        BY <1>1, <1>4, <2>1
      <4>. QED
        BY <2>2, <4>1
    <3>2. Rank(E, o) <= Rank(E, p)
      BY <1>6, <2>1, <3>1, SubsetCardinality DEF Rank
    <3>3. /\ Rank(E, o) \in Nat /\ Rank(E, p) \in Nat /\ n \in Nat
          /\ ~(Rank(E, o) < n) /\ Rank(E, p) < n
      BY <1>1, <1>4, <1>6, <2>1
    <3>. QED
      BY <3>2, <3>3
  <2>. QED
    BY <2>2
<1>10. {p \in DOMAIN Pruned(items) : Pruned(items)[p] = "ended" /\ p > o} = top
  BY <1>5, <1>9
<1>11. items[o] = "ended"
  BY <1>4 DEF E
<1>. QED
  BY <1>8, <1>10, <1>11 DEF n

LEMMA UpdateForgets ==
  ASSUME OperationInv, NEW o \in Operation, NEW state \in State, _update_operation(o, state),
         NEW p \in Operation, Kept(p), ~Kept(p)'
  PROVE  /\ (IF p = o THEN state ELSE operations[p]) = "ended"
         /\ Cardinality({q \in DOMAIN operations' : operations'[q] = "ended" /\ q > p})
              = operation_history_limit
<1>1. Kept(o)
  BY DEF _update_operation, Kept
<1>. DEFINE items == [operations EXCEPT ![o] = state]
<1>2. /\ items \in [DOMAIN operations -> State] /\ DOMAIN operations \in SUBSET Operation
      /\ items[p] = IF p = o THEN state ELSE operations[p]
  BY <1>1 DEF Kept, OperationInv
<1>3. operations' = Pruned(items)
  BY <1>1 DEF _update_operation
<1>4. p \in DOMAIN operations /\ p \notin DOMAIN operations'
  BY DEF Kept
<1>. HIDE DEF items
<1>. QED
  BY <1>2, <1>3, <1>4, PrunedForgets

(* A browser that polls an operation finds it until as many that were      *)
(* started after it have ended as the history keeps, and in any case while *)
(* its thread runs (gateway.py:1138-1149).                                 *)
THEOREM OutcomesKept == Spec => OutcomeKept
<1>. DEFINE Forgotten(o) ==
       /\ worker[o]' = "ended"
       /\ Cardinality({p \in DOMAIN operations' : operations'[p] = "ended" /\ p > o})
            = operation_history_limit
<1>1. ASSUME IInv, [Next]_vars, NEW o \in Operation, Kept(o), ~Kept(o)'
      PROVE  Forgotten(o)
  <2>1. OperationInv
    BY <1>1 DEF IInv
  <2>2. ASSUME NEW p \in Operation, NEW state \in {"running", "ended"},
               _update_operation(p, state),
               worker[o] = "ended" => worker'[o] = "ended",
               p = o /\ state = "ended" => worker'[o] = "ended"
        PROVE  Forgotten(o)
    <3>1. state \in State
      BY DEF State
    <3>2. /\ (IF o = p THEN state ELSE operations[o]) = "ended"
          /\ Cardinality({q \in DOMAIN operations' : operations'[q] = "ended" /\ q > o})
               = operation_history_limit
      BY <1>1, <2>1, <2>2, <3>1, UpdateForgets
    <3>3. worker'[o] = "ended"
      BY <1>1, <2>1, <2>2, <3>2 DEF OperationInv, EndedByWorker, Kept
    <3>. QED
      BY <3>2, <3>3
  <2>3. PICK p \in Operation : OperationStep(p)
    <3>1. CASE UNCHANGED operations
      BY <1>1, <3>1 DEF Kept
    <3>2. ASSUME NEW k \in Connection,
                 process_request(k) \/ ClientLeaves(k) \/ ConnectionStep(k)
          PROVE  UNCHANGED operations
      BY <1>1, <3>2, ConnectionSteps DEF IInv, operationVars
    <3>3. CASE \/ \E offered \in SUBSET Sensor : _sensors(offered)
               \/ \E s \in Sensor : DemandAges(s)
               \/ _expire_preview_demand
               \/ \E s \in Sensor : _frame(s)
      <4>1. UNCHANGED operations
        BY <1>1, <3>3, PreviewSteps DEF IInv, operationVars
      <4>. QED
        BY <3>1, <4>1
    <3>4. CASE UNCHANGED vars
      BY <3>1, <3>4 DEF vars, operationVars
    <3>. QED
      BY <1>1, <3>1, <3>2, <3>3, <3>4, NextCases
  <2>4. CASE start_operation(p)
    BY <1>1, <2>4 DEF start_operation, Kept
  <2>5. CASE _run_operation(p)
    BY <2>1, <2>2, <2>5 DEF _run_operation, OperationInv
  <2>6. CASE WorkerEnds(p)
    BY <2>1, <2>2, <2>6 DEF WorkerEnds, OperationInv
  <2>7. CASE _operation_feedback(p)
    BY <2>2, <2>7 DEF _operation_feedback
  <2>8. CASE OperationNotStarted(p) \/ GoalProgresses(p) \/ GoalEnds(p)
    BY <1>1, <2>8 DEF OperationNotStarted, GoalProgresses, GoalEnds, Kept
  <2>. QED
    BY <2>3, <2>4, <2>5, <2>6, <2>7, <2>8 DEF OperationStep, ResultArrives, WorkerTimesOut
<1>2. IInv /\ [Next]_vars =>
        [\A o \in Operation : Kept(o) /\ ~Kept(o)' => Forgotten(o)]_vars
  BY <1>1
<1>. QED
  BY <1>2, Invariant, PTL DEF Spec, OutcomeKept
=============================================================================
