---------------------- MODULE CaptureOperationsProofs ----------------------
(***************************************************************************)
(* Theorems about CaptureOperations, for any operations, groups, requests  *)
(* and limits.                                                             *)
(*                                                                         *)
(* The inductive invariant has three parts for each operation: Control     *)
(* says what the place of its worker tells about its record, Placed which  *)
(* of its captures can have been counted so far, Balanced that             *)
(* pending_saves is the number of them that are not answered.  Two others  *)
(* extend it: MapInv, about the recorder, says that the history only names *)
(* ended operations, and CyclesInv how the answers of each cycle add up to *)
(* the counters of a record and to its last status.                        *)
(***************************************************************************)
EXTENDS CaptureOperations, FiniteSetTheorems, FunctionTheorems, SequenceTheorems, TLAPS

Places ==
  {"absent", "handler", "prepare", "waiting", "polling", "start", "loop",
   "capacity", "count", "skip", "check", "send", "finish", "shot", "ended"}

SessionState == {"none", "held", "orphan", "gone", "released"}

(* Nothing has been scheduled yet.                                         *)
Early == {"absent", "handler", "prepare", "waiting", "polling", "start", "shot"}

(* The captures of the worker's cycle may have been counted.               *)
Sending == {"skip", "check", "send"}

Control(o) ==
  /\ op[o].req \in Request
  /\ pc[o] \in Early =>
       cycle[o] = 1 /\ op[o].scheduled = 0 /\ op[o].pending = 0 /\ ~op[o].done
  /\ pc[o] \in {"capacity", "count"} \cup Sending => cycle[o] <= MaxCycle
  /\ op[o].scheduled <= IF pc[o] \in Sending THEN cycle[o] ELSE cycle[o] - 1
  /\ op[o].done => pc[o] \in {"send", "ended"}
  /\ pc[o] = "ended" => op[o].done
  /\ pc[o] \in {"handler", "prepare", "waiting", "polling", "start", "loop", "capacity",
                "count", "skip", "check", "finish"} => op[o].req.kind # "test_shot"
  /\ pc[o] = "shot" => op[o].req.kind = "test_shot"
  /\ pc[o] = "send" => (op[o].done <=> op[o].req.kind = "test_shot")
  /\ op[o].recorded => op[o].done /\ op[o].pending = 0
  /\ session[o] = "released" => op[o].recorded

Placed(o) ==
  \A x \in Goal : (x[1] = o /\ goal[x] # "none") =>
    /\ x[3] \in op[o].req.groups
    /\ x[2] < cycle[o] \/ (x[2] = cycle[o] /\ pc[o] \in Sending)

Balanced(o) ==
  /\ IsFiniteSet(Unanswered(o))
  /\ op[o].pending = Cardinality(Unanswered(o))

----------------------------------------------------------------------------
(* Types of what the actions write                                         *)

LEMMA GoalParts ==
  \A x \in Goal : /\ x[1] \in Operation /\ x[2] \in 1..MaxCycle /\ x[3] \in Group
                  /\ x = <<x[1], x[2], x[3]>>
BY DEF Goal

LEMMA RequestType ==
  \A r \in Request : /\ r \in AnyRequest
                     /\ r.kind = "test_shot" => Cardinality(r.groups) = 1
BY ConstantsAssumption

LEMMA NewOperationType ==
  ASSUME NEW r \in Request
  PROVE  NewOperation(r) \in OperationState
BY RequestType, ConstantsAssumption DEF NewOperation, OperationState, Status

LEMMA CountedType ==
  ASSUME NEW r \in OperationState, NEW c \in 1..MaxCycle, NEW success \in BOOLEAN
  PROVE  /\ Counted(r, c, success) \in OperationState
         /\ Counted(r, c, success).req = r.req
         /\ Counted(r, c, success).done = r.done
         /\ Counted(r, c, success).scheduled = r.scheduled
         /\ Counted(r, c, success).recorded = r.recorded
         /\ Counted(r, c, success).pending = IF r.pending = 0 THEN 0 ELSE r.pending - 1
<1>. DEFINE results == r.results[c] + 1
            failures == r.failures[c] + (IF success THEN 0 ELSE 1)
            whole == results = Cardinality(r.req.groups)
            pending == IF r.pending = 0 THEN 0 ELSE r.pending - 1
            stop == r.stop \/ ~success
            completed == IF whole /\ failures = 0 THEN r.completed + 1 ELSE r.completed
            failed == IF whole /\ failures # 0 THEN r.failed + 1 ELSE r.failed
            allResults == [r.results EXCEPT ![c] = IF whole THEN 0 ELSE results]
            allFailures == [r.failures EXCEPT ![c] = IF whole THEN 0 ELSE failures]
<1>1. r.results[c] \in Nat /\ r.failures[c] \in Nat
  BY DEF OperationState
<1>2. results \in Nat /\ failures \in Nat
  BY <1>1
<1>3. /\ pending \in Nat /\ completed \in Nat /\ failed \in Nat
      /\ allResults \in [1..MaxCycle -> Nat] /\ allFailures \in [1..MaxCycle -> Nat]
  <2>. HIDE DEF results, failures, whole
  <2>. QED
    BY <1>2 DEF OperationState
<1>4. stop \in BOOLEAN
  OBVIOUS
<1>5. Counted(r, c, success) =
        [r EXCEPT !.pending = pending, !.stop = stop, !.completed = completed,
                  !.failed = failed, !.results = allResults, !.failures = allFailures]
  BY DEF Counted, OperationState
<1>. HIDE DEF pending, stop, completed, failed, allResults, allFailures
<1>6. Counted(r, c, success) \in OperationState
  BY <1>3, <1>4, <1>5 DEF OperationState
<1>7. /\ Counted(r, c, success).req = r.req
      /\ Counted(r, c, success).done = r.done
      /\ Counted(r, c, success).scheduled = r.scheduled
      /\ Counted(r, c, success).recorded = r.recorded
      /\ Counted(r, c, success).pending = pending
  BY <1>5 DEF OperationState
<1>. QED
  BY <1>6, <1>7 DEF pending

LEMMA FinishedType ==
  ASSUME NEW r \in OperationState
  PROVE  /\ Finished(r) \in OperationState
         /\ Finished(r).req = r.req
         /\ Finished(r).done = r.done
         /\ Finished(r).scheduled = r.scheduled
         /\ Finished(r).recorded = r.recorded
         /\ Finished(r).pending = r.pending
BY DEF Finished, OperationState, Status

LEMMA ScheduledType ==
  ASSUME NEW r \in OperationState, NEW s \in Status
  PROVE  [r EXCEPT !.done = TRUE, !.status = s] \in OperationState
BY DEF OperationState

LEMMA AppendTailType ==
  ASSUME NEW S, NEW q \in Seq(S), NEW e \in S
  PROVE  Append(q, e) \in Seq(S) /\ Tail(Append(q, e)) \in Seq(S)
<1>1. Append(q, e) \in Seq(S) /\ Append(q, e) # <<>>
  BY AppendProperties
<1>. QED
  BY <1>1, HeadTailProperties

(* What record_terminal_operation_locked does to the whole state.          *)
LEMMA RecordEffect ==
  ASSUME TypeOK, NEW o \in Operation, NEW r \in OperationState, NEW s \in SessionState,
         RecordTerminal(o, r, s)
  PROVE  /\ op' = [op EXCEPT ![o] = [r EXCEPT !.recorded = TRUE]]
         /\ present' \subseteq present
         /\ history' \in Seq(Operation)
         /\ session' \in [Operation -> SessionState]
         /\ \A p \in Operation \ {o} : session'[p] = session[p]
<1>1. CASE r.recorded
  <2>1. r = [r EXCEPT !.recorded = TRUE]
    BY <1>1 DEF OperationState
  <2>. QED
    BY <1>1, <2>1 DEF RecordTerminal, recordVars, TypeOK, SessionState
<1>2. CASE ~r.recorded
  <2>1. history \in Seq(Operation)
    BY DEF TypeOK
  <2>2. Append(history, o) \in Seq(Operation) /\ Tail(Append(history, o)) \in Seq(Operation)
    BY <2>1, AppendTailType
  <2>3. /\ op' = [op EXCEPT ![o] = [r EXCEPT !.recorded = TRUE]]
        /\ present' \subseteq present
        /\ history' \in Seq(Operation)
    BY <1>2, <2>2 DEF RecordTerminal
  <2>. QED
    BY <1>2, <2>3 DEF RecordTerminal, SessionAfter, TypeOK, SessionState
<1>. QED
  BY <1>1, <1>2 DEF OperationState

LEMMA SettleEffect ==
  ASSUME TypeOK, NEW o \in Operation, NEW r \in OperationState, Settle(o, r)
  PROVE  /\ \/ /\ ~Drained(r)
               /\ op' = [op EXCEPT ![o] = r]
               /\ UNCHANGED recordVars
            \/ /\ Drained(r)
               /\ op' = [op EXCEPT ![o] = [Finished(r) EXCEPT !.recorded = TRUE]]
         /\ present' \subseteq present
         /\ history' \in Seq(Operation)
         /\ session' \in [Operation -> SessionState]
         /\ \A p \in Operation \ {o} : session'[p] = session[p]
<1>1. CASE Drained(r)
  <2>1. session[o] \in SessionState
    BY DEF TypeOK, SessionState
  <2>. QED
    BY <1>1, <2>1, FinishedType, RecordEffect DEF Settle
<1>2. CASE ~Drained(r)
  BY <1>2 DEF Settle, recordVars, TypeOK, SessionState
<1>. QED
  BY <1>1, <1>2

----------------------------------------------------------------------------
(* Types and Control, action by action.  An action of operation o leaves   *)
(* the other operations alone.                                             *)

Untouched(o) ==
  \A p \in Operation \ {o} :
    op'[p] = op[p] /\ pc'[p] = pc[p] /\ cycle'[p] = cycle[p] /\ session'[p] = session[p]

(* Steps of the worker that write nothing in the record.                   *)
LEMMA MoveSteps ==
  ASSUME TypeOK, NEW o \in Operation, Control(o),
         \/ PrepareGranted(o) \/ LastRound(o) \/ GroupsReady(o) \/ StartScheduling(o)
         \/ LoopEnds(o) \/ TimeToDispatch(o) \/ CapacityFound(o)
         \/ DispatchStopped(o) \/ DispatchGoes(o) \/ AllSent(o)
  PROVE  TypeOK' /\ Control(o)' /\ Untouched(o)
<1>1. /\ op[o] \in OperationState /\ pc[o] \in Places /\ cycle[o] \in 1..MaxCycle + 1
      /\ MaxCycle \in Nat /\ UNCHANGED <<op, slots, present, history, goal>>
  BY ConstantsAssumption DEF TypeOK, Places, PrepareGranted, LastRound, GroupsReady,
     StartScheduling, LoopEnds, TimeToDispatch, CapacityFound, DispatchStopped,
     DispatchGoes, AllSent
<1>2. PICK label \in Places, at \in 1..MaxCycle + 1, s \in SessionState :
        /\ pc' = [pc EXCEPT ![o] = label]
        /\ cycle' = [cycle EXCEPT ![o] = at]
        /\ session' = [session EXCEPT ![o] = s]
  <2>1. /\ cycle = [cycle EXCEPT ![o] = cycle[o]]
        /\ session = [session EXCEPT ![o] = session[o]] /\ session[o] \in SessionState
    BY DEF TypeOK, SessionState
  <2>2. (pc[o] \in Sending) => cycle[o] + 1 \in 1..MaxCycle + 1
    BY <1>1 DEF Control, Sending
  <2>. QED
    BY <1>1, <2>1, <2>2 DEF PrepareGranted, LastRound, GroupsReady, StartScheduling,
       LoopEnds, TimeToDispatch, CapacityFound, DispatchStopped, DispatchGoes, AllSent,
       GoTo, NextCycle, Places, Sending, SessionState
<1>3. TypeOK' /\ Untouched(o)
  BY <1>1, <1>2 DEF TypeOK, Untouched, Places, SessionState
<1>4. Control(o)'
  <2>1. pc[o]' = label /\ cycle[o]' = at /\ session[o]' = s /\ op[o]' = op[o]
    BY <1>1, <1>2 DEF TypeOK
  <2>2. at = cycle[o] \/ (pc[o] \in Sending /\ at = cycle[o] + 1)
    BY <2>1, <1>1 DEF PrepareGranted, LastRound, GroupsReady, StartScheduling, LoopEnds,
       TimeToDispatch, CapacityFound, DispatchStopped, DispatchGoes, AllSent, NextCycle,
       Sending, TypeOK
  <2>3. s = session[o] \/ s = "held"
    BY <2>1, <1>1 DEF PrepareGranted, LastRound, GroupsReady, StartScheduling, LoopEnds,
       TimeToDispatch, CapacityFound, DispatchStopped, DispatchGoes, AllSent, TypeOK
  <2>4. \/ at = cycle[o] /\ \/ pc[o] = "prepare" /\ label = "waiting"
                            \/ pc[o] = "waiting" /\ label = "polling"
                            \/ pc[o] = "polling" /\ label = "start"
                            \/ pc[o] = "start" /\ label = "loop"
                            \/ pc[o] = "loop" /\ label = "finish"
                            \/ pc[o] = "loop" /\ label = "capacity" /\ cycle[o] <= MaxCycle
                            \/ pc[o] = "capacity" /\ label = "count"
                            \/ pc[o] = "check" /\ label = "send"
        \/ at = cycle[o] + 1 /\ \/ pc[o] \in {"skip", "check"} /\ label = "loop"
                                \/ /\ pc[o] = "send" /\ op[o].req.kind = "test_shot"
                                   /\ label = "ended"
                                \/ /\ pc[o] = "send" /\ op[o].req.kind # "test_shot"
                                   /\ label = "loop"
    BY <2>1, <1>1 DEF PrepareGranted, LastRound, GroupsReady, StartScheduling, LoopEnds,
       TimeToDispatch, CapacityFound, DispatchStopped, DispatchGoes, AllSent, NextCycle,
       GoTo, TypeOK
  <2>5. op[o].scheduled \in Int
    BY <1>1 DEF OperationState
  <2>. QED
    BY <1>1, <2>1, <2>2, <2>3, <2>4, <2>5 DEF Control, Early, Sending
<1>. QED
  BY <1>3, <1>4

(* A step that writes the record r of o and nothing of another operation.  *)
LEMMA WriteFrame ==
  ASSUME TypeOK, NEW o \in Operation, NEW r \in OperationState,
         NEW label \in Places, NEW at \in 1..MaxCycle + 1,
         op' = [op EXCEPT ![o] = r],
         pc' = [pc EXCEPT ![o] = label],
         cycle' = [cycle EXCEPT ![o] = at],
         goal' \in [Goal -> Phase], slots' \subseteq Goal,
         present' \subseteq Operation, history' \in Seq(Operation),
         session' \in [Operation -> SessionState],
         \A p \in Operation \ {o} : session'[p] = session[p]
  PROVE  /\ TypeOK' /\ Untouched(o)
         /\ op[o]' = r /\ pc[o]' = label /\ cycle[o]' = at
BY DEF TypeOK, Untouched, Places, SessionState

LEMMA StateTypes ==
  ASSUME TypeOK, NEW o \in Operation
  PROVE  /\ op[o] \in OperationState /\ op[o].scheduled \in Int /\ op[o].pending \in Nat
         /\ pc[o] \in Places /\ cycle[o] \in 1..MaxCycle + 1 /\ cycle[o] \in Int
         /\ session \in [Operation -> SessionState] /\ MaxCycle \in Nat
         /\ pc = [pc EXCEPT ![o] = pc[o]] /\ cycle = [cycle EXCEPT ![o] = cycle[o]]
BY ConstantsAssumption DEF TypeOK, Places, SessionState, OperationState

(* The preparation, or the search for the action server, fails.            *)
LEMMA FailSteps ==
  ASSUME TypeOK, NEW o \in Operation, Control(o),
         \/ PrepareFails(o) \/ GroupsNotReady(o)
         \/ ActionServerMissing(o) \/ TestShotFails(o)
  PROVE  /\ TypeOK' /\ Control(o)' /\ Untouched(o)
         /\ pc[o] \in Early /\ pc[o]' = "ended" /\ cycle[o]' = cycle[o] /\ goal' = goal
         /\ op[o]'.req = op[o].req /\ op[o]'.pending = op[o].pending
<1>1. pc[o] \in Early
  BY DEF PrepareFails, GroupsNotReady, ActionServerMissing, TestShotFails, Early
<1>2. PICK r \in OperationState, s \in SessionState :
        /\ RecordTerminal(o, r, s)
        /\ r.done /\ r.pending = op[o].pending /\ r.scheduled = op[o].scheduled
        /\ r.req = op[o].req
        /\ pc' = [pc EXCEPT ![o] = "ended"]
        /\ UNCHANGED <<cycle, goal, slots>>
  <2>. DEFINE failed(status) == [op[o] EXCEPT !.stop = TRUE, !.done = TRUE, !.status = status]
  <2>1. \A status \in Status :
          /\ failed(status) \in OperationState /\ failed(status).done
          /\ failed(status).pending = op[o].pending
          /\ failed(status).scheduled = op[o].scheduled
          /\ failed(status).req = op[o].req
    BY StateTypes DEF OperationState
  <2>2. session[o] \in SessionState /\ {"none", "orphan"} \subseteq SessionState
    BY StateTypes DEF SessionState
  <2>3. CASE ActionServerMissing(o)
    <3>1. RecordTerminal(o, failed("failed"), session[o])
      BY <2>3 DEF ActionServerMissing
    <3>2. "failed" \in Status
      BY DEF Status
    <3>. HIDE DEF failed
    <3>. QED
      BY <2>1, <2>2, <2>3, <3>1, <3>2 DEF ActionServerMissing, GoTo
  <2>4. CASE PrepareFails(o) \/ GroupsNotReady(o) \/ TestShotFails(o)
    <3>1. PICK s \in SessionState : FailPreparation(o, s)
      BY <2>2, <2>4 DEF PrepareFails, GroupsNotReady, TestShotFails
    <3>2. PICK status \in Status : RecordTerminal(o, failed(status), s)
      BY <3>1 DEF FailPreparation, Status
    <3>. HIDE DEF failed
    <3>. QED
      BY <2>1, <3>1, <3>2 DEF FailPreparation
  <2>. QED
    BY <2>3, <2>4
<1>. DEFINE final == [r EXCEPT !.recorded = TRUE]
<1>3. /\ final \in OperationState /\ final.done /\ final.pending = r.pending
      /\ final.scheduled = r.scheduled /\ final.req = r.req /\ final.recorded
  BY <1>2 DEF OperationState
<1>4. /\ op' = [op EXCEPT ![o] = final] /\ present' \subseteq Operation
      /\ history' \in Seq(Operation) /\ session' \in [Operation -> SessionState]
      /\ \A p \in Operation \ {o} : session'[p] = session[p]
  BY <1>2, RecordEffect DEF TypeOK
<1>. HIDE DEF final
<1>5. /\ TypeOK' /\ Untouched(o)
      /\ op[o]' = final /\ pc[o]' = "ended" /\ cycle[o]' = cycle[o]
  <2>1. /\ "ended" \in Places /\ goal' \in [Goal -> Phase] /\ slots' \subseteq Goal
        /\ cycle' = [cycle EXCEPT ![o] = cycle[o]] /\ cycle[o] \in 1..MaxCycle + 1
    BY <1>2, StateTypes DEF Places, TypeOK
  <2>. QED
    BY <1>2, <1>3, <1>4, <2>1, WriteFrame
<1>6. Control(o)'
  BY <1>1, <1>2, <1>3, <1>5, StateTypes DEF Control, Early, Sending
<1>. QED
  BY <1>1, <1>2, <1>3, <1>5, <1>6

(* Steps that write the record and do not end the operation.  cancelled,   *)
(* stop, completed and the answers of the cycles do not matter for Control.*)
LEMMA WriteSteps ==
  ASSUME TypeOK, NEW o \in Operation, Control(o),
         \/ MarkPreparing(o) \/ Cancel(o) \/ RenewalFails(o) \/ CapacityReached(o)
         \/ UnsafeIdentifier(o) \/ CountCycle(o) \/ ScheduleTestShot(o)
         \/ \E r \in Request : Create(o, r)
  PROVE  /\ TypeOK' /\ Control(o)' /\ Untouched(o)
         /\ ~op[o].recorded /\ ~op[o]'.recorded
         /\ session' = session /\ history' = history
         /\ \/ pc[o] = "absent" /\ op[o]'.pending = 0 /\ cycle[o]' = cycle[o]
            \/ /\ op[o]'.req = op[o].req
               /\ op[o]'.pending = op[o].pending \/ CountCycle(o) \/ ScheduleTestShot(o)
<1>1. PICK r \in OperationState, label \in Places, at \in 1..MaxCycle + 1 :
        /\ op' = [op EXCEPT ![o] = r]
        /\ pc' = [pc EXCEPT ![o] = label]
        /\ cycle' = [cycle EXCEPT ![o] = at]
        /\ goal' \in [Goal -> Phase]
        /\ r.recorded = op[o].recorded \/ (pc[o] = "absent" /\ ~r.recorded)
        /\ \/ /\ at = cycle[o] /\ r.scheduled = op[o].scheduled /\ r.req = op[o].req
              /\ r.pending = op[o].pending /\ r.done = op[o].done
              /\ \/ pc[o] = "handler" /\ label = "prepare"
                 \/ label = pc[o] /\ ~AlreadyFinished(op[o])
                 \/ pc[o] = "capacity" /\ label = "finish"
           \/ /\ pc[o] = "count" /\ label = "loop" /\ at = cycle[o] + 1
              /\ r.pending = op[o].pending /\ r.scheduled = op[o].scheduled /\ r.req = op[o].req /\ r.done = op[o].done
           \/ /\ CountCycle(o)
              /\ pc[o] = "count" /\ label \in {"skip", "check"} /\ at = cycle[o]
              /\ r.scheduled = op[o].scheduled + 1 /\ r.req = op[o].req /\ r.done = op[o].done
           \/ /\ ScheduleTestShot(o)
              /\ pc[o] = "shot" /\ label = "send" /\ at = cycle[o]
              /\ r.scheduled = 1 /\ r.req = op[o].req /\ r.done
           \/ /\ pc[o] = "absent" /\ at = cycle[o] /\ r.scheduled = 0
              /\ r.pending = 0 /\ ~r.done /\ label = FirstStep(r.req.kind)
              /\ r.req \in Request
  <2>1. CASE MarkPreparing(o)
    <3>. DEFINE r == [op[o] EXCEPT !.status = "preparing"]
    <3>1. "preparing" \in Status /\ "prepare" \in Places
      BY DEF Status, Places
    <3>2. r \in OperationState
      BY <3>1, StateTypes DEF OperationState
    <3>3. op' = [op EXCEPT ![o] = r]
      BY <2>1 DEF MarkPreparing, TypeOK
    <3>. QED
      BY <2>1, <3>1, <3>2, <3>3, StateTypes DEF MarkPreparing, TypeOK, OperationState
  <2>2. CASE Cancel(o)
    <3>. DEFINE status == IF op[o].pending = 0 THEN "cancelled" ELSE "draining"
                r == [op[o] EXCEPT !.stop = TRUE, !.cancelled = TRUE, !.status = status]
    <3>1. status \in Status
      BY DEF Status
    <3>2. op' = [op EXCEPT ![o] = r]
      BY <2>2 DEF Cancel, TypeOK
    <3>. HIDE DEF status
    <3>3. r \in OperationState
      BY <3>1, StateTypes DEF OperationState
    <3>. QED
      BY <2>2, <3>2, <3>3, StateTypes DEF Cancel, TypeOK, OperationState
  <2>3. CASE RenewalFails(o)
    <3>. DEFINE r == [op[o] EXCEPT !.stop = TRUE]
    <3>1. r \in OperationState
      BY StateTypes DEF OperationState
    <3>2. op' = [op EXCEPT ![o] = r]
      BY <2>3 DEF RenewalFails, TypeOK
    <3>3. ~op[o].done
      BY <2>3 DEF RenewalFails, Control
    <3>. QED
      BY <2>3, <3>1, <3>2, <3>3, StateTypes
      DEF RenewalFails, TypeOK, OperationState, AlreadyFinished
  <2>4. CASE CapacityReached(o)
    <3>. DEFINE r == [op[o] EXCEPT !.stop = TRUE, !.status = "draining"]
    <3>0. "draining" \in Status /\ "finish" \in Places
      BY DEF Status, Places
    <3>1. r \in OperationState
      BY <3>0, StateTypes DEF OperationState
    <3>. QED
      BY <2>4, <3>0, <3>1, StateTypes DEF CapacityReached, GoTo, TypeOK, OperationState
  <2>5. CASE UnsafeIdentifier(o)
    <3>. DEFINE r == [op[o] EXCEPT !.stop = TRUE, !.status = "failed"]
    <3>0. "failed" \in Status /\ "loop" \in Places
      BY DEF Status, Places
    <3>1. r \in OperationState
      BY <3>0, StateTypes DEF OperationState
    <3>2. cycle[o] + 1 \in 1..MaxCycle + 1
      BY <2>5, StateTypes DEF UnsafeIdentifier, Control
    <3>. QED
      BY <2>5, <3>0, <3>1, <3>2, StateTypes
      DEF UnsafeIdentifier, GoTo, NextCycle, TypeOK, OperationState
  <2>6. CASE CountCycle(o)
    <3>. DEFINE scheduled == op[o].scheduled + 1
                pending == op[o].pending + Cardinality(op[o].req.groups)
                r == [op[o] EXCEPT !.status = "running", !.scheduled = scheduled,
                                   !.pending = pending]
                label == IF op[o].stop THEN "skip" ELSE "check"
    <3>1. op[o].req.groups \subseteq Group
      BY StateTypes DEF OperationState, AnyRequest
    <3>2. Cardinality(op[o].req.groups) \in Nat
      BY <3>1, ConstantsAssumption, FS_Subset, FS_CardinalityType
    <3>3. scheduled \in 0..MaxCycle
      BY <2>6, StateTypes DEF CountCycle, Control, Sending, OperationState
    <3>4. pending \in Nat
      BY <3>2, StateTypes
    <3>5. op' = [op EXCEPT ![o] = r]
      BY <2>6 DEF CountCycle, TypeOK
    <3>6. goal' \in [Goal -> Phase]
      <4>. DEFINE counted == GoalsOf(o, cycle[o])
      <4>1. goal' = [x \in Goal |-> IF x \in counted THEN "counted" ELSE goal[x]]
        BY <2>6 DEF CountCycle
      <4>. HIDE DEF counted
      <4>. QED
        BY <4>1 DEF TypeOK, Phase
    <3>7. r.scheduled = op[o].scheduled + 1 /\ r.req = op[o].req /\ r.done = op[o].done
          /\ r.recorded = op[o].recorded
      BY StateTypes DEF OperationState
    <3>. HIDE DEF scheduled, pending
    <3>8. r \in OperationState
      BY <3>3, <3>4, StateTypes DEF OperationState, Status
    <3>9. label \in Places /\ label \in {"skip", "check"}
      BY DEF Places
    <3>10. /\ pc[o] = "count" /\ pc' = [pc EXCEPT ![o] = label]
           /\ cycle' = [cycle EXCEPT ![o] = cycle[o]]
      BY <2>6, StateTypes DEF CountCycle, GoTo
    <3>. HIDE DEF r, label
    <3>. QED
      BY <2>6, <3>5, <3>6, <3>7, <3>8, <3>9, <3>10, StateTypes
  <2>7. CASE ScheduleTestShot(o)
    <3>. DEFINE r == [op[o] EXCEPT !.status = "preparing", !.scheduled = 1,
                                   !.pending = 1, !.done = TRUE]
    <3>1. op' = [op EXCEPT ![o] = r]
      BY <2>7 DEF ScheduleTestShot, TypeOK
    <3>2. goal' \in [Goal -> Phase]
      BY <2>7 DEF ScheduleTestShot, TypeOK, Phase
    <3>3. 1 \in 0..MaxCycle
      BY ConstantsAssumption
    <3>4. "preparing" \in Status /\ "send" \in Places
      BY DEF Status, Places
    <3>5. r \in OperationState
      BY <3>3, <3>4, StateTypes DEF OperationState
    <3>. QED
      BY <2>7, <3>1, <3>2, <3>4, <3>5, StateTypes DEF ScheduleTestShot, GoTo, OperationState
  <2>8. CASE \E r \in Request : Create(o, r)
    <3>1. PICK q \in Request : Create(o, q)
      BY <2>8
    <3>2. /\ NewOperation(q) \in OperationState /\ q \in AnyRequest
          /\ FirstStep(q.kind) \in Places /\ NewOperation(q).req = q
      BY NewOperationType, RequestType
      DEF AnyRequest, Kind, FirstStep, Places, NewOperation
    <3>. QED
      BY <3>1, <3>2, StateTypes DEF Create, Created, NewOperation, TypeOK
  <2>. QED
    BY <2>1, <2>2, <2>3, <2>4, <2>5, <2>6, <2>7, <2>8
<1>2. /\ UNCHANGED <<slots, history, session>> /\ present' \subseteq Operation
  BY DEF MarkPreparing, Cancel, RenewalFails, CapacityReached, UnsafeIdentifier,
     CountCycle, ScheduleTestShot, Create, TypeOK
<1>3. /\ TypeOK' /\ Untouched(o)
      /\ op[o]' = r /\ pc[o]' = label /\ cycle[o]' = at
  <2>1. /\ slots' \subseteq Goal /\ history' \in Seq(Operation)
        /\ session' \in [Operation -> SessionState]
    BY <1>2 DEF TypeOK, SessionState
  <2>. QED
    BY <1>1, <1>2, <2>1, WriteFrame
<1>4. ~op[o].recorded /\ ~r.recorded
  BY <1>1, StateTypes DEF Control, AlreadyFinished, Early
<1>5. Control(o)'
  <2>1. session[o]' = session[o] /\ session[o] # "released"
    BY <1>2, <1>4 DEF Control
  <2>2. pc[o] = "absent" =>
          \/ label = "absent"
          \/ label = "shot" /\ r.req.kind = "test_shot"
          \/ label \in {"handler", "start"} /\ r.req.kind # "test_shot"
    BY <1>1, RequestType DEF FirstStep, AnyRequest, Kind
  <2>3. r.scheduled \in Int /\ 1 <= MaxCycle
    BY ConstantsAssumption DEF OperationState
  <2>. QED
    BY <1>1, <1>3, <1>4, <2>1, <2>2, <2>3, StateTypes DEF Control, Early, Sending
<1>6. pc[o] = "absent" => r.pending = 0 /\ at = cycle[o]
  BY <1>1 DEF Control, Early
<1>. QED
  BY <1>1, <1>2, <1>3, <1>4, <1>5, <1>6

(* Steps that settle: they end the operation if they find it drained.      *)
LEMMA SettleSteps ==
  ASSUME TypeOK, NEW o \in Operation, Control(o),
         \/ FinishScheduling(o)
         \/ \E x \in Goal : x[1] = o /\ (CaptureFinished(x) \/ SendThrows(o, x))
  PROVE  /\ TypeOK' /\ Control(o)' /\ Untouched(o)
         /\ op[o]'.req = op[o].req /\ cycle' = cycle
         /\ \/ /\ FinishScheduling(o)
               /\ pc[o]' = "ended" /\ op[o]'.pending = op[o].pending
            \/ /\ \E x \in Goal : x[1] = o /\ (CaptureFinished(x) \/ SendThrows(o, x))
               /\ pc[o]' = pc[o]
               /\ op[o]'.pending = IF op[o].pending = 0 THEN 0 ELSE op[o].pending - 1
         /\ \/ ~op[o]'.recorded /\ session' = session
            \/ op[o]'.recorded /\ op[o]'.pending = 0
<1>1. PICK r \in OperationState, label \in Places :
        /\ Settle(o, r)
        /\ pc' = [pc EXCEPT ![o] = label]
        /\ cycle' = cycle /\ slots' = slots /\ goal' \in [Goal -> Phase]
        /\ r.req = op[o].req /\ r.scheduled = op[o].scheduled /\ r.recorded = op[o].recorded
        /\ \/ /\ \E x \in Goal : x[1] = o /\ (CaptureFinished(x) \/ SendThrows(o, x))
              /\ label = pc[o] /\ r.done = op[o].done
              /\ r.pending = IF op[o].pending = 0 THEN 0 ELSE op[o].pending - 1
           \/ /\ FinishScheduling(o)
              /\ pc[o] = "finish" /\ label = "ended" /\ r.done /\ r.pending = op[o].pending
  <2>1. CASE FinishScheduling(o)
    <3>. DEFINE status == IF op[o].stop THEN op[o].status ELSE "draining"
                r == [op[o] EXCEPT !.done = TRUE, !.status = status]
    <3>1. status \in Status /\ "ended" \in Places
      BY StateTypes DEF OperationState, Status, Places
    <3>2. Settle(o, r)
      BY <2>1, StateTypes DEF FinishScheduling, OperationState
    <3>. HIDE DEF status
    <3>3. r \in OperationState
      BY <3>1, StateTypes, ScheduledType
    <3>4. /\ r.req = op[o].req /\ r.scheduled = op[o].scheduled
          /\ r.recorded = op[o].recorded /\ r.done /\ r.pending = op[o].pending
      BY StateTypes DEF OperationState
    <3>. HIDE DEF r
    <3>5. /\ goal' = goal /\ cycle' = cycle /\ slots' = slots
          /\ pc' = [pc EXCEPT ![o] = "ended"] /\ pc[o] = "finish"
      BY <2>1 DEF FinishScheduling, GoTo
    <3>6. goal' \in [Goal -> Phase] /\ slots' \subseteq Goal
      BY <3>5 DEF TypeOK
    <3>. QED
      BY <2>1, <3>1, <3>2, <3>3, <3>4, <3>5, <3>6
  <2>2. CASE \E x \in Goal : x[1] = o /\ (CaptureFinished(x) \/ SendThrows(o, x))
    <3>1. PICK x \in Goal : x[1] = o /\ (CaptureFinished(x) \/ SendThrows(o, x))
      BY <2>2
    <3>2. PICK success \in BOOLEAN : Settle(o, Counted(op[o], x[2], success))
      BY <3>1 DEF CaptureFinished, SendThrows
    <3>3. /\ UNCHANGED <<pc, cycle, slots>> /\ goal' \in [Goal -> Phase]
      BY <3>1 DEF CaptureFinished, SendThrows, TypeOK, Phase
    <3>4. x[2] \in 1..MaxCycle
      BY GoalParts
    <3>. DEFINE r == Counted(op[o], x[2], success)
    <3>5. op[o] \in OperationState /\ pc[o] \in Places
      BY StateTypes
    <3>6. /\ r \in OperationState /\ r.req = op[o].req /\ r.scheduled = op[o].scheduled
          /\ r.recorded = op[o].recorded /\ r.done = op[o].done
          /\ r.pending = IF op[o].pending = 0 THEN 0 ELSE op[o].pending - 1
      BY <3>4, <3>5, CountedType
    <3>7. pc' = [pc EXCEPT ![o] = pc[o]]
      BY <3>3 DEF TypeOK
    <3>8. Settle(o, r)
      BY <3>2
    <3>. HIDE DEF r
    <3>. QED
      BY <2>2, <3>3, <3>5, <3>6, <3>7, <3>8
  <2>. QED
    BY <2>1, <2>2
<1>2. /\ present' \subseteq Operation /\ history' \in Seq(Operation)
      /\ session' \in [Operation -> SessionState]
      /\ \A p \in Operation \ {o} : session'[p] = session[p]
      /\ \/ /\ ~Drained(r) /\ op' = [op EXCEPT ![o] = r] /\ session' = session
         \/ Drained(r) /\ op' = [op EXCEPT ![o] = [Finished(r) EXCEPT !.recorded = TRUE]]
  BY <1>1, SettleEffect DEF TypeOK, recordVars
<1>3. PICK f \in OperationState :
        /\ op' = [op EXCEPT ![o] = f]
        /\ f.req = r.req /\ f.scheduled = r.scheduled /\ f.done = r.done
        /\ f.pending = r.pending
        /\ \/ f.recorded /\ Drained(r)
           \/ ~Drained(r) /\ f.recorded = r.recorded /\ session' = session
  <2>. DEFINE final == [Finished(r) EXCEPT !.recorded = TRUE]
  <2>0. Finished(r) \in OperationState
    BY FinishedType
  <2>1. final \in OperationState
    BY <2>0 DEF OperationState
  <2>4. /\ final.req = r.req /\ final.scheduled = r.scheduled
        /\ final.done = r.done /\ final.pending = r.pending /\ final.recorded
    BY <2>0, FinishedType DEF OperationState
  <2>. HIDE DEF final
  <2>2. CASE Drained(r)
    <3>1. op' = [op EXCEPT ![o] = final]
      BY <1>2, <2>2 DEF final
    <3>. QED
      BY <2>1, <2>2, <2>4, <3>1
  <2>3. CASE ~Drained(r)
    BY <1>2, <2>3
  <2>. QED
    BY <2>2, <2>3
<1>4. cycle' = [cycle EXCEPT ![o] = cycle[o]] /\ cycle[o] \in 1..MaxCycle + 1 /\ slots' \subseteq Goal
  BY <1>1, StateTypes DEF TypeOK
<1>5. /\ TypeOK' /\ Untouched(o)
      /\ op[o]' = f /\ pc[o]' = label /\ cycle[o]' = cycle[o]
  BY <1>1, <1>2, <1>3, <1>4, WriteFrame
<1>6. f.recorded => f.done /\ f.pending = 0
  BY <1>1, <1>3 DEF Drained, Control
<1>7. ~f.recorded => session' = session
  BY <1>3
<1>8. session[o]' = "released" => f.recorded
  <2>1. op[o].recorded => op[o].done /\ op[o].pending = 0
    BY DEF Control
  <2>2. op[o].recorded => Drained(r)
    BY <1>1, <2>1 DEF Drained
  <2>. QED
    BY <1>3, <2>2 DEF Control
<1>9. Control(o)'
  <2>1. f.scheduled \in Int /\ f.pending \in Nat
    BY DEF OperationState
  <2>. QED
    BY <1>1, <1>3, <1>5, <1>6, <1>8, <2>1, StateTypes DEF Control, Early, Sending
<1>. QED
  BY <1>3, <1>5, <1>6, <1>7, <1>9, <1>1

(* The action server's steps and the manager's time-to-live.               *)
LEMMA OtherSteps ==
  ASSUME TypeOK, NEW o \in Operation, Control(o),
         \/ SessionExpires(o)
         \/ \E x \in Goal : x[1] = o /\ \/ SendGoal(o, x) \/ AcceptGoal(x) \/ RefuseGoal(x)
                                        \/ Execute(x) \/ FreeSlot(x)
  PROVE  TypeOK' /\ Control(o)' /\ Untouched(o) /\ UNCHANGED <<op, pc, cycle>>
<1>1. CASE SessionExpires(o)
  BY <1>1 DEF SessionExpires, TypeOK, Untouched, Control
<1>2. CASE \E x \in Goal : x[1] = o /\ \/ SendGoal(o, x) \/ AcceptGoal(x) \/ RefuseGoal(x)
                                       \/ Execute(x) \/ FreeSlot(x)
  <2>1. UNCHANGED <<op, pc, cycle, present, history, session>>
    BY <1>2 DEF SendGoal, AcceptGoal, RefuseGoal, Execute, FreeSlot
  <2>2. slots' \subseteq Goal /\ goal' \in [Goal -> Phase]
    <3>1. /\ goal \in [Goal -> Phase] /\ slots \subseteq Goal
          /\ {"sent", "running", "saved", "broken"} \subseteq Phase
      BY DEF TypeOK, Phase
    <3>2. PICK x \in Goal : SendGoal(o, x) \/ AcceptGoal(x) \/ RefuseGoal(x)
                             \/ Execute(x) \/ FreeSlot(x)
      BY <1>2
    <3>. QED
      BY <3>1, <3>2 DEF SendGoal, AcceptGoal, RefuseGoal, Execute, FreeSlot
  <2>3. TypeOK'
    BY <2>1, <2>2 DEF TypeOK
  <2>4. Control(o)' /\ Untouched(o)
    BY <2>1 DEF Untouched, Control
  <2>. QED
    BY <2>1, <2>3, <2>4
<1>. QED
  BY <1>1, <1>2

----------------------------------------------------------------------------
(* Every step is a step of one operation, of one of these sorts            *)

MoveStep(o) ==
  \/ PrepareGranted(o) \/ LastRound(o) \/ GroupsReady(o) \/ StartScheduling(o)
  \/ LoopEnds(o) \/ TimeToDispatch(o) \/ CapacityFound(o)
  \/ DispatchStopped(o) \/ DispatchGoes(o) \/ AllSent(o)

FailStep(o) ==
  PrepareFails(o) \/ GroupsNotReady(o) \/ ActionServerMissing(o) \/ TestShotFails(o)

WriteStep(o) ==
  \/ MarkPreparing(o) \/ Cancel(o) \/ RenewalFails(o) \/ CapacityReached(o)
  \/ UnsafeIdentifier(o) \/ CountCycle(o) \/ ScheduleTestShot(o)
  \/ \E r \in Request : Create(o, r)

SettleStep(o) ==
  \/ FinishScheduling(o)
  \/ \E x \in Goal : x[1] = o /\ (CaptureFinished(x) \/ SendThrows(o, x))

OtherStep(o) ==
  \/ SessionExpires(o)
  \/ \E x \in Goal : x[1] = o /\ \/ SendGoal(o, x) \/ AcceptGoal(x) \/ RefuseGoal(x)
                                 \/ Execute(x) \/ FreeSlot(x)

StepOf(o) ==
  MoveStep(o) \/ FailStep(o) \/ WriteStep(o) \/ SettleStep(o) \/ OtherStep(o)

LEMMA GoalsOfType ==
  ASSUME NEW o \in Operation, op[o] \in OperationState, NEW c \in 1..MaxCycle
  PROVE  \A x \in GoalsOf(o, c) :
           x \in Goal /\ x[1] = o /\ x[2] = c /\ x[3] \in op[o].req.groups
<1>1. op[o].req.groups \subseteq Group
  BY DEF OperationState, AnyRequest
<1>. QED
  BY <1>1 DEF GoalsOf, Goal

LEMMA StepCases ==
  ASSUME TypeOK, \A o \in Operation : Control(o), Next
  PROVE  \E o \in Operation : StepOf(o)
<1>1. CASE \E o \in Operation, r \in Request : Create(o, r)
  BY <1>1 DEF StepOf, WriteStep
<1>2. CASE \E o \in Operation : Cancel(o) \/ SessionExpires(o)
  BY <1>2 DEF StepOf, WriteStep, OtherStep
<1>3. CASE \E o \in Operation : Worker(o)
  <2>1. PICK o \in Operation : Worker(o)
    BY <1>3
  <2>2. CASE \E x \in GoalsOf(o, cycle[o]) : SendGoal(o, x) \/ SendThrows(o, x)
    <3>1. PICK x \in GoalsOf(o, cycle[o]) : SendGoal(o, x) \/ SendThrows(o, x)
      BY <2>2
    <3>2. cycle[o] \in 1..MaxCycle
      <4>1. pc[o] = "send" /\ Control(o)
        BY <3>1 DEF SendGoal, SendThrows
      <4>. QED
        BY <4>1, StateTypes DEF Control, Sending
    <3>3. x \in Goal /\ x[1] = o
      BY <3>1, <3>2, StateTypes, GoalsOfType
    <3>. QED
      BY <3>1, <3>3 DEF StepOf, SettleStep, OtherStep
  <2>3. CASE ~ \E x \in GoalsOf(o, cycle[o]) : SendGoal(o, x) \/ SendThrows(o, x)
    BY <2>1, <2>3 DEF Worker, StepOf, MoveStep, FailStep, WriteStep, SettleStep
  <2>. QED
    BY <2>2, <2>3
<1>4. CASE \E x \in Goal : Serve(x)
  BY <1>4, GoalParts DEF Serve, StepOf, SettleStep, OtherStep
<1>. QED
  BY <1>1, <1>2, <1>3, <1>4 DEF Next

LEMMA ControlStep ==
  ASSUME TypeOK, \A o \in Operation : Control(o), NEW o \in Operation, StepOf(o)
  PROVE  TypeOK' /\ Untouched(o) /\ \A p \in Operation : Control(p)'
<1>1. TypeOK' /\ Untouched(o) /\ Control(o)'
  <2>1. CASE MoveStep(o)
    BY <2>1, MoveSteps DEF MoveStep
  <2>2. CASE FailStep(o)
    BY <2>2, FailSteps DEF FailStep
  <2>3. CASE WriteStep(o)
    BY <2>3, WriteSteps DEF WriteStep
  <2>4. CASE SettleStep(o)
    BY <2>4, SettleSteps DEF SettleStep
  <2>5. CASE OtherStep(o)
    BY <2>5, OtherSteps DEF OtherStep
  <2>. QED
    BY <2>1, <2>2, <2>3, <2>4, <2>5 DEF StepOf
<1>2. \A p \in Operation \ {o} : Control(p)'
  BY <1>1 DEF Untouched, Control
<1>. QED
  BY <1>1, <1>2

ControlInv == TypeOK /\ \A o \in Operation : Control(o)

LEMMA ControlInit == Init => ControlInv
<1>. SUFFICES ASSUME Init PROVE ControlInv
  OBVIOUS
<1>. DEFINE first == CHOOSE r \in Request : TRUE
<1>1. first \in Request
  BY ConstantsAssumption
<1>. HIDE DEF first
<1>2. op = [o \in Operation |-> NewOperation(first)]
  BY DEF Init, first
<1>3. NewOperation(first) \in OperationState
  BY <1>1, NewOperationType
<1>4. TypeOK
  <2>1. 1 \in 1..MaxCycle + 1 /\ <<>> \in Seq(Operation)
    BY ConstantsAssumption
  <2>. QED
    BY <1>2, <1>3, <2>1 DEF Init, TypeOK, Phase
<1>5. ASSUME NEW o \in Operation PROVE Control(o)
  <2>1. op[o] = NewOperation(first)
    BY <1>2
  <2>. QED
    BY <1>1, <2>1 DEF Init, Control, Early, Sending, NewOperation
<1>. QED
  BY <1>4, <1>5 DEF ControlInv

LEMMA ControlNext == ControlInv /\ [Next]_vars => ControlInv'
<1>1. ASSUME ControlInv, Next PROVE ControlInv'
  <2>1. PICK o \in Operation : StepOf(o)
    BY <1>1, StepCases DEF ControlInv
  <2>. QED
    BY <1>1, <2>1, ControlStep DEF ControlInv
<1>2. ASSUME ControlInv, UNCHANGED vars PROVE ControlInv'
  BY <1>2 DEF ControlInv, vars, TypeOK, Control
<1>. QED
  BY <1>1, <1>2

(* Every step of the recorder keeps the records well-formed: no counter    *)
(* goes below zero, no status or place outside those of the code.          *)
THEOREM OperationTypes == Spec => []TypeOK
<1>1. ControlInv => TypeOK
  BY DEF ControlInv
<1>. QED
  BY <1>1, ControlInit, ControlNext, PTL DEF Spec

----------------------------------------------------------------------------
(* The captures of an operation                                            *)

IsUnanswered(phase) == phase \in {"counted", "sent", "running", "saved", "broken"}

(* A step of o counts captures of o, moves one on, or answers one.         *)
Counts(o, c) == goal' = [x \in Goal |-> IF x \in GoalsOf(o, c) THEN "counted" ELSE goal[x]]

MovesOn(o) ==
  \E x \in Goal, phase \in Phase :
    /\ x[1] = o /\ goal' = [goal EXCEPT ![x] = phase]
    /\ IsUnanswered(goal[x]) /\ IsUnanswered(phase)

Answers(o) ==
  \E x \in Goal, phase \in {"kept", "lost"} :
    x[1] = o /\ goal' = [goal EXCEPT ![x] = phase] /\ IsUnanswered(goal[x])

LEMMA GoalEffect ==
  ASSUME TypeOK, NEW o \in Operation, StepOf(o)
  PROVE  \/ goal' = goal
         \/ CountCycle(o) /\ Counts(o, cycle[o])
         \/ ScheduleTestShot(o) /\ Counts(o, 1)
         \/ OtherStep(o) /\ MovesOn(o)
         \/ /\ \E x \in Goal : x[1] = o /\ (CaptureFinished(x) \/ SendThrows(o, x))
            /\ Answers(o)
<1>1. CASE MoveStep(o) \/ FailStep(o)
  BY <1>1 DEF MoveStep, FailStep, PrepareGranted, LastRound, GroupsReady, StartScheduling,
     LoopEnds, TimeToDispatch, CapacityFound, DispatchStopped, DispatchGoes, AllSent,
     PrepareFails, GroupsNotReady, ActionServerMissing, TestShotFails, FailPreparation
<1>2. CASE WriteStep(o)
  BY <1>2 DEF WriteStep, MarkPreparing, Cancel, RenewalFails, CapacityReached,
     UnsafeIdentifier, CountCycle, ScheduleTestShot, Create, Counts
<1>3. CASE FinishScheduling(o) \/ SessionExpires(o)
  BY <1>3 DEF FinishScheduling, SessionExpires
<1>4. ASSUME NEW x \in Goal, x[1] = o, CaptureFinished(x) \/ SendThrows(o, x)
      PROVE  Answers(o)
  BY <1>4 DEF CaptureFinished, SendThrows, Answers, IsUnanswered
<1>5. ASSUME NEW x \in Goal, x[1] = o,
             SendGoal(o, x) \/ AcceptGoal(x) \/ RefuseGoal(x) \/ Execute(x) \/ FreeSlot(x)
      PROVE  goal' = goal \/ MovesOn(o)
  BY <1>5 DEF SendGoal, AcceptGoal, RefuseGoal, Execute, FreeSlot, MovesOn, IsUnanswered, Phase
<1>. QED
  BY <1>1, <1>2, <1>3, <1>4, <1>5 DEF StepOf, SettleStep, OtherStep

LEMMA UnansweredType ==
  \A o \in Operation : Unanswered(o) = {x \in Goal : x[1] = o /\ IsUnanswered(goal[x])}
BY DEF Unanswered, IsUnanswered

(* The captures of the other operations are left alone.                    *)
LEMMA GoalFrame ==
  ASSUME TypeOK, \A p \in Operation : Control(p), NEW o \in Operation, StepOf(o)
  PROVE  \A x \in Goal : x[1] # o => goal'[x] = goal[x]
<1>. SUFFICES ASSUME NEW x \in Goal, x[1] # o PROVE goal'[x] = goal[x]
  OBVIOUS
<1>1. \A c : x \notin GoalsOf(o, c)
  BY DEF GoalsOf
<1>2. CASE Counts(o, cycle[o]) \/ Counts(o, 1)
  BY <1>1, <1>2 DEF Counts
<1>3. CASE MovesOn(o) \/ Answers(o)
  BY <1>3 DEF MovesOn, Answers, TypeOK
<1>. QED
  BY <1>2, <1>3, GoalEffect

(* No capture of the worker's cycle is counted before the worker is there. *)
LEMMA PlacedStep ==
  ASSUME ControlInv, NEW o \in Operation, StepOf(o), Placed(o)
  PROVE  Placed(o)'
<1>. SUFFICES ASSUME NEW x \in Goal, x[1] = o, goal'[x] # "none"
              PROVE  /\ x[3] \in op[o]'.req.groups
                     /\ x[2] < cycle[o]' \/ (x[2] = cycle[o]' /\ pc[o]' \in Sending)
  BY DEF Placed
<1>. USE DEF ControlInv
<1>0. x[2] \in 1..MaxCycle /\ x[2] \in Int /\ cycle[o] \in Int
  BY GoalParts, StateTypes
<1>1. CASE CountCycle(o)
  <2>1. /\ cycle[o] \in 1..MaxCycle /\ cycle'[o] = cycle[o] /\ pc[o]' \in Sending
        /\ pc[o] \notin Sending /\ Counts(o, cycle[o])
    <3>1. /\ pc[o] = "count" /\ cycle' = cycle /\ Counts(o, cycle[o])
          /\ \E label \in Sending : pc' = [pc EXCEPT ![o] = label]
      BY <1>1 DEF CountCycle, GoTo, Sending, Counts
    <3>. QED
      BY <3>1, StateTypes DEF Control, Sending, TypeOK
  <2>2. op[o]'.req = op[o].req
    BY <1>1, StateTypes DEF CountCycle, OperationState, TypeOK
  <2>3. CASE x \in GoalsOf(o, cycle[o])
    BY <2>1, <2>2, <2>3, GoalsOfType, StateTypes
  <2>4. CASE x \notin GoalsOf(o, cycle[o])
    BY <1>0, <2>1, <2>2, <2>4 DEF Counts, Placed
  <2>. QED
    BY <2>3, <2>4
<1>2. CASE ScheduleTestShot(o)
  <2>1. /\ 1 \in 1..MaxCycle /\ cycle[o] = 1 /\ cycle'[o] = 1 /\ pc[o]' \in Sending
        /\ pc[o] \notin Sending /\ Counts(o, 1)
    BY <1>2, StateTypes, ConstantsAssumption
    DEF ScheduleTestShot, GoTo, Counts, Control, Early, Sending, TypeOK
  <2>2. op[o]'.req = op[o].req
    BY <1>2, StateTypes DEF ScheduleTestShot, OperationState, TypeOK
  <2>3. CASE x \in GoalsOf(o, 1)
    BY <2>1, <2>2, <2>3, GoalsOfType, StateTypes
  <2>4. CASE x \notin GoalsOf(o, 1)
    BY <1>0, <2>1, <2>2, <2>4 DEF Counts, Placed
  <2>. QED
    BY <2>3, <2>4
<1>3. CASE ~CountCycle(o) /\ ~ScheduleTestShot(o)
  <2>1. goal[x] # "none"
    <3>1. goal' = goal \/ MovesOn(o) \/ Answers(o)
      BY <1>3, GoalEffect
    <3>. QED
      BY <3>1 DEF MovesOn, Answers, IsUnanswered, TypeOK
  <2>2. /\ x[3] \in op[o].req.groups
        /\ x[2] < cycle[o] \/ (x[2] = cycle[o] /\ pc[o] \in Sending)
    BY <2>1 DEF Placed
  <2>3. pc[o] \notin Early
    BY <1>0, <2>2 DEF Control, Early, Sending
  <2>4. CASE MoveStep(o)
    <3>1. /\ op' = op
          /\ \/ cycle'[o] = cycle[o] + 1
             \/ cycle' = cycle /\ (pc[o] \in Sending => pc[o]' \in Sending)
      BY <2>4 DEF MoveStep, PrepareGranted, LastRound, GroupsReady, StartScheduling,
         LoopEnds, TimeToDispatch, CapacityFound, DispatchStopped, DispatchGoes, AllSent,
         GoTo, NextCycle, Sending, TypeOK
    <3>. QED
      BY <1>0, <2>2, <3>1
  <2>5. CASE FailStep(o)
    BY <2>3, <2>5, FailSteps DEF FailStep
  <2>6. CASE WriteStep(o)
    <3>1. op[o]'.req = op[o].req
      BY <1>3, <2>3, <2>6, WriteSteps DEF WriteStep, Early
    <3>2. \/ cycle' = cycle /\ (pc[o] \in Sending => pc' = pc)
          \/ cycle'[o] = cycle[o] + 1
      BY <1>3, <2>3, <2>6 DEF WriteStep, MarkPreparing, Cancel, RenewalFails,
         CapacityReached, UnsafeIdentifier, Create, Created, GoTo, NextCycle, Sending, Early,
         TypeOK
    <3>. QED
      BY <1>0, <2>2, <3>1, <3>2
  <2>7. CASE SettleStep(o)
    <3>1. /\ op[o]'.req = op[o].req /\ cycle' = cycle
          /\ pc[o]' = pc[o] \/ FinishScheduling(o)
      BY <2>7, SettleSteps DEF SettleStep
    <3>2. FinishScheduling(o) => pc[o] \notin Sending
      BY DEF FinishScheduling, Sending
    <3>. QED
      BY <2>2, <3>1, <3>2
  <2>8. CASE OtherStep(o)
    BY <2>2, <2>8, OtherSteps DEF OtherStep
  <2>. QED
    BY <2>4, <2>5, <2>6, <2>7, <2>8 DEF StepOf
<1>. QED
  BY <1>1, <1>2, <1>3

LEMMA GoalsCount ==
  ASSUME NEW o \in Operation, op[o] \in OperationState, NEW c
  PROVE  /\ IsFiniteSet(op[o].req.groups) /\ IsFiniteSet(GoalsOf(o, c))
         /\ Cardinality(GoalsOf(o, c)) = Cardinality(op[o].req.groups)
         /\ Cardinality(op[o].req.groups) \in Nat
<1>. DEFINE groups == op[o].req.groups
            goalOf == [g \in groups |-> <<o, c, g>>]
<1>1. IsFiniteSet(groups)
  <2>1. groups \subseteq Group
    BY DEF OperationState, AnyRequest
  <2>. QED
    BY <2>1, ConstantsAssumption, FS_Subset
<1>2. goalOf \in Bijection(groups, GoalsOf(o, c))
  <2>1. goalOf \in [groups -> GoalsOf(o, c)]
    BY DEF GoalsOf
  <2>2. \A g, h \in groups : goalOf[g] = goalOf[h] => g = h
    OBVIOUS
  <2>3. \A x \in GoalsOf(o, c) : \E g \in groups : goalOf[g] = x
    BY DEF GoalsOf
  <2>. HIDE DEF groups, goalOf
  <2>. QED
    BY <2>1, <2>2, <2>3, Fun_IsBij
<1>3. ExistsBijection(groups, GoalsOf(o, c))
  BY <1>2, Fun_ExistsBij
<1>. QED
  BY <1>1, <1>3, FS_Bijection, FS_CardinalityType

(* A cycle's captures are counted when none of them has been.              *)
LEMMA CountingBalances ==
  ASSUME TypeOK, NEW o \in Operation, Balanced(o), NEW c \in 1..MaxCycle, Counts(o, c),
         \A x \in GoalsOf(o, c) : goal[x] = "none",
         op[o]'.pending = op[o].pending + Cardinality(op[o].req.groups)
  PROVE  Balanced(o)'
<1>. DEFINE before == Unanswered(o)
            new == GoalsOf(o, c)
<1>1. \A x \in new : x \in Goal /\ x[1] = o
  BY GoalsOfType, StateTypes
<1>2. Unanswered(o)' = before \cup new
  <2>1. Unanswered(o)' = {x \in Goal : x[1] = o /\ IsUnanswered(goal'[x])}
    BY DEF Unanswered, IsUnanswered
  <2>2. \A x \in Goal : goal'[x] = IF x \in new THEN "counted" ELSE goal[x]
    BY DEF Counts
  <2>. HIDE DEF new
  <2>. QED
    BY <1>1, <2>1, <2>2, UnansweredType DEF IsUnanswered
<1>3. before \cap new = {}
  BY DEF Unanswered
<1>4. IsFiniteSet(new) /\ Cardinality(new) = Cardinality(op[o].req.groups)
  BY GoalsCount, StateTypes
<1>5. IsFiniteSet(before) /\ op[o].pending = Cardinality(before)
  BY DEF Balanced
<1>. HIDE DEF before, new
<1>6. /\ IsFiniteSet(before \cup new)
      /\ Cardinality(before \cup new) = Cardinality(before) + Cardinality(new) - Cardinality({})
  BY <1>3, <1>4, <1>5, FS_Union
<1>7. Cardinality(before \cup new) = Cardinality(before) + Cardinality(new)
  BY <1>4, <1>5, <1>6, FS_EmptySet, FS_CardinalityType
<1>. QED
  BY <1>2, <1>4, <1>5, <1>6, <1>7 DEF Balanced

(* An answer takes one capture off pending_saves, and only an unanswered   *)
(* one is answered, so that the counter is not zero then.                  *)
LEMMA AnsweringBalances ==
  ASSUME TypeOK, NEW o \in Operation, Balanced(o), Answers(o),
         op[o]'.pending = IF op[o].pending = 0 THEN 0 ELSE op[o].pending - 1
  PROVE  Balanced(o)' /\ Unanswered(o) # {}
<1>1. PICK x \in Goal, phase \in {"kept", "lost"} :
        x[1] = o /\ goal' = [goal EXCEPT ![x] = phase] /\ IsUnanswered(goal[x])
  BY DEF Answers
<1>2. x \in Unanswered(o)
  BY <1>1, UnansweredType
<1>3. Unanswered(o)' = Unanswered(o) \ {x}
  <2>1. Unanswered(o)' = {y \in Goal : y[1] = o /\ IsUnanswered(goal'[y])}
    BY DEF Unanswered, IsUnanswered
  <2>2. \A y \in Goal : goal'[y] = IF y = x THEN phase ELSE goal[y]
    BY <1>1 DEF TypeOK
  <2>3. ~IsUnanswered(phase)
    BY DEF IsUnanswered
  <2>. QED
    BY <2>1, <2>2, <2>3, UnansweredType
<1>4. /\ IsFiniteSet(Unanswered(o) \ {x})
      /\ Cardinality(Unanswered(o) \ {x}) = Cardinality(Unanswered(o)) - 1
  BY <1>2, FS_RemoveElement DEF Balanced
<1>5. Cardinality(Unanswered(o)) \in Nat /\ Cardinality(Unanswered(o)) # 0
  BY <1>2, FS_EmptySet, FS_CardinalityType DEF Balanced
<1>. QED
  BY <1>2, <1>3, <1>4, <1>5 DEF Balanced

LEMMA BalancedStep ==
  ASSUME ControlInv, NEW o \in Operation, StepOf(o), Placed(o), Balanced(o)
  PROVE  Balanced(o)'
<1>. USE DEF ControlInv
<1>1. CASE CountCycle(o)
  <2>1. /\ pc[o] = "count" /\ Counts(o, cycle[o])
        /\ op[o]'.pending = op[o].pending + Cardinality(op[o].req.groups)
    BY <1>1, StateTypes DEF CountCycle, Counts, OperationState, TypeOK
  <2>2. cycle[o] \in 1..MaxCycle
    BY <2>1, StateTypes DEF Control
  <2>3. \A x \in GoalsOf(o, cycle[o]) : goal[x] = "none"
    BY <2>1, <2>2, StateTypes, GoalsOfType DEF Placed, Sending
  <2>. QED
    BY <2>1, <2>2, <2>3, CountingBalances
<1>2. CASE ScheduleTestShot(o)
  <2>1. /\ pc[o] = "shot" /\ cycle[o] = 1 /\ 1 \in 1..MaxCycle /\ Counts(o, 1)
        /\ op[o].pending = 0 /\ op[o]'.pending = 1
        /\ op[o].req \in Request /\ op[o].req.kind = "test_shot"
    BY <1>2, StateTypes, ConstantsAssumption
    DEF ScheduleTestShot, Counts, Control, Early, OperationState, TypeOK
  <2>2. Cardinality(op[o].req.groups) = 1
    BY <2>1, RequestType
  <2>3. \A x \in GoalsOf(o, 1) : goal[x] = "none"
    BY <2>1, StateTypes, GoalsOfType DEF Placed, Sending
  <2>. QED
    BY <2>1, <2>2, <2>3, CountingBalances
<1>3. CASE \E x \in Goal : x[1] = o /\ (CaptureFinished(x) \/ SendThrows(o, x))
  <2>1. Answers(o)
    BY <1>3 DEF CaptureFinished, SendThrows, Answers, IsUnanswered
  <2>2. ~FinishScheduling(o)
    <3>1. FinishScheduling(o) => goal' = goal
      BY DEF FinishScheduling
    <3>2. goal' # goal
      BY <2>1 DEF Answers, IsUnanswered, TypeOK
    <3>. QED
      BY <3>1, <3>2
  <2>3. op[o]'.pending = IF op[o].pending = 0 THEN 0 ELSE op[o].pending - 1
    BY <1>3, <2>2, SettleSteps
  <2>. QED
    BY <2>1, <2>3, AnsweringBalances
<1>4. CASE /\ ~CountCycle(o) /\ ~ScheduleTestShot(o)
           /\ ~ \E x \in Goal : x[1] = o /\ (CaptureFinished(x) \/ SendThrows(o, x))
  <2>1. goal' = goal \/ MovesOn(o)
    BY <1>4, GoalEffect
  <2>2. Unanswered(o)' = Unanswered(o)
    <3>1. Unanswered(o)' = {x \in Goal : x[1] = o /\ IsUnanswered(goal'[x])}
      BY DEF Unanswered, IsUnanswered
    <3>2. \A x \in Goal : IsUnanswered(goal'[x]) <=> IsUnanswered(goal[x])
      BY <2>1 DEF MovesOn, TypeOK
    <3>. QED
      BY <3>1, <3>2, UnansweredType
  <2>3. op[o]'.pending = op[o].pending
    <3>1. CASE MoveStep(o)
      BY <3>1 DEF MoveStep, PrepareGranted, LastRound, GroupsReady, StartScheduling,
         LoopEnds, TimeToDispatch, CapacityFound, DispatchStopped, DispatchGoes, AllSent
    <3>2. CASE FailStep(o)
      BY <3>2, FailSteps DEF FailStep
    <3>3. CASE WriteStep(o)
      <4>1. pc[o] = "absent" => op[o].pending = 0
        BY DEF Control, Early
      <4>. QED
        BY <1>4, <3>3, <4>1, WriteSteps DEF WriteStep
    <3>4. CASE SettleStep(o)
      BY <1>4, <3>4, SettleSteps DEF SettleStep
    <3>5. CASE OtherStep(o)
      BY <3>5, OtherSteps DEF OtherStep
    <3>. QED
      BY <3>1, <3>2, <3>3, <3>4, <3>5 DEF StepOf
  <2>. QED
    BY <2>2, <2>3 DEF Balanced
<1>. QED
  BY <1>1, <1>2, <1>3, <1>4

----------------------------------------------------------------------------
(* The captures of an operation and its end                                *)

OperationInv ==
  /\ ControlInv
  /\ \A o \in Operation : Placed(o) /\ Balanced(o)

LEMMA OperationInit == Init => OperationInv
<1>. SUFFICES ASSUME Init PROVE OperationInv
  OBVIOUS
<1>1. ControlInv
  BY ControlInit
<1>2. ASSUME NEW o \in Operation PROVE Placed(o) /\ Balanced(o)
  <2>1. \A x \in Goal : goal[x] = "none"
    BY DEF Init
  <2>2. Unanswered(o) = {}
    BY <2>1 DEF Unanswered
  <2>3. op[o].pending = 0
    BY <1>1 DEF ControlInv, Control, Early, Init
  <2>. QED
    BY <2>1, <2>2, <2>3, FS_EmptySet DEF Placed, Balanced
<1>. QED
  BY <1>1, <1>2 DEF OperationInv

LEMMA OperationNext == OperationInv /\ [Next]_vars => OperationInv'
<1>1. ASSUME OperationInv, Next PROVE OperationInv'
  <2>1. ControlInv /\ ControlInv'
    BY <1>1, ControlNext DEF OperationInv
  <2>2. PICK o \in Operation : StepOf(o)
    BY <1>1, StepCases DEF OperationInv, ControlInv
  <2>3. Placed(o)' /\ Balanced(o)'
    BY <1>1, <2>2, PlacedStep, BalancedStep DEF OperationInv
  <2>4. ASSUME NEW p \in Operation \ {o} PROVE Placed(p)' /\ Balanced(p)'
    <3>1. /\ op[p]' = op[p] /\ pc[p]' = pc[p] /\ cycle[p]' = cycle[p]
      BY <2>1, <2>2, ControlStep DEF Untouched, ControlInv
    <3>2. \A x \in Goal : x[1] = p => goal'[x] = goal[x]
      BY <2>1, <2>2, GoalFrame DEF ControlInv
    <3>3. Unanswered(p)' = Unanswered(p)
      BY <3>2 DEF Unanswered
    <3>. QED
      BY <1>1, <3>1, <3>2, <3>3 DEF OperationInv, Placed, Balanced
  <2>. QED
    BY <2>1, <2>3, <2>4 DEF OperationInv
<1>2. ASSUME OperationInv, UNCHANGED vars PROVE OperationInv'
  <2>1. ControlInv'
    BY <1>2, ControlNext DEF OperationInv
  <2>. QED
    BY <1>2, <2>1 DEF OperationInv, vars, Placed, Balanced, Unanswered
<1>. QED
  BY <1>1, <1>2

(* pending_saves counts the captures that were counted and not answered,   *)
(* for any number of groups, cycles and operations.                        *)
THEOREM PendingCountsCaptures == Spec => []PendingIsUnanswered
<1>1. OperationInv => PendingIsUnanswered
  BY DEF OperationInv, Balanced, PendingIsUnanswered
<1>. QED
  BY <1>1, OperationInit, OperationNext, PTL DEF Spec

LEMMA RecordedIsAnswered ==
  ASSUME OperationInv, NEW o \in Operation, op[o].recorded
  PROVE  Unanswered(o) = {} /\ pc[o] \in {"send", "ended"}
<1>1. op[o].done /\ op[o].pending = 0
  BY DEF OperationInv, ControlInv, Control
<1>2. IsFiniteSet(Unanswered(o)) /\ Cardinality(Unanswered(o)) = 0
  BY <1>1 DEF OperationInv, Balanced
<1>3. Unanswered(o) = {}
  BY <1>2, FS_EmptySet
<1>. QED
  BY <1>1, <1>3 DEF OperationInv, ControlInv, Control

(* The recorder gives a session back only after the last capture of the    *)
(* operation was answered.                                                 *)
THEOREM SessionOutlivesCaptures == Spec => []SessionCoversCaptures
<1>1. OperationInv => SessionCoversCaptures
  <2>. SUFFICES ASSUME OperationInv, NEW o \in Operation, session[o] = "released"
                PROVE  Unanswered(o) = {}
    BY DEF SessionCoversCaptures
  <2>1. op[o].recorded
    BY DEF OperationInv, ControlInv, Control
  <2>. QED
    BY <2>1, RecordedIsAnswered
<1>. QED
  BY <1>1, OperationInit, OperationNext, PTL DEF Spec

(* A step of o leaves its record alone once the end of o is recorded.      *)
LEMMA RecordedStep ==
  ASSUME OperationInv, NEW o \in Operation, StepOf(o), op[o].recorded
  PROVE  op'[o] = op[o]
<1>. USE DEF OperationInv, ControlInv
<1>1. Unanswered(o) = {} /\ pc[o] \in {"send", "ended"}
  BY RecordedIsAnswered
<1>2. CASE MoveStep(o)
  BY <1>2 DEF MoveStep, PrepareGranted, LastRound, GroupsReady, StartScheduling,
     LoopEnds, TimeToDispatch, CapacityFound, DispatchStopped, DispatchGoes, AllSent
<1>3. CASE FailStep(o)
  BY <1>1, <1>3, FailSteps DEF FailStep, Early
<1>4. CASE WriteStep(o)
  BY <1>4, WriteSteps DEF WriteStep
<1>5. CASE SettleStep(o)
  <2>1. ~FinishScheduling(o)
    BY <1>1 DEF FinishScheduling
  <2>2. ASSUME NEW x \in Goal, x[1] = o, CaptureFinished(x) \/ SendThrows(o, x) PROVE FALSE
    BY <1>1, <2>2 DEF CaptureFinished, SendThrows, Unanswered
  <2>. QED
    BY <1>5, <2>1, <2>2 DEF SettleStep
<1>6. CASE OtherStep(o)
  BY <1>6, OtherSteps DEF OtherStep
<1>. QED
  BY <1>2, <1>3, <1>4, <1>5, <1>6 DEF StepOf

LEMMA RecordedNext ==
  OperationInv /\ [Next]_vars => \A o \in Operation : op[o].recorded => op'[o] = op[o]
<1>1. ASSUME OperationInv, Next, NEW p \in Operation, op[p].recorded PROVE op'[p] = op[p]
  <2>1. PICK o \in Operation : StepOf(o)
    BY <1>1, StepCases DEF OperationInv, ControlInv
  <2>2. Untouched(o)
    BY <1>1, <2>1, ControlStep DEF OperationInv, ControlInv
  <2>. QED
    BY <1>1, <2>1, <2>2, RecordedStep DEF Untouched
<1>2. ASSUME UNCHANGED vars PROVE op' = op
  BY <1>2 DEF vars
<1>. QED
  BY <1>1, <1>2

(* What has been recorded as ended is final.                               *)
THEOREM RecordsAreFinal == Spec => RecordedIsFinal
<1>1. OperationInv /\ [Next]_vars =>
        [\A o \in Operation : op[o].recorded => op'[o] = op[o]]_vars
  BY RecordedNext
<1>. QED
  BY <1>1, OperationInit, OperationNext, PTL DEF Spec, RecordedIsFinal

----------------------------------------------------------------------------
(* The map of operations and its history                                   *)

HistoryRecorded == \A i \in 1..Len(history) : op[history[i]].recorded

(* An operation only leaves the map when it has ended.                     *)
Drops == \A p \in present \ present' : op'[p].recorded

LEMMA HistoryAfterRecord ==
  ASSUME OperationInv, HistoryRecorded, NEW o \in Operation, NEW r \in OperationState,
         NEW s \in SessionState, RecordTerminal(o, r, s)
  PROVE  HistoryRecorded' /\ Drops
<1>. USE DEF OperationInv, ControlInv
<1>1. /\ \A p \in Operation : (op[p].recorded \/ p = o) => op'[p].recorded
      /\ history \in Seq(Operation)
  <2>1. /\ op' = [op EXCEPT ![o] = [r EXCEPT !.recorded = TRUE]]
        /\ [r EXCEPT !.recorded = TRUE].recorded
    BY RecordEffect DEF OperationState
  <2>. QED
    BY <2>1 DEF TypeOK
<1>2. \A i \in 1..Len(history) : history[i] \in Operation /\ op'[history[i]].recorded
  BY <1>1 DEF HistoryRecorded
<1>3. CASE r.recorded
  BY <1>2, <1>3 DEF RecordTerminal, recordVars, HistoryRecorded, Drops
<1>4. CASE ~r.recorded
  <2>. DEFINE h == Append(history, o)
  <2>1. /\ h \in Seq(Operation) /\ Len(h) = Len(history) + 1 /\ Len(h) \in Nat
        /\ \A i \in 1..Len(h) : h[i] \in Operation /\ op'[h[i]].recorded
    <3>1. /\ h \in Seq(Operation) /\ Len(h) = Len(history) + 1 /\ Len(history) \in Nat
          /\ \A i \in 1..Len(history) : h[i] = history[i]
          /\ h[Len(history) + 1] = o
      BY <1>1
    <3>. HIDE DEF h
    <3>2. ASSUME NEW i \in 1..Len(h) PROVE h[i] \in Operation /\ op'[h[i]].recorded
      <4>1. i \in 1..Len(history) \/ i = Len(history) + 1
        BY <3>1
      <4>. QED
        BY <1>1, <1>2, <3>1, <4>1
    <3>. QED
      BY <3>1, <3>2
  <2>2. /\ history' = IF Len(h) > HistoryLimit THEN Tail(h) ELSE h
        /\ present' = present \ Evicted(h)
    BY <1>4 DEF RecordTerminal
  <2>. HIDE DEF h
  <2>3. h # <<>> /\ Head(h) = h[1] /\ 1 \in 1..Len(h)
    BY <1>1, <2>1
  <2>4. /\ Len(Tail(h)) = Len(h) - 1
        /\ \A i \in 1..Len(h) - 1 : Tail(h)[i] = h[i + 1]
    BY <2>1, <2>3
  <2>5. Drops
    BY <2>1, <2>2, <2>3 DEF Drops, Evicted
  <2>6. HistoryRecorded'
    <3>1. CASE history' = h
      BY <2>1, <3>1 DEF HistoryRecorded
    <3>2. CASE history' = Tail(h)
      <4>1. ASSUME NEW i \in 1..Len(history') PROVE op'[history'[i]].recorded
        <5>1. i \in 1..Len(h) - 1 /\ i + 1 \in 1..Len(h)
          BY <2>1, <2>4, <3>2
        <5>. QED
          BY <2>1, <2>4, <3>2, <5>1
      <4>. QED
        BY <4>1 DEF HistoryRecorded
    <3>. QED
      BY <2>2, <3>1, <3>2
  <2>. QED
    BY <2>5, <2>6
<1>. QED
  BY <1>3, <1>4

(* The steps that record the end of an operation.                          *)
Records(o) == \E r \in OperationState, s \in SessionState : RecordTerminal(o, r, s)

LEMMA RecordOrNot ==
  ASSUME ControlInv, NEW o \in Operation, StepOf(o)
  PROVE  \/ Records(o)
         \/ history' = history /\ present \subseteq present'
<1>. USE DEF ControlInv
<1>0. op[o] \in OperationState /\ session[o] \in SessionState
  BY StateTypes
<1>1. ASSUME NEW r \in OperationState, Settle(o, r)
      PROVE  Records(o) \/ (history' = history /\ present' = present)
  BY <1>0, <1>1, FinishedType DEF Settle, Records, recordVars
<1>2. CASE MoveStep(o)
  BY <1>2 DEF MoveStep, PrepareGranted, LastRound, GroupsReady, StartScheduling,
     LoopEnds, TimeToDispatch, CapacityFound, DispatchStopped, DispatchGoes, AllSent
<1>3. CASE FailStep(o)
  <2>. DEFINE failed(status) == [op[o] EXCEPT !.stop = TRUE, !.done = TRUE, !.status = status]
  <2>1. \A status \in Status : failed(status) \in OperationState
    BY <1>0 DEF OperationState
  <2>2. CASE ActionServerMissing(o)
    <3>1. RecordTerminal(o, failed("failed"), session[o]) /\ "failed" \in Status
      BY <2>2 DEF ActionServerMissing, Status
    <3>. HIDE DEF failed
    <3>. QED
      BY <1>0, <2>1, <3>1 DEF Records
  <2>3. CASE ~ActionServerMissing(o)
    <3>1. PICK s \in SessionState : FailPreparation(o, s)
      BY <1>0, <1>3, <2>3
      DEF FailStep, PrepareFails, GroupsNotReady, TestShotFails, SessionState
    <3>2. PICK status \in Status : RecordTerminal(o, failed(status), s)
      BY <3>1 DEF FailPreparation, Status
    <3>. HIDE DEF failed
    <3>. QED
      BY <2>1, <3>2 DEF Records
  <2>. QED
    BY <2>2, <2>3
<1>4. CASE WriteStep(o)
  BY <1>4 DEF WriteStep, MarkPreparing, Cancel, RenewalFails, CapacityReached,
     UnsafeIdentifier, CountCycle, ScheduleTestShot, Create
<1>5. CASE SettleStep(o)
  <2>1. CASE FinishScheduling(o)
    <3>. DEFINE status == IF op[o].stop THEN op[o].status ELSE "draining"
                r == [op[o] EXCEPT !.done = TRUE, !.status = status]
    <3>1. Settle(o, r) /\ status \in Status
      BY <1>0, <2>1 DEF FinishScheduling, OperationState, Status
    <3>. HIDE DEF status
    <3>2. r \in OperationState
      BY <1>0, <3>1 DEF OperationState
    <3>. QED
      BY <1>1, <3>1, <3>2
  <2>2. CASE \E x \in Goal : x[1] = o /\ (CaptureFinished(x) \/ SendThrows(o, x))
    <3>1. PICK x \in Goal : x[1] = o /\ (CaptureFinished(x) \/ SendThrows(o, x))
      BY <2>2
    <3>2. PICK success \in BOOLEAN : Settle(o, Counted(op[o], x[2], success))
      BY <3>1 DEF CaptureFinished, SendThrows
    <3>. QED
      BY <1>0, <1>1, <3>2, GoalParts, CountedType
  <2>. QED
    BY <1>5, <2>1, <2>2 DEF SettleStep
<1>6. CASE OtherStep(o)
  BY <1>6 DEF OtherStep, SessionExpires, SendGoal, AcceptGoal, RefuseGoal, Execute, FreeSlot
<1>. QED
  BY <1>2, <1>3, <1>4, <1>5, <1>6 DEF StepOf

Running == {o \in Operation : Created(o) /\ ~op[o].recorded}

MapInv ==
  /\ OperationInv
  /\ HistoryRecorded
  /\ ActiveRetained
  /\ ActiveLimit

LEMMA MapInit == Init => MapInv
<1>. SUFFICES ASSUME Init PROVE MapInv
  OBVIOUS
<1>1. OperationInv
  BY OperationInit
<1>2. HistoryRecorded /\ ActiveRetained
  BY DEF Init, HistoryRecorded, ActiveRetained, Created
<1>3. Running = {}
  BY DEF Init, Running, Created
<1>4. ActiveLimit
  BY <1>3, FS_EmptySet, ConstantsAssumption DEF ActiveLimit, Running
<1>. QED
  BY <1>1, <1>2, <1>4 DEF MapInv

(* Only Create brings an operation into being.                             *)
LEMMA CreatedStep ==
  ASSUME ControlInv, NEW o \in Operation, StepOf(o)
  PROVE  \/ Created(o)' => Created(o)
         \/ (\E r \in Request : Create(o, r)) /\ o \in present'
<1>. USE DEF ControlInv
<1>1. CASE MoveStep(o)
  BY <1>1 DEF MoveStep, PrepareGranted, LastRound, GroupsReady, StartScheduling,
     LoopEnds, TimeToDispatch, CapacityFound, DispatchStopped, DispatchGoes, AllSent, Created
<1>2. CASE FailStep(o)
  BY <1>2 DEF FailStep, PrepareFails, GroupsNotReady, ActionServerMissing, TestShotFails,
     Created
<1>3. CASE WriteStep(o)
  BY <1>3 DEF WriteStep, MarkPreparing, Cancel, RenewalFails, CapacityReached,
     UnsafeIdentifier, CountCycle, ScheduleTestShot, Create, Created
<1>4. CASE SettleStep(o)
  BY <1>4 DEF SettleStep, FinishScheduling, CaptureFinished, SendThrows, Created
<1>5. CASE OtherStep(o)
  BY <1>5, OtherSteps DEF OtherStep, Created
<1>. QED
  BY <1>1, <1>2, <1>3, <1>4, <1>5 DEF StepOf

LEMMA MapStep ==
  ASSUME MapInv, NEW o \in Operation, StepOf(o)
  PROVE  HistoryRecorded' /\ ActiveRetained' /\ ActiveLimit'
<1>. USE DEF MapInv, OperationInv, ControlInv
<1>1. Untouched(o) /\ TypeOK'
  BY ControlStep
<1>2. \A p \in Operation : op[p].recorded => op'[p].recorded
  BY <1>1, RecordedStep DEF Untouched
<1>3. HistoryRecorded' /\ Drops
  <2>1. CASE Records(o)
    BY <2>1, HistoryAfterRecord DEF Records
  <2>2. CASE history' = history /\ present \subseteq present'
    <3>1. \A i \in 1..Len(history) : history[i] \in Operation
      BY DEF TypeOK
    <3>. QED
      BY <1>2, <2>2, <3>1 DEF HistoryRecorded, Drops
  <2>. QED
    BY <2>1, <2>2, RecordOrNot
<1>4. \A p \in Operation \ {o} : Created(p)' <=> Created(p)
  BY <1>1 DEF Untouched, Created
<1>5. ActiveRetained'
  <2>. SUFFICES ASSUME NEW p \in Operation, Created(p)', p \notin present'
                PROVE  op'[p].recorded
    BY DEF ActiveRetained
  <2>1. CASE p \in present
    BY <1>3, <2>1 DEF Drops
  <2>2. CASE p \notin present /\ Created(p)
    BY <1>2, <2>2 DEF ActiveRetained
  <2>3. CASE ~Created(p)
    BY <1>4, <2>3, CreatedStep
  <2>. QED
    BY <2>1, <2>2, <2>3
<1>6. IsFiniteSet(Running) /\ Cardinality(Running) \in Nat
  BY ConstantsAssumption, FS_Subset, FS_CardinalityType DEF Running
<1>7. CASE Created(o)' => Created(o)
  <2>1. Running' \subseteq Running
    BY <1>2, <1>4, <1>7 DEF Running
  <2>2. Cardinality(Running') \in Nat /\ Cardinality(Running') <= Cardinality(Running)
    BY <1>6, <2>1, FS_Subset, FS_CardinalityType
  <2>3. Cardinality(Running') <= MaxActive
    BY <1>6, <2>2, ConstantsAssumption DEF ActiveLimit, Running
  <2>. QED
    BY <1>3, <1>5, <2>3 DEF ActiveLimit, Running
<1>8. CASE \E r \in Request : Create(o, r)
  <2>1. Running \subseteq Active
    BY DEF Running, Active, ActiveRetained
  <2>2. Running' \subseteq Active \cup {o}
    BY <1>2, <1>4, <2>1 DEF Running
  <2>3. Active \subseteq Operation /\ Cardinality(Active) < MaxActive
    BY <1>8 DEF Create, Active, TypeOK
  <2>4. IsFiniteSet(Active) /\ Cardinality(Active) \in Nat
    BY <2>3, ConstantsAssumption, FS_Subset, FS_CardinalityType
  <2>5. /\ IsFiniteSet(Active \cup {o}) /\ Cardinality(Active \cup {o}) \in Nat
        /\ Cardinality(Active \cup {o}) <= Cardinality(Active) + 1
    <3>1. /\ IsFiniteSet(Active \cup {o})
          /\ Cardinality(Active \cup {o}) =
               IF o \in Active THEN Cardinality(Active) ELSE Cardinality(Active) + 1
      BY ONLY <2>4, FS_AddElement
    <3>. QED
      BY <2>4, <3>1
  <2>6. Cardinality(Running') \in Nat /\ Cardinality(Running') <= Cardinality(Active \cup {o})
    BY <2>2, <2>5, FS_Subset, FS_CardinalityType
  <2>7. Cardinality(Running') <= MaxActive
    BY <2>3, <2>4, <2>5, <2>6, ConstantsAssumption
  <2>. QED
    BY <1>3, <1>5, <2>7 DEF ActiveLimit, Running
<1>. QED
  BY <1>7, <1>8, CreatedStep

LEMMA MapNext == MapInv /\ [Next]_vars => MapInv'
<1>1. ASSUME MapInv, Next PROVE MapInv'
  <2>1. PICK o \in Operation : StepOf(o)
    BY <1>1, StepCases DEF MapInv, OperationInv, ControlInv
  <2>2. OperationInv'
    BY <1>1, OperationNext DEF MapInv
  <2>. QED
    BY <1>1, <2>1, <2>2, MapStep DEF MapInv
<1>2. ASSUME MapInv, UNCHANGED vars PROVE MapInv'
  <2>1. OperationInv'
    BY <1>2, OperationNext DEF MapInv
  <2>. QED
    BY <1>2, <2>1 DEF MapInv, vars, HistoryRecorded, ActiveRetained, ActiveLimit, Created
<1>. QED
  BY <1>1, <1>2

(* An operation that has not ended stays in the map, can be watched and    *)
(* cancelled, however many others end in the meantime.                     *)
THEOREM RunningOperationsStay == Spec => []ActiveRetained
<1>1. MapInv => ActiveRetained
  BY DEF MapInv
<1>. QED
  BY <1>1, MapInit, MapNext, PTL DEF Spec

(* Never more than max_active_operations run at once, also when the status *)
(* of some of them already looks as if they had ended.                     *)
THEOREM RunningOperationsLimited == Spec => []ActiveLimit
<1>1. MapInv => ActiveLimit
  BY DEF MapInv
<1>. QED
  BY <1>1, MapInit, MapNext, PTL DEF Spec

----------------------------------------------------------------------------
(* The cycles of an operation.  For each cycle whose captures are not all  *)
(* answered the record keeps how many are, and how many of these failed; a *)
(* cycle is counted once, as scheduled when its captures are counted, all  *)
(* at a time, and as completed or failed when the last of them is answered.*)

Answered(o, c) == {x \in GoalsOf(o, c) : goal[x] \in {"kept", "lost"}}
Lost(o, c) == {x \in GoalsOf(o, c) : goal[x] = "lost"}
Whole(o, c) == Answered(o, c) = GoalsOf(o, c)

CyclesScheduled(o) == {c \in 1..MaxCycle : \A x \in GoalsOf(o, c) : goal[x] # "none"}
CyclesSaved(o) == {c \in 1..MaxCycle : Whole(o, c) /\ Lost(o, c) = {}}
CyclesFailed(o) == {c \in 1..MaxCycle : Whole(o, c) /\ Lost(o, c) # {}}

Tally(o) ==
  \A c \in 1..MaxCycle :
    /\ op[o].results[c] = IF Whole(o, c) THEN 0 ELSE Cardinality(Answered(o, c))
    /\ op[o].failures[c] = IF Whole(o, c) THEN 0 ELSE Cardinality(Lost(o, c))
    /\ c \in CyclesScheduled(o) \/ \A x \in GoalsOf(o, c) : goal[x] = "none"

Totals(o) ==
  /\ op[o].scheduled = Cardinality(CyclesScheduled(o))
  /\ op[o].completed = Cardinality(CyclesSaved(o))
  /\ op[o].failed = Cardinality(CyclesFailed(o))

(* What Tally and Totals read of a record.                                 *)
Books(r) == <<r.req, r.completed, r.failed, r.results, r.failures>>

LEMMA CycleSets ==
  ASSUME NEW S \in SUBSET (1..MaxCycle)
  PROVE  /\ IsFiniteSet(S) /\ Cardinality(S) \in Nat
         /\ \A c : c \notin S => Cardinality(S \cup {c}) = Cardinality(S) + 1
<1>1. IsFiniteSet(1..MaxCycle)
  BY ConstantsAssumption, FS_Interval
<1>2. IsFiniteSet(S)
  BY <1>1, FS_Subset
<1>. QED
  BY <1>2, FS_CardinalityType, FS_AddElement

LEMMA GroupsExist ==
  ASSUME NEW o \in Operation, op[o] \in OperationState, NEW c
  PROVE  GoalsOf(o, c) # {}
<1>1. op[o].req.groups # {}
  BY DEF OperationState, AnyRequest
<1>. QED
  BY <1>1 DEF GoalsOf

LEMMA AnsweredCount ==
  ASSUME TypeOK, NEW o \in Operation, NEW c \in 1..MaxCycle
  PROVE  /\ IsFiniteSet(Answered(o, c)) /\ Cardinality(Answered(o, c)) \in Nat
         /\ IsFiniteSet(Lost(o, c)) /\ Cardinality(Lost(o, c)) \in Nat
<1>1. IsFiniteSet(GoalsOf(o, c))
  BY GoalsCount, StateTypes
<1>2. Answered(o, c) \subseteq GoalsOf(o, c) /\ Lost(o, c) \subseteq GoalsOf(o, c)
  BY DEF Answered, Lost
<1>. QED
  BY <1>1, <1>2, FS_Subset, FS_CardinalityType

(* Captures that are neither counted nor answered in a step.               *)
LEMMA BooksStay ==
  ASSUME TypeOK, NEW o \in Operation, goal' = goal \/ MovesOn(o),
         Books(op'[o]) = Books(op[o]), op'[o].scheduled = op[o].scheduled, Tally(o), Totals(o)
  PROVE  Tally(o)' /\ Totals(o)'
<1>1. \A c : GoalsOf(o, c)' = GoalsOf(o, c)
  BY DEF Books, GoalsOf
<1>2. \A x \in Goal : \A phase \in {"none", "kept", "lost"} : goal'[x] = phase <=> goal[x] = phase
  BY DEF MovesOn, IsUnanswered, TypeOK
<1>3. \A c \in 1..MaxCycle : \A x \in GoalsOf(o, c) : x \in Goal
  BY GoalsOfType, StateTypes
<1>4. \A c \in 1..MaxCycle :
        /\ Answered(o, c)' = Answered(o, c) /\ Lost(o, c)' = Lost(o, c)
        /\ Whole(o, c)' <=> Whole(o, c)
        /\ c \in CyclesScheduled(o)' <=> c \in CyclesScheduled(o)
        /\ (\A x \in GoalsOf(o, c) : goal[x] = "none") <=> (\A x \in GoalsOf(o, c)' : goal'[x] = "none")
  BY <1>1, <1>2, <1>3 DEF Answered, Lost, Whole, CyclesScheduled
<1>5. CyclesScheduled(o)' = CyclesScheduled(o) /\ CyclesSaved(o)' = CyclesSaved(o)
      /\ CyclesFailed(o)' = CyclesFailed(o)
  BY <1>4 DEF CyclesScheduled, CyclesSaved, CyclesFailed
<1>6. Tally(o)'
  BY <1>4 DEF Tally, Books
<1>7. Totals(o)'
  BY <1>5 DEF Totals, Books
<1>. QED
  BY <1>6, <1>7

(* A cycle is scheduled.                                                   *)
LEMMA BooksCount ==
  ASSUME TypeOK, NEW o \in Operation, NEW c \in 1..MaxCycle, Counts(o, c),
         \A x \in GoalsOf(o, c) : goal[x] = "none",
         Books(op'[o]) = Books(op[o]), op'[o].scheduled = op[o].scheduled + 1, Tally(o), Totals(o)
  PROVE  Tally(o)' /\ Totals(o)' /\ CyclesScheduled(o)' = CyclesScheduled(o) \cup {c}
<1>1. \A d : GoalsOf(o, d)' = GoalsOf(o, d)
  BY DEF Books, GoalsOf
<1>2. \A d \in 1..MaxCycle : \A x \in GoalsOf(o, d) : x \in Goal /\ x[2] = d
  BY GoalsOfType, StateTypes
<1>3. \A d \in 1..MaxCycle : \A x \in GoalsOf(o, d) :
        goal'[x] = IF d = c THEN "counted" ELSE goal[x]
  BY <1>2 DEF Counts
<1>4. \A d \in 1..MaxCycle : Answered(o, d)' = Answered(o, d) /\ Lost(o, d)' = Lost(o, d)
  BY <1>1, <1>3 DEF Answered, Lost
<1>5. \A d \in 1..MaxCycle : Whole(o, d)' <=> Whole(o, d)
  BY <1>1, <1>4 DEF Whole
<1>6. \A d \in 1..MaxCycle : d \in CyclesScheduled(o)' <=> d \in CyclesScheduled(o) \/ d = c
  BY <1>1, <1>3 DEF CyclesScheduled
<1>7. CyclesScheduled(o)' = CyclesScheduled(o) \cup {c}
  BY <1>6 DEF CyclesScheduled
<1>8. CyclesSaved(o)' = CyclesSaved(o) /\ CyclesFailed(o)' = CyclesFailed(o)
  BY <1>4, <1>5 DEF CyclesSaved, CyclesFailed
<1>9. Tally(o)'
  <2>1. \A d \in 1..MaxCycle :
          d \in CyclesScheduled(o)' \/ \A x \in GoalsOf(o, d)' : goal'[x] = "none"
    BY <1>1, <1>3, <1>6 DEF Tally
  <2>. QED
    BY <1>4, <1>5, <2>1 DEF Tally, Books
<1>10. Cardinality(CyclesScheduled(o)') = Cardinality(CyclesScheduled(o)) + 1
  <2>1. c \notin CyclesScheduled(o)
    BY GroupsExist, StateTypes DEF CyclesScheduled
  <2>2. CyclesScheduled(o) \in SUBSET (1..MaxCycle)
    BY DEF CyclesScheduled
  <2>. QED
    BY <1>7, <2>1, <2>2, CycleSets
<1>11. Totals(o)'
  BY <1>8, <1>10 DEF Totals, Books
<1>. QED
  BY <1>7, <1>9, <1>11

(* What an answer adds to the books of record r.                           *)
Tallied(r, q, c, success) ==
  LET results  == r.results[c] + 1
      failures == r.failures[c] + (IF success THEN 0 ELSE 1)
      whole    == results = Cardinality(r.req.groups)
  IN  /\ q.completed = IF whole /\ failures = 0 THEN r.completed + 1 ELSE r.completed
      /\ q.failed = IF whole /\ failures # 0 THEN r.failed + 1 ELSE r.failed
      /\ q.results = [r.results EXCEPT ![c] = IF whole THEN 0 ELSE results]
      /\ q.failures = [r.failures EXCEPT ![c] = IF whole THEN 0 ELSE failures]
      /\ q.req = r.req /\ q.scheduled = r.scheduled

LEMMA CountedTallies ==
  ASSUME NEW r \in OperationState, NEW c \in 1..MaxCycle, NEW success \in BOOLEAN
  PROVE  /\ Tallied(r, Counted(r, c, success), c, success)
         /\ Counted(r, c, success).stop = (r.stop \/ ~success)
         /\ Counted(r, c, success).cancelled = r.cancelled
         /\ Counted(r, c, success).status = r.status
BY DEF Counted, Tallied, OperationState

(* One capture is answered: the heart of the matter.  The cycle of the     *)
(* capture was not whole, so its counters are those of the answers so far; *)
(* it is whole when these and the new one are as many as the groups.       *)
LEMMA BooksAnswer ==
  ASSUME TypeOK, NEW o \in Operation, NEW x \in Goal, NEW success \in BOOLEAN,
         x \in GoalsOf(o, x[2]), IsUnanswered(goal[x]),
         goal' = [goal EXCEPT ![x] = IF success THEN "kept" ELSE "lost"],
         Tallied(op[o], op'[o], x[2], success), Tally(o), Totals(o)
  PROVE  Tally(o)' /\ Totals(o)'
<1>. DEFINE c == x[2]
            before == Answered(o, c)
            lost == Lost(o, c)
            all == GoalsOf(o, c)
<1>1. c \in 1..MaxCycle
  BY GoalParts
<1>2. \A d : GoalsOf(o, d)' = GoalsOf(o, d)
  BY DEF Tallied, GoalsOf
<1>3. \A d \in 1..MaxCycle : \A y \in GoalsOf(o, d) : y \in Goal /\ (y = x => d = c)
  BY GoalsOfType, StateTypes
<1>4. \A y \in Goal : goal'[y] = IF y = x THEN IF success THEN "kept" ELSE "lost" ELSE goal[y]
  BY DEF TypeOK
<1>5. x \in all /\ x \notin before /\ x \notin lost /\ ~Whole(o, c)
  BY DEF Whole, Answered, Lost, IsUnanswered
<1>6. /\ Answered(o, c)' = before \cup {x}
      /\ Lost(o, c)' = IF success THEN lost ELSE lost \cup {x}
  <2>1. /\ Answered(o, c)' = {y \in all : goal'[y] \in {"kept", "lost"}}
        /\ Lost(o, c)' = {y \in all : goal'[y] = "lost"}
    BY <1>2 DEF Answered, Lost
  <2>2. \A y \in all : goal'[y] = IF y = x THEN IF success THEN "kept" ELSE "lost" ELSE goal[y]
    BY <1>1, <1>3, <1>4
  <2>3. /\ before = {y \in all : goal[y] \in {"kept", "lost"}}
        /\ lost = {y \in all : goal[y] = "lost"}
    BY DEF Answered, Lost
  <2>. HIDE DEF before, lost, all, c
  <2>4. Answered(o, c)' = before \cup {x}
    BY <1>5, <2>1, <2>2, <2>3
  <2>5. Lost(o, c)' = IF success THEN lost ELSE lost \cup {x}
    BY <1>5, <2>1, <2>2, <2>3
  <2>. QED
    BY <2>4, <2>5
<1>7. \A d \in 1..MaxCycle \ {c} :
        /\ Answered(o, d)' = Answered(o, d) /\ Lost(o, d)' = Lost(o, d)
        /\ Whole(o, d)' <=> Whole(o, d)
  BY <1>2, <1>3, <1>4 DEF Answered, Lost, Whole
<1>8. /\ IsFiniteSet(all) /\ Cardinality(all) = Cardinality(op[o].req.groups)
      /\ IsFiniteSet(before) /\ IsFiniteSet(lost) /\ Cardinality(before) \in Nat
      /\ Cardinality(lost) \in Nat
  BY <1>1, GoalsCount, AnsweredCount, StateTypes
<1>9. /\ op[o].results[c] = Cardinality(before) /\ op[o].failures[c] = Cardinality(lost)
  BY <1>1, <1>5 DEF Tally
<1>. DEFINE results == op[o].results[c] + 1
            failures == op[o].failures[c] + (IF success THEN 0 ELSE 1)
            whole == results = Cardinality(op[o].req.groups)
<1>10. results = Cardinality(Answered(o, c)') /\ failures = Cardinality(Lost(o, c)')
  <2>1. Cardinality(before \cup {x}) = Cardinality(before) + 1
    BY <1>5, <1>8, FS_AddElement
  <2>2. Cardinality(lost \cup {x}) = Cardinality(lost) + 1
    BY <1>5, <1>8, FS_AddElement
  <2>. QED
    BY <1>6, <1>8, <1>9, <2>1, <2>2
<1>11. whole <=> Whole(o, c)'
  <2>1. Answered(o, c)' \in SUBSET all
    BY <1>5, <1>6 DEF Answered
  <2>2. Whole(o, c)' <=> Answered(o, c)' = all
    BY <1>2 DEF Whole
  <2>3. Cardinality(all) = Cardinality(Answered(o, c)') => all = Answered(o, c)'
    BY <1>8, <2>1, FS_Subset
  <2>. QED
    BY <1>8, <1>10, <2>2, <2>3
<1>12. (failures = 0) <=> Lost(o, c)' = {}
  <2>1. IsFiniteSet(Lost(o, c)')
    <3>. HIDE DEF lost
    <3>1. IsFiniteSet(lost \cup {x})
      BY <1>8, FS_AddElement
    <3>. QED
      BY <1>6, <1>8, <3>1
  <2>. QED
    BY <1>10, <2>1, FS_EmptySet
<1>13. Tally(o)'
  <2>1. \A d \in 1..MaxCycle :
          d \in CyclesScheduled(o)' \/ \A y \in GoalsOf(o, d)' : goal'[y] = "none"
    BY <1>2, <1>3, <1>4, <1>5 DEF Tally, CyclesScheduled, IsUnanswered
  <2>2. /\ op'[o].results = [op[o].results EXCEPT ![c] = IF whole THEN 0 ELSE results]
        /\ op'[o].failures = [op[o].failures EXCEPT ![c] = IF whole THEN 0 ELSE failures]
    BY DEF Tallied
  <2>3. op[o].results \in [1..MaxCycle -> Nat] /\ op[o].failures \in [1..MaxCycle -> Nat]
    BY StateTypes DEF OperationState
  <2>. HIDE DEF c, results, failures, whole
  <2>4. ASSUME NEW d \in 1..MaxCycle
        PROVE  /\ op'[o].results[d] = IF Whole(o, d)' THEN 0 ELSE Cardinality(Answered(o, d)')
               /\ op'[o].failures[d] = IF Whole(o, d)' THEN 0 ELSE Cardinality(Lost(o, d)')
    <3>1. CASE d = c
      BY <1>10, <1>11, <2>2, <2>3, <3>1
    <3>2. CASE d # c
      <4>1. op'[o].results[d] = op[o].results[d] /\ op'[o].failures[d] = op[o].failures[d]
        BY <2>2, <2>3, <3>2
      <4>2. /\ op[o].results[d] = IF Whole(o, d) THEN 0 ELSE Cardinality(Answered(o, d))
            /\ op[o].failures[d] = IF Whole(o, d) THEN 0 ELSE Cardinality(Lost(o, d))
        BY DEF Tally
      <4>3. Answered(o, d)' = Answered(o, d) /\ Lost(o, d)' = Lost(o, d) /\ (Whole(o, d)' <=> Whole(o, d))
        BY <1>7, <3>2
      <4>. QED
        BY <4>1, <4>2, <4>3
    <3>. QED
      BY <3>1, <3>2
  <2>. QED
    BY <2>1, <2>4 DEF Tally
<1>14. CyclesScheduled(o)' = CyclesScheduled(o)
  BY <1>2, <1>3, <1>4, <1>5 DEF CyclesScheduled, IsUnanswered
<1>15. /\ CyclesSaved(o)' = CyclesSaved(o) \cup (IF whole /\ failures = 0 THEN {c} ELSE {})
       /\ CyclesFailed(o)' = CyclesFailed(o) \cup (IF whole /\ failures # 0 THEN {c} ELSE {})
       /\ c \notin CyclesSaved(o) /\ c \notin CyclesFailed(o)
  <2>. HIDE DEF whole, failures, results
  <2>1. ASSUME NEW d \in 1..MaxCycle
        PROVE  /\ d \in CyclesSaved(o)' <=> d \in CyclesSaved(o) \/ (d = c /\ whole /\ failures = 0)
               /\ d \in CyclesFailed(o)' <=> d \in CyclesFailed(o) \/ (d = c /\ whole /\ failures # 0)
    <3>1. /\ d \in CyclesSaved(o)' <=> Whole(o, d)' /\ Lost(o, d)' = {}
          /\ d \in CyclesFailed(o)' <=> Whole(o, d)' /\ Lost(o, d)' # {}
          /\ d \in CyclesSaved(o) <=> Whole(o, d) /\ Lost(o, d) = {}
          /\ d \in CyclesFailed(o) <=> Whole(o, d) /\ Lost(o, d) # {}
      BY DEF CyclesSaved, CyclesFailed
    <3>2. CASE d = c
      BY <1>5, <1>11, <1>12, <3>1, <3>2
    <3>3. CASE d # c
      BY <1>7, <3>1, <3>3
    <3>. QED
      BY <3>2, <3>3
  <2>2. c \notin CyclesSaved(o) /\ c \notin CyclesFailed(o)
    BY <1>5 DEF CyclesSaved, CyclesFailed
  <2>. QED
    BY <1>1, <2>1, <2>2 DEF CyclesSaved, CyclesFailed
<1>16. Totals(o)'
  <2>1. CyclesSaved(o) \in SUBSET (1..MaxCycle) /\ CyclesFailed(o) \in SUBSET (1..MaxCycle)
    BY DEF CyclesSaved, CyclesFailed
  <2>2. /\ op'[o].completed = IF whole /\ failures = 0 THEN op[o].completed + 1 ELSE op[o].completed
        /\ op'[o].failed = IF whole /\ failures # 0 THEN op[o].failed + 1 ELSE op[o].failed
        /\ op'[o].scheduled = op[o].scheduled
    BY DEF Tallied
  <2>3. /\ op[o].scheduled = Cardinality(CyclesScheduled(o))
        /\ op[o].completed = Cardinality(CyclesSaved(o))
        /\ op[o].failed = Cardinality(CyclesFailed(o))
    BY DEF Totals
  <2>. HIDE DEF whole, failures, results, c
  <2>4. op'[o].completed = Cardinality(CyclesSaved(o)')
    BY <1>15, <2>1, <2>2, <2>3, CycleSets
  <2>5. op'[o].failed = Cardinality(CyclesFailed(o)')
    BY <1>15, <2>1, <2>2, <2>3, CycleSets
  <2>. QED
    BY <1>14, <2>2, <2>3, <2>4, <2>5 DEF Totals
<1>. QED
  BY <1>13, <1>16

----------------------------------------------------------------------------
(* Books and verdict of an operation, action by action                     *)

LEMMA SettleBooks ==
  ASSUME TypeOK, NEW o \in Operation, NEW r \in OperationState, Settle(o, r)
  PROVE  /\ Books(op'[o]) = Books(r) /\ op'[o].scheduled = r.scheduled
         /\ op'[o].stop = r.stop /\ op'[o].cancelled = r.cancelled /\ op'[o].done = r.done
         /\ op'[o].recorded => r.recorded \/ op'[o].status = Finished(r).status
<1>1. CASE ~Drained(r) /\ op' = [op EXCEPT ![o] = r]
  <2>1. op'[o] = r
    BY <1>1 DEF TypeOK
  <2>. QED
    BY <2>1
<1>2. CASE op' = [op EXCEPT ![o] = [Finished(r) EXCEPT !.recorded = TRUE]]
  <2>. DEFINE f == Finished(r)
  <2>1. /\ f \in OperationState /\ f.req = r.req /\ f.scheduled = r.scheduled
        /\ f.completed = r.completed /\ f.failed = r.failed
        /\ f.results = r.results /\ f.failures = r.failures
        /\ f.stop = r.stop /\ f.cancelled = r.cancelled /\ f.done = r.done
    BY FinishedType DEF Finished, OperationState
  <2>2. op'[o] = [f EXCEPT !.recorded = TRUE]
    BY <1>2 DEF TypeOK
  <2>. HIDE DEF f
  <2>3. /\ op'[o].req = f.req /\ op'[o].scheduled = f.scheduled
        /\ op'[o].completed = f.completed /\ op'[o].failed = f.failed
        /\ op'[o].results = f.results /\ op'[o].failures = f.failures
        /\ op'[o].stop = f.stop /\ op'[o].cancelled = f.cancelled /\ op'[o].done = f.done
        /\ op'[o].status = f.status
    BY <2>1, <2>2 DEF OperationState
  <2>. QED
    BY <2>1, <2>3 DEF Books, f
<1>. QED
  BY <1>1, <1>2, SettleEffect

LEMMA FailBooks ==
  ASSUME TypeOK, NEW o \in Operation, FailStep(o)
  PROVE  /\ Books(op'[o]) = Books(op[o]) /\ op'[o].scheduled = op[o].scheduled
         /\ op'[o].stop /\ op'[o].status # "complete" /\ goal' = goal
<1>. DEFINE failed(status) == [op[o] EXCEPT !.stop = TRUE, !.done = TRUE, !.status = status]
<1>0. session[o] \in SessionState /\ op[o] \in OperationState
  BY StateTypes
<1>1. PICK s \in SessionState, status \in {"cancelled", "failed"} :
        RecordTerminal(o, failed(status), s) /\ goal' = goal
  <2>1. CASE ActionServerMissing(o)
    <3>1. RecordTerminal(o, failed("failed"), session[o]) /\ goal' = goal
      BY <2>1 DEF ActionServerMissing
    <3>. HIDE DEF failed
    <3>. QED
      BY <1>0, <3>1
  <2>2. CASE ~ActionServerMissing(o)
    <3>1. PICK s \in SessionState : FailPreparation(o, s)
      BY <1>0, <2>2
      DEF FailStep, PrepareFails, GroupsNotReady, TestShotFails, SessionState
    <3>2. PICK status \in {"cancelled", "failed"} : RecordTerminal(o, failed(status), s)
      BY <3>1 DEF FailPreparation
    <3>3. goal' = goal
      BY <3>1 DEF FailPreparation
    <3>. HIDE DEF failed
    <3>. QED
      BY <3>2, <3>3
  <2>. QED
    BY <2>1, <2>2
<1>. DEFINE r == failed(status)
<1>2. /\ r \in OperationState /\ Books(r) = Books(op[o]) /\ r.scheduled = op[o].scheduled
      /\ r.stop /\ r.status # "complete"
  BY <1>0 DEF OperationState, Status, Books
<1>3. RecordTerminal(o, r, s)
  BY <1>1
<1>. HIDE DEF r
<1>4. op' = [op EXCEPT ![o] = [r EXCEPT !.recorded = TRUE]]
  BY <1>2, <1>3, RecordEffect
<1>5. op'[o] = [r EXCEPT !.recorded = TRUE]
  BY <1>4 DEF TypeOK
<1>6. /\ Books(op'[o]) = Books(r) /\ op'[o].scheduled = r.scheduled
      /\ op'[o].stop = r.stop /\ op'[o].status = r.status
  BY <1>2, <1>5 DEF OperationState, Books
<1>. QED
  BY <1>1, <1>2, <1>6

(* The writes that are neither a creation nor the counting of a cycle.     *)
PlainWrite(o) ==
  MarkPreparing(o) \/ Cancel(o) \/ RenewalFails(o) \/ CapacityReached(o) \/ UnsafeIdentifier(o)

LEMMA PlainBooks ==
  ASSUME TypeOK, NEW o \in Operation, PlainWrite(o)
  PROVE  /\ Books(op'[o]) = Books(op[o]) /\ op'[o].scheduled = op[o].scheduled /\ goal' = goal
         /\ op'[o].done = op[o].done
         /\ op'[o].stop \/ /\ MarkPreparing(o) /\ op'[o].stop = op[o].stop
                           /\ op'[o].cancelled = op[o].cancelled
<1>0. op[o] \in OperationState
  BY StateTypes
<1>1. CASE MarkPreparing(o)
  <2>1. op'[o] = [op[o] EXCEPT !.status = "preparing"] /\ goal' = goal
    BY <1>1 DEF MarkPreparing, TypeOK
  <2>. QED
    BY <1>0, <1>1, <2>1 DEF OperationState, Books
<1>2. CASE Cancel(o)
  <2>. DEFINE status == IF op[o].pending = 0 THEN "cancelled" ELSE "draining"
  <2>1. op'[o] = [op[o] EXCEPT !.stop = TRUE, !.cancelled = TRUE, !.status = status] /\ goal' = goal
    BY <1>2 DEF Cancel, TypeOK
  <2>. HIDE DEF status
  <2>. QED
    BY <1>0, <2>1 DEF OperationState, Books
<1>3. CASE RenewalFails(o)
  <2>1. op'[o] = [op[o] EXCEPT !.stop = TRUE] /\ goal' = goal
    BY <1>3 DEF RenewalFails, TypeOK
  <2>. QED
    BY <1>0, <2>1 DEF OperationState, Books
<1>4. CASE CapacityReached(o)
  <2>1. op'[o] = [op[o] EXCEPT !.stop = TRUE, !.status = "draining"] /\ goal' = goal
    BY <1>4 DEF CapacityReached, TypeOK
  <2>. QED
    BY <1>0, <2>1 DEF OperationState, Books
<1>5. CASE UnsafeIdentifier(o)
  <2>1. op'[o] = [op[o] EXCEPT !.stop = TRUE, !.status = "failed"] /\ goal' = goal
    BY <1>5 DEF UnsafeIdentifier, TypeOK
  <2>. QED
    BY <1>0, <2>1 DEF OperationState, Books
<1>. QED
  BY <1>1, <1>2, <1>3, <1>4, <1>5 DEF PlainWrite

(* A cycle is counted; all of its captures are new.                        *)
LEMMA CountBooks ==
  ASSUME OperationInv, NEW o \in Operation, CountCycle(o) \/ ScheduleTestShot(o)
  PROVE  /\ cycle[o] \in 1..MaxCycle /\ cycle'[o] = cycle[o] /\ pc'[o] \in Sending
         /\ pc[o] \notin Sending /\ Counts(o, cycle[o])
         /\ \A x \in GoalsOf(o, cycle[o]) : goal[x] = "none"
         /\ Books(op'[o]) = Books(op[o]) /\ op'[o].scheduled = op[o].scheduled + 1
         /\ op'[o].stop = op[o].stop /\ op'[o].cancelled = op[o].cancelled
         /\ op'[o].recorded = op[o].recorded
         /\ IF CountCycle(o) THEN op'[o].done = op[o].done /\ ~op[o].done
            ELSE op[o].req.kind = "test_shot"
<1>. USE DEF OperationInv, ControlInv
<1>0. op[o] \in OperationState
  BY StateTypes
<1>1. CASE CountCycle(o)
  <2>. DEFINE scheduled == op[o].scheduled + 1
              pending == op[o].pending + Cardinality(op[o].req.groups)
  <2>1. /\ pc[o] = "count" /\ cycle' = cycle /\ Counts(o, cycle[o])
        /\ \E label \in Sending : pc' = [pc EXCEPT ![o] = label]
    BY <1>1 DEF CountCycle, GoTo, Sending, Counts
  <2>2. cycle[o] \in 1..MaxCycle /\ ~op[o].done
    BY <2>1, StateTypes DEF Control
  <2>3. pc[o] \notin Sending /\ pc'[o] \in Sending
    BY <2>1 DEF Sending, TypeOK
  <2>4. op'[o] = [op[o] EXCEPT !.status = "running", !.scheduled = scheduled, !.pending = pending]
    BY <1>1 DEF CountCycle, TypeOK
  <2>5. \A x \in GoalsOf(o, cycle[o]) : goal[x] = "none"
    BY <2>1, <2>2, StateTypes, GoalsOfType DEF Placed, Sending
  <2>. HIDE DEF pending, scheduled
  <2>6. /\ Books(op'[o]) = Books(op[o]) /\ op'[o].scheduled = scheduled
        /\ op'[o].stop = op[o].stop /\ op'[o].cancelled = op[o].cancelled
        /\ op'[o].recorded = op[o].recorded /\ op'[o].done = op[o].done
    BY <1>0, <2>4 DEF OperationState, Books
  <2>. QED
    BY <1>1, <2>1, <2>2, <2>3, <2>5, <2>6 DEF scheduled
<1>2. CASE ScheduleTestShot(o)
  <2>1. /\ pc[o] = "shot" /\ cycle' = cycle /\ cycle[o] = 1 /\ op[o].scheduled = 0
        /\ pc' = [pc EXCEPT ![o] = "send"] /\ Counts(o, 1) /\ op[o].req.kind = "test_shot"
    BY <1>2 DEF ScheduleTestShot, GoTo, Counts, Control, Early
  <2>2. cycle[o] \in 1..MaxCycle /\ ~CountCycle(o)
    BY <2>1, ConstantsAssumption DEF CountCycle
  <2>3. pc[o] \notin Sending /\ pc'[o] \in Sending
    BY <2>1 DEF Sending, TypeOK
  <2>4. op'[o] = [op[o] EXCEPT !.status = "preparing", !.scheduled = 1, !.pending = 1, !.done = TRUE]
    BY <1>2 DEF ScheduleTestShot, TypeOK
  <2>5. \A x \in GoalsOf(o, cycle[o]) : goal[x] = "none"
    BY <2>1, <2>2, StateTypes, GoalsOfType DEF Placed, Sending
  <2>6. /\ Books(op'[o]) = Books(op[o]) /\ op'[o].scheduled = 1
        /\ op'[o].stop = op[o].stop /\ op'[o].cancelled = op[o].cancelled
        /\ op'[o].recorded = op[o].recorded
    BY <1>0, <2>4 DEF OperationState, Books
  <2>. QED
    BY <2>1, <2>2, <2>3, <2>5, <2>6
<1>. QED
  BY <1>1, <1>2

Answering(o) == \E x \in Goal : x[1] = o /\ (CaptureFinished(x) \/ SendThrows(o, x))

LEMMA AnswerBooks ==
  ASSUME OperationInv, NEW o \in Operation, Answering(o)
  PROVE  \E x \in Goal, success \in BOOLEAN :
           /\ x \in GoalsOf(o, x[2]) /\ IsUnanswered(goal[x])
           /\ goal' = [goal EXCEPT ![x] = IF success THEN "kept" ELSE "lost"]
           /\ Settle(o, Counted(op[o], x[2], success))
           /\ UNCHANGED <<pc, cycle>>
<1>1. PICK x \in Goal : x[1] = o /\ (CaptureFinished(x) \/ SendThrows(o, x))
  BY DEF Answering
<1>. DEFINE success == IF CaptureFinished(x) THEN goal[x] = "saved" ELSE FALSE
<1>2. /\ IsUnanswered(goal[x]) /\ success \in BOOLEAN
      /\ goal' = [goal EXCEPT ![x] = IF success THEN "kept" ELSE "lost"]
      /\ Settle(o, Counted(op[o], x[2], success))
      /\ UNCHANGED <<pc, cycle>>
  <2>1. CASE CaptureFinished(x)
    BY <1>1, <2>1 DEF CaptureFinished, IsUnanswered
  <2>2. CASE ~CaptureFinished(x)
    BY <1>1, <2>2 DEF SendThrows, IsUnanswered
  <2>. QED
    BY <2>1, <2>2
<1>3. x \in GoalsOf(o, x[2])
  <2>1. x[3] \in op[o].req.groups
    BY <1>1, <1>2 DEF OperationInv, Placed, IsUnanswered
  <2>. QED
    BY <1>1, <2>1, GoalParts DEF GoalsOf
<1>. QED
  BY <1>2, <1>3

(* No capture of the operation has been counted.                           *)
Fresh(o) ==
  /\ op[o] \in OperationState
  /\ op[o].scheduled = 0 /\ op[o].completed = 0 /\ op[o].failed = 0
  /\ \A c \in 1..MaxCycle : op[o].results[c] = 0 /\ op[o].failures[c] = 0
  /\ \A x \in Goal : x[1] = o => goal[x] = "none"

LEMMA FreshBooks == \A o \in Operation : Fresh(o) => Tally(o) /\ Totals(o)
<1>. SUFFICES ASSUME NEW o \in Operation, Fresh(o) PROVE Tally(o) /\ Totals(o)
  OBVIOUS
<1>1. \A c \in 1..MaxCycle : \A x \in GoalsOf(o, c) : goal[x] = "none"
  BY GoalsOfType DEF Fresh
<1>2. \A c \in 1..MaxCycle : Answered(o, c) = {} /\ Lost(o, c) = {}
  BY <1>1 DEF Answered, Lost
<1>3. \A c \in 1..MaxCycle : GoalsOf(o, c) # {}
  BY GroupsExist DEF Fresh
<1>4. \A c \in 1..MaxCycle : ~Whole(o, c)
  BY <1>2, <1>3 DEF Whole
<1>5. CyclesScheduled(o) = {} /\ CyclesSaved(o) = {} /\ CyclesFailed(o) = {}
  BY <1>1, <1>3, <1>4 DEF CyclesScheduled, CyclesSaved, CyclesFailed
<1>6. Cardinality({}) = 0
  BY FS_EmptySet
<1>7. Tally(o)
  BY <1>1, <1>2, <1>4, <1>6 DEF Tally, Fresh
<1>8. Totals(o)
  BY <1>5, <1>6 DEF Totals, Fresh
<1>. QED
  BY <1>7, <1>8

LEMMA FreshBooksNext == (\A o \in Operation : Fresh(o) => Tally(o) /\ Totals(o))'
BY FreshBooks, PTL

LEMMA NewOperationBooks ==
  ASSUME NEW r
  PROVE  /\ NewOperation(r).scheduled = 0 /\ NewOperation(r).completed = 0
         /\ NewOperation(r).failed = 0
         /\ \A c \in 1..MaxCycle :
              NewOperation(r).results[c] = 0 /\ NewOperation(r).failures[c] = 0
BY DEF NewOperation

LEMMA CreateBooks ==
  ASSUME OperationInv, NEW o \in Operation, NEW r \in Request, Create(o, r)
  PROVE  /\ Fresh(o)' /\ op'[o].req = r /\ op'[o].scheduled = 0 /\ cycle'[o] = 1
         /\ pc'[o] \in {"handler", "start", "shot"}
         /\ ~op'[o].stop /\ ~op'[o].cancelled /\ ~op'[o].done /\ ~op'[o].recorded
<1>. USE DEF OperationInv, ControlInv
<1>1. /\ op'[o] = NewOperation(r) /\ goal' = goal /\ cycle' = cycle /\ pc[o] = "absent"
      /\ pc'[o] = FirstStep(r.kind)
  BY DEF Create, Created, TypeOK
<1>2. cycle[o] = 1
  BY <1>1 DEF Control, Early
<1>3. \A x \in Goal : x[1] = o => goal[x] = "none"
  <2>1. \A x \in Goal : x[2] \in 1..MaxCycle
    BY GoalParts
  <2>. QED
    BY <1>1, <1>2, <2>1, StateTypes DEF Placed, Sending
<1>4. op'[o] \in OperationState
  BY <1>1, NewOperationType
<1>5. pc'[o] \in {"handler", "start", "shot"}
  BY <1>1, RequestType DEF FirstStep, AnyRequest, Kind
<1>6. Fresh(o)'
  BY <1>1, <1>3, <1>4, NewOperationBooks DEF Fresh
<1>7. /\ op'[o].req = r /\ ~op'[o].stop /\ ~op'[o].cancelled /\ ~op'[o].done
      /\ ~op'[o].recorded
  BY <1>1 DEF NewOperation
<1>. QED
  BY <1>1, <1>2, <1>5, <1>6, <1>7 DEF Fresh

(* Every step is one of these for the books.                               *)
LEMMA StepSorts ==
  ASSUME TypeOK, NEW o \in Operation, StepOf(o)
  PROVE  \/ MoveStep(o) \/ FailStep(o) \/ PlainWrite(o) \/ FinishScheduling(o) \/ OtherStep(o)
         \/ \E r \in Request : Create(o, r)
         \/ CountCycle(o) \/ ScheduleTestShot(o)
         \/ Answering(o)
BY DEF StepOf, WriteStep, SettleStep, PlainWrite, Answering

LEMMA MoveBooks ==
  ASSUME TypeOK, NEW o \in Operation, MoveStep(o)
  PROVE  op' = op /\ goal' = goal
BY DEF MoveStep, PrepareGranted, LastRound, GroupsReady, StartScheduling,
   LoopEnds, TimeToDispatch, CapacityFound, DispatchStopped, DispatchGoes, AllSent

LEMMA OtherBooks ==
  ASSUME TypeOK, NEW o \in Operation, OtherStep(o)
  PROVE  op' = op /\ pc' = pc /\ cycle' = cycle /\ (goal' = goal \/ MovesOn(o))
<1>1. op' = op /\ pc' = pc /\ cycle' = cycle
  BY DEF OtherStep, SessionExpires, SendGoal, AcceptGoal, RefuseGoal, Execute, FreeSlot
<1>2. goal' = goal \/ MovesOn(o)
  <2>1. CASE SessionExpires(o)
    BY <2>1 DEF SessionExpires
  <2>2. ASSUME NEW x \in Goal, x[1] = o,
               SendGoal(o, x) \/ AcceptGoal(x) \/ RefuseGoal(x) \/ Execute(x) \/ FreeSlot(x)
        PROVE  goal' = goal \/ MovesOn(o)
    BY <2>2 DEF SendGoal, AcceptGoal, RefuseGoal, Execute, FreeSlot, MovesOn, IsUnanswered, Phase
  <2>. QED
    BY <2>1, <2>2 DEF OtherStep
<1>. QED
  BY <1>1, <1>2

LEMMA FinishBooks ==
  ASSUME TypeOK, NEW o \in Operation, FinishScheduling(o)
  PROVE  /\ pc[o] = "finish" /\ pc'[o] = "ended" /\ cycle' = cycle /\ goal' = goal
         /\ Books(op'[o]) = Books(op[o]) /\ op'[o].scheduled = op[o].scheduled
         /\ op'[o].stop = op[o].stop /\ op'[o].cancelled = op[o].cancelled
         /\ \E r \in OperationState :
              /\ r.recorded = op[o].recorded /\ r.stop = op[o].stop /\ r.failed = op[o].failed
              /\ Settle(o, r)
<1>. DEFINE status == IF op[o].stop THEN op[o].status ELSE "draining"
            r == [op[o] EXCEPT !.done = TRUE, !.status = status]
<1>0. op[o] \in OperationState /\ pc[o] \in Places
  BY StateTypes
<1>1. Settle(o, r) /\ status \in Status
  BY <1>0 DEF FinishScheduling, OperationState, Status
<1>. HIDE DEF status
<1>2. /\ r \in OperationState /\ Books(r) = Books(op[o]) /\ r.scheduled = op[o].scheduled
      /\ r.stop = op[o].stop /\ r.cancelled = op[o].cancelled /\ r.recorded = op[o].recorded
      /\ r.failed = op[o].failed
  BY <1>0, <1>1 DEF OperationState, Books
<1>. HIDE DEF r
<1>3. /\ Books(op'[o]) = Books(r) /\ op'[o].scheduled = r.scheduled
      /\ op'[o].stop = r.stop /\ op'[o].cancelled = r.cancelled
  BY <1>1, <1>2, SettleBooks
<1>4. pc[o] = "finish" /\ pc'[o] = "ended" /\ cycle' = cycle /\ goal' = goal
  BY DEF FinishScheduling, GoTo, TypeOK
<1>. QED
  BY <1>1, <1>2, <1>3, <1>4

LEMMA TallyStep ==
  ASSUME OperationInv, NEW o \in Operation, StepOf(o), Tally(o), Totals(o)
  PROVE  Tally(o)' /\ Totals(o)'
<1>. USE DEF OperationInv, ControlInv
<1>0. op[o] \in OperationState
  BY StateTypes
<1>1. CASE MoveStep(o)
  BY <1>1, MoveBooks, BooksStay
<1>2. CASE FailStep(o)
  BY <1>2, FailBooks, BooksStay
<1>3. CASE PlainWrite(o)
  BY <1>3, PlainBooks, BooksStay
<1>4. CASE FinishScheduling(o)
  BY <1>4, FinishBooks, BooksStay
<1>5. CASE OtherStep(o)
  BY <1>5, OtherBooks, BooksStay
<1>6. CASE \E r \in Request : Create(o, r)
  BY <1>6, CreateBooks, FreshBooksNext
<1>7. CASE CountCycle(o) \/ ScheduleTestShot(o)
  BY <1>7, CountBooks, BooksCount
<1>8. CASE Answering(o)
  <2>1. PICK x \in Goal, success \in BOOLEAN :
          /\ x \in GoalsOf(o, x[2]) /\ IsUnanswered(goal[x])
          /\ goal' = [goal EXCEPT ![x] = IF success THEN "kept" ELSE "lost"]
          /\ Settle(o, Counted(op[o], x[2], success))
    BY <1>8, AnswerBooks
  <2>. DEFINE r == Counted(op[o], x[2], success)
  <2>2. r \in OperationState /\ Tallied(op[o], r, x[2], success)
    BY <1>0, GoalParts, CountedType, CountedTallies
  <2>3. Settle(o, r)
    BY <2>1
  <2>. HIDE DEF r
  <2>4. Books(op'[o]) = Books(r) /\ op'[o].scheduled = r.scheduled
    BY <2>2, <2>3, SettleBooks
  <2>5. Tallied(op[o], op'[o], x[2], success)
    BY <2>2, <2>4 DEF Tallied, Books
  <2>. QED
    BY <2>1, <2>5, BooksAnswer
<1>. QED
  BY <1>1, <1>2, <1>3, <1>4, <1>5, <1>6, <1>7, <1>8, StepSorts

(* The worker of an operation of count cycles stops at the first cycle     *)
(* beyond them.                                                            *)
Dispatching == {"capacity", "count"} \cup Sending

OnTime(o) ==
  op[o].req.count # 0 =>
    cycle[o] <= IF pc[o] \in Dispatching THEN op[o].req.count ELSE op[o].req.count + 1

LEMMA OnTimeStep ==
  ASSUME OperationInv, NEW o \in Operation, StepOf(o), OnTime(o)
  PROVE  OnTime(o)'
<1>. USE DEF OperationInv, ControlInv
<1>0. op[o] \in OperationState /\ op[o].req.count \in Int /\ cycle[o] \in Int
  BY StateTypes DEF OperationState, AnyRequest
<1>1. ASSUME op'[o].req = op[o].req,
             \/ cycle'[o] = cycle[o] /\ (pc'[o] \in Dispatching => pc[o] \in Dispatching)
             \/ cycle'[o] = cycle[o] + 1 /\ pc[o] \in Dispatching /\ pc'[o] \notin Dispatching
      PROVE  OnTime(o)'
  <2>1. CASE cycle'[o] = cycle[o] /\ (pc'[o] \in Dispatching => pc[o] \in Dispatching)
    BY <1>0, <1>1, <2>1 DEF OnTime
  <2>2. CASE cycle'[o] = cycle[o] + 1 /\ pc[o] \in Dispatching /\ pc'[o] \notin Dispatching
    BY <1>0, <1>1, <2>2 DEF OnTime
  <2>. QED
    BY <1>1, <2>1, <2>2
<1>2. CASE TimeToDispatch(o)
  <2>1. op' = op /\ cycle' = cycle /\ ~Exhausted(o)
    BY <1>2 DEF TimeToDispatch
  <2>. QED
    BY <1>0, <2>1 DEF OnTime, Exhausted
<1>3. CASE MoveStep(o) /\ ~TimeToDispatch(o)
  <2>1. op' = op
    BY <1>3, MoveBooks
  <2>2. \/ cycle'[o] = cycle[o] /\ (pc'[o] \in Dispatching => pc[o] \in Dispatching)
        \/ cycle'[o] = cycle[o] + 1 /\ pc[o] \in Dispatching /\ pc'[o] \notin Dispatching
    BY <1>3 DEF MoveStep, PrepareGranted, LastRound, GroupsReady, StartScheduling,
       LoopEnds, CapacityFound, DispatchStopped, DispatchGoes, AllSent, GoTo, NextCycle,
       Dispatching, Sending, TypeOK
  <2>. QED
    BY <1>1, <2>1, <2>2
<1>4. CASE FailStep(o)
  <2>1. op'[o].req = op[o].req /\ cycle'[o] = cycle[o] /\ pc'[o] = "ended"
    BY <1>4, FailSteps DEF FailStep
  <2>. QED
    BY <1>1, <2>1 DEF Dispatching, Sending
<1>5. CASE PlainWrite(o)
  <2>1. op'[o].req = op[o].req
    BY <1>5, PlainBooks DEF Books
  <2>2. \/ cycle'[o] = cycle[o] /\ (pc'[o] \in Dispatching => pc[o] \in Dispatching)
        \/ cycle'[o] = cycle[o] + 1 /\ pc[o] \in Dispatching /\ pc'[o] \notin Dispatching
    BY <1>5 DEF PlainWrite, MarkPreparing, Cancel, RenewalFails, CapacityReached,
       UnsafeIdentifier, GoTo, NextCycle, Dispatching, Sending, TypeOK
  <2>. QED
    BY <1>1, <2>1, <2>2
<1>6. CASE FinishScheduling(o)
  <2>1. op'[o].req = op[o].req /\ cycle'[o] = cycle[o] /\ pc'[o] = "ended"
    BY <1>6, FinishBooks DEF Books
  <2>. QED
    BY <1>1, <2>1 DEF Dispatching, Sending
<1>7. CASE OtherStep(o)
  BY <1>1, <1>7, OtherBooks
<1>8. CASE \E r \in Request : Create(o, r)
  <2>1. PICK r \in Request : Create(o, r)
    BY <1>8
  <2>2. op'[o].req = r /\ cycle'[o] = 1 /\ pc'[o] \notin Dispatching /\ r.count \in Nat
    BY <2>1, CreateBooks, RequestType, ConstantsAssumption DEF Dispatching, Sending, AnyRequest
  <2>. QED
    BY <2>2 DEF OnTime
<1>9. CASE CountCycle(o)
  <2>1. op'[o].req = op[o].req /\ cycle'[o] = cycle[o]
    BY <1>9, CountBooks DEF Books
  <2>2. pc[o] = "count"
    BY <1>9 DEF CountCycle
  <2>. QED
    BY <1>1, <2>1, <2>2 DEF Dispatching
<1>10. CASE ScheduleTestShot(o)
  <2>1. op'[o].req = op[o].req /\ cycle'[o] = cycle[o]
    BY <1>10, CountBooks DEF Books
  <2>2. cycle[o] = 1 /\ op[o].req.count = 1
    BY <1>10, ConstantsAssumption DEF ScheduleTestShot, Control, Early
  <2>. QED
    BY <2>1, <2>2 DEF OnTime
<1>11. CASE Answering(o)
  <2>1. /\ op'[o].req = op[o].req /\ cycle' = cycle
        /\ pc'[o] = pc[o] \/ FinishScheduling(o)
    BY <1>11, SettleSteps DEF Answering
  <2>. QED
    BY <1>1, <1>6, <2>1
<1>. QED
  BY <1>2, <1>3, <1>4, <1>5, <1>6, <1>7, <1>8, <1>9, <1>10, <1>11, StepSorts

(* As long as nothing stops an operation, each cycle up to the worker's    *)
(* has been scheduled, and when the worker is through all requested are.   *)
Undisturbed(o) ==
  ~op[o].stop =>
    /\ ~op[o].cancelled
    /\ op[o].scheduled = IF pc[o] \in Sending THEN cycle[o] ELSE cycle[o] - 1
    /\ op[o].done \/ pc[o] = "finish" => op[o].scheduled = op[o].req.count
    /\ \A c \in 1..op[o].scheduled : c \in CyclesScheduled(o)

(* What has been scheduled stays so.                                       *)
LEMMA ScheduledGrows ==
  ASSUME OperationInv, NEW o \in Operation, StepOf(o), op'[o].req = op[o].req
  PROVE  \A c : c \in CyclesScheduled(o) => c \in CyclesScheduled(o)'
<1>. USE DEF OperationInv, ControlInv
<1>1. \A c : GoalsOf(o, c)' = GoalsOf(o, c)
  BY DEF GoalsOf
<1>2. \A x \in Goal : goal[x] # "none" => goal'[x] # "none"
  <2>1. \/ goal' = goal \/ MovesOn(o) \/ Answers(o)
        \/ Counts(o, cycle[o]) \/ Counts(o, 1)
    BY GoalEffect
  <2>2. CASE MovesOn(o)
    BY <2>2 DEF MovesOn, IsUnanswered, TypeOK
  <2>3. CASE Answers(o)
    BY <2>3 DEF Answers, TypeOK
  <2>4. CASE Counts(o, cycle[o]) \/ Counts(o, 1)
    BY <2>4 DEF Counts
  <2>. QED
    BY <2>1, <2>2, <2>3, <2>4
<1>3. \A c \in 1..MaxCycle : \A x \in GoalsOf(o, c) : x \in Goal
  BY GoalsOfType, StateTypes
<1>. QED
  BY <1>1, <1>2, <1>3 DEF CyclesScheduled

LEMMA UndisturbedStep ==
  ASSUME OperationInv, NEW o \in Operation, StepOf(o), OnTime(o), Tally(o), Totals(o), Undisturbed(o)
  PROVE  Undisturbed(o)'
<1>. USE DEF OperationInv, ControlInv
<1>0. /\ op[o] \in OperationState /\ op[o].req.count \in Int /\ op[o].scheduled \in Int
      /\ cycle[o] \in Int
  BY StateTypes DEF OperationState, AnyRequest
<1>1. CASE op'[o].stop
  BY <1>1 DEF Undisturbed
(* The worker stays at its cycle, or takes the next one after sending.     *)
<1>2. ASSUME ~op'[o].stop, ~op[o].stop, op'[o].req = op[o].req,
             op'[o].cancelled = op[o].cancelled, op'[o].scheduled = op[o].scheduled,
             \/ cycle'[o] = cycle[o] /\ (pc'[o] \in Sending <=> pc[o] \in Sending)
             \/ cycle'[o] = cycle[o] + 1 /\ pc[o] \in Sending /\ pc'[o] \notin Sending,
             (op'[o].done \/ pc'[o] = "finish") =>
               (op[o].done \/ pc[o] = "finish") \/ op[o].scheduled = op[o].req.count
      PROVE  Undisturbed(o)'
  <2>1. op'[o].scheduled = IF pc'[o] \in Sending THEN cycle'[o] ELSE cycle'[o] - 1
    <3>1. op[o].scheduled = IF pc[o] \in Sending THEN cycle[o] ELSE cycle[o] - 1
      BY <1>2 DEF Undisturbed
    <3>2. CASE cycle'[o] = cycle[o] /\ (pc'[o] \in Sending <=> pc[o] \in Sending)
      BY <1>2, <3>1, <3>2
    <3>3. CASE cycle'[o] = cycle[o] + 1 /\ pc[o] \in Sending /\ pc'[o] \notin Sending
      BY <1>0, <1>2, <3>1, <3>3
    <3>. QED
      BY <1>2, <3>2, <3>3
  <2>2. \A c \in 1..op'[o].scheduled : c \in CyclesScheduled(o)'
    BY <1>2, ScheduledGrows DEF Undisturbed
  <2>. QED
    BY <1>2, <2>1, <2>2 DEF Undisturbed
<1>3. CASE LoopEnds(o)
  <2>1. op' = op /\ cycle' = cycle /\ pc[o] = "loop" /\ pc'[o] = "finish"
    BY <1>3 DEF LoopEnds, GoTo, TypeOK
  <2>2. ASSUME ~op[o].stop PROVE op[o].scheduled = op[o].req.count
    <3>1. op[o].req.count # 0 /\ cycle[o] > op[o].req.count
      BY <1>3, <2>2 DEF LoopEnds, Exhausted
    <3>2. cycle[o] <= op[o].req.count + 1
      BY <2>1, <3>1 DEF OnTime, Dispatching, Sending
    <3>3. op[o].scheduled = cycle[o] - 1
      BY <2>1, <2>2 DEF Undisturbed, Sending
    <3>. QED
      BY <1>0, <3>1, <3>2, <3>3
  <2>3. ASSUME ~op'[o].stop PROVE Undisturbed(o)'
    <3>1. pc[o] \notin Sending /\ pc'[o] \notin Sending
      BY <2>1 DEF Sending
    <3>. QED
      BY <1>2, <2>1, <2>2, <2>3, <3>1
  <2>. QED
    BY <1>1, <2>3
<1>4. CASE MoveStep(o) /\ ~LoopEnds(o)
  <2>1. op' = op
    BY <1>4, MoveBooks
  <2>2. /\ \/ cycle'[o] = cycle[o] /\ (pc'[o] \in Sending <=> pc[o] \in Sending)
           \/ cycle'[o] = cycle[o] + 1 /\ pc[o] \in Sending /\ pc'[o] \notin Sending
        /\ pc'[o] # "finish"
    BY <1>4 DEF MoveStep, PrepareGranted, LastRound, GroupsReady, StartScheduling,
       TimeToDispatch, CapacityFound, DispatchStopped, DispatchGoes, AllSent, GoTo, NextCycle,
       Sending, TypeOK
  <2>. QED
    BY <1>1, <1>2, <2>1, <2>2
<1>5. CASE FailStep(o)
  BY <1>1, <1>5, FailBooks
<1>6. CASE PlainWrite(o)
  <2>1. CASE MarkPreparing(o)
    <3>1. cycle' = cycle /\ pc[o] = "handler" /\ pc'[o] = "prepare"
      BY <2>1 DEF MarkPreparing, TypeOK
    <3>2. /\ op'[o].req = op[o].req /\ op'[o].scheduled = op[o].scheduled
          /\ op'[o].done = op[o].done
          /\ op'[o].stop \/ (op'[o].stop = op[o].stop /\ op'[o].cancelled = op[o].cancelled)
      BY <1>6, PlainBooks DEF Books
    <3>3. pc[o] \notin Sending /\ pc'[o] \notin Sending /\ pc'[o] # "finish"
      BY <3>1 DEF Sending
    <3>. QED
      BY <1>1, <1>2, <3>1, <3>2, <3>3
  <2>2. CASE ~MarkPreparing(o)
    BY <1>1, <1>6, <2>2, PlainBooks
  <2>. QED
    BY <2>1, <2>2
<1>7. CASE FinishScheduling(o)
  <2>1. /\ pc[o] = "finish" /\ pc'[o] = "ended" /\ cycle' = cycle
        /\ op'[o].req = op[o].req /\ op'[o].scheduled = op[o].scheduled
        /\ op'[o].stop = op[o].stop /\ op'[o].cancelled = op[o].cancelled
    BY <1>7, FinishBooks DEF Books
  <2>2. pc[o] \notin Sending /\ pc'[o] \notin Sending
    BY <2>1 DEF Sending
  <2>. QED
    BY <1>1, <1>2, <2>1, <2>2
<1>8. CASE OtherStep(o)
  BY <1>1, <1>2, <1>8, OtherBooks
<1>9. CASE \E r \in Request : Create(o, r)
  <2>1. /\ op'[o].scheduled = 0 /\ cycle'[o] = 1 /\ pc'[o] \notin Sending
        /\ ~op'[o].cancelled /\ ~op'[o].done /\ pc'[o] # "finish"
    BY <1>9, CreateBooks DEF Sending
  <2>. QED
    BY <2>1 DEF Undisturbed
<1>10. CASE CountCycle(o) \/ ScheduleTestShot(o)
  <2>. SUFFICES ASSUME ~op'[o].stop PROVE Undisturbed(o)'
    BY <1>1
  <2>1. /\ cycle[o] \in 1..MaxCycle /\ cycle'[o] = cycle[o] /\ pc'[o] \in Sending
        /\ pc[o] \notin Sending /\ Counts(o, cycle[o])
        /\ \A x \in GoalsOf(o, cycle[o]) : goal[x] = "none"
        /\ Books(op'[o]) = Books(op[o]) /\ op'[o].scheduled = op[o].scheduled + 1
        /\ op'[o].stop = op[o].stop /\ op'[o].cancelled = op[o].cancelled
        /\ IF CountCycle(o) THEN op'[o].done = op[o].done /\ ~op[o].done
           ELSE op[o].req.kind = "test_shot"
    BY <1>10, CountBooks
  <2>2. op[o].scheduled = cycle[o] - 1 /\ ~op[o].cancelled /\ ~op[o].stop
    BY <2>1 DEF Undisturbed
  <2>3. op'[o].scheduled = cycle'[o] /\ op'[o].req = op[o].req
    BY <1>0, <2>1, <2>2 DEF Books
  <2>4. CyclesScheduled(o)' = CyclesScheduled(o) \cup {cycle[o]}
    BY <2>1, BooksCount
  <2>5. \A c \in 1..op'[o].scheduled : c \in CyclesScheduled(o)'
    <3>1. \A c \in 1..op[o].scheduled : c \in CyclesScheduled(o)
      BY <2>2 DEF Undisturbed
    <3>2. \A c \in 1..cycle[o] : c \in 1..op[o].scheduled \/ c = cycle[o]
      BY <1>0, <2>2
    <3>. QED
      BY <2>1, <2>3, <2>4, <3>1, <3>2
  <2>6. op'[o].done \/ pc'[o] = "finish" => op'[o].scheduled = op'[o].req.count
    <3>1. pc'[o] # "finish"
      BY <2>1 DEF Sending
    <3>2. CASE CountCycle(o)
      BY <2>1, <3>1, <3>2
    <3>3. CASE ~CountCycle(o)
      <4>1. cycle[o] = 1
        BY <1>10, <3>3 DEF ScheduleTestShot, Control, Early
      <4>2. op[o].req.count = 1
        BY <2>1, <3>3, ConstantsAssumption DEF Control
      <4>. QED
        BY <2>1, <2>3, <4>1, <4>2
    <3>. QED
      BY <3>2, <3>3
  <2>. QED
    BY <2>1, <2>2, <2>3, <2>5, <2>6 DEF Undisturbed
<1>11. CASE Answering(o)
  <2>1. PICK x \in Goal, success \in BOOLEAN :
          /\ Settle(o, Counted(op[o], x[2], success))
          /\ UNCHANGED <<pc, cycle>>
    BY <1>11, AnswerBooks
  <2>. DEFINE r == Counted(op[o], x[2], success)
  <2>2. /\ r \in OperationState /\ r.req = op[o].req /\ r.done = op[o].done
        /\ r.scheduled = op[o].scheduled
        /\ r.stop = (op[o].stop \/ ~success) /\ r.cancelled = op[o].cancelled
    BY <1>0, GoalParts, CountedType, CountedTallies
  <2>3. Settle(o, r)
    BY <2>1
  <2>. HIDE DEF r
  <2>4. /\ op'[o].req = r.req /\ op'[o].scheduled = r.scheduled
        /\ op'[o].stop = r.stop /\ op'[o].cancelled = r.cancelled /\ op'[o].done = r.done
    BY <2>2, <2>3, SettleBooks DEF Books
  <2>. QED
    BY <1>1, <1>2, <2>1, <2>2, <2>4
<1>. QED
  BY <1>3, <1>4, <1>5, <1>6, <1>7, <1>8, <1>9, <1>10, <1>11, StepSorts

(* An operation only ends as complete when nothing stopped it and no cycle *)
(* failed.                                                                 *)
Verdict(o) == op[o].recorded /\ op[o].status = "complete" => ~op[o].stop /\ op[o].failed = 0

LEMMA VerdictSettles ==
  ASSUME TypeOK, NEW o \in Operation, NEW r \in OperationState, Settle(o, r), ~r.recorded
  PROVE  Verdict(o)'
<1>. SUFFICES ASSUME op'[o].recorded, op'[o].status = "complete"
              PROVE  ~op'[o].stop /\ op'[o].failed = 0
  BY DEF Verdict
<1>1. /\ op'[o].failed = r.failed /\ op'[o].stop = r.stop
      /\ Finished(r).status = "complete"
  BY SettleBooks DEF Books
<1>2. Finished(r).status = IF r.stop THEN IF r.cancelled THEN "cancelled" ELSE "failed"
                           ELSE IF r.failed # 0 THEN "failed" ELSE "complete"
  BY DEF Finished, OperationState
<1>3. ~r.stop
  BY <1>1, <1>2
<1>4. r.failed = 0
  BY <1>1, <1>2, <1>3
<1>. QED
  BY <1>1, <1>3, <1>4

LEMMA VerdictStep ==
  ASSUME OperationInv, NEW o \in Operation, StepOf(o), Verdict(o)
  PROVE  Verdict(o)'
<1>. USE DEF OperationInv, ControlInv
<1>1. CASE op[o].recorded
  <2>1. op'[o] = op[o]
    BY <1>1, RecordedStep
  <2>. QED
    BY <2>1 DEF Verdict
<1>2. CASE ~op[o].recorded /\ FailStep(o)
  BY <1>2, FailBooks DEF Verdict
<1>3. CASE ~op[o].recorded /\ FinishScheduling(o)
  BY <1>3, FinishBooks, VerdictSettles
<1>4. CASE ~op[o].recorded /\ Answering(o)
  <2>1. PICK x \in Goal, success \in BOOLEAN : Settle(o, Counted(op[o], x[2], success))
    BY <1>4, AnswerBooks
  <2>. DEFINE r == Counted(op[o], x[2], success)
  <2>2. r \in OperationState /\ r.recorded = op[o].recorded
    BY StateTypes, GoalParts, CountedType
  <2>3. Settle(o, r)
    BY <2>1
  <2>. HIDE DEF r
  <2>. QED
    BY <1>4, <2>2, <2>3, VerdictSettles
<1>5. CASE ~op[o].recorded /\ (MoveStep(o) \/ OtherStep(o))
  <2>1. op' = op
    BY <1>5, MoveBooks, OtherBooks
  <2>. QED
    BY <2>1 DEF Verdict
<1>6. CASE ~op[o].recorded /\ WriteStep(o)
  BY <1>6, WriteSteps DEF WriteStep, Verdict
<1>. QED
  BY <1>1, <1>2, <1>3, <1>4, <1>5, <1>6 DEF StepOf, SettleStep, Answering

CyclesInv ==
  /\ OperationInv
  /\ \A o \in Operation : Tally(o) /\ Totals(o) /\ OnTime(o) /\ Undisturbed(o) /\ Verdict(o)

LEMMA CyclesInit == Init => CyclesInv
<1>. SUFFICES ASSUME Init PROVE CyclesInv
  OBVIOUS
<1>1. OperationInv
  BY OperationInit
<1>. DEFINE first == CHOOSE r \in Request : TRUE
<1>2. first \in Request
  BY ConstantsAssumption
<1>3. op = [o \in Operation |-> NewOperation(first)]
  BY DEF Init
<1>. HIDE DEF first
<1>4. ASSUME NEW o \in Operation
      PROVE  Tally(o) /\ Totals(o) /\ OnTime(o) /\ Undisturbed(o) /\ Verdict(o)
  <2>1. /\ op[o] = NewOperation(first) /\ op[o] \in OperationState
        /\ pc[o] = "absent" /\ cycle[o] = 1 /\ \A x \in Goal : goal[x] = "none"
    BY <1>2, <1>3, NewOperationType DEF Init
  <2>2. Fresh(o)
    BY <2>1, NewOperationBooks DEF Fresh
  <2>3. /\ op[o].req = first /\ ~op[o].cancelled /\ ~op[o].done /\ ~op[o].recorded
    BY <2>1 DEF NewOperation
  <2>4. OnTime(o)
    BY <1>2, <2>1, <2>3, RequestType, ConstantsAssumption
    DEF OnTime, Dispatching, Sending, AnyRequest
  <2>5. Undisturbed(o)
    BY <2>1, <2>2, <2>3 DEF Undisturbed, Fresh, Sending
  <2>6. Verdict(o)
    BY <2>3 DEF Verdict
  <2>. QED
    BY <2>2, <2>4, <2>5, <2>6, FreshBooks
<1>. QED
  BY <1>1, <1>4 DEF CyclesInv

LEMMA CyclesNext == CyclesInv /\ [Next]_vars => CyclesInv'
<1>1. ASSUME CyclesInv, Next PROVE CyclesInv'
  <2>1. OperationInv /\ OperationInv'
    BY <1>1, OperationNext DEF CyclesInv
  <2>2. PICK o \in Operation : StepOf(o)
    BY <1>1, <2>1, StepCases DEF OperationInv, ControlInv
  <2>3. Tally(o)' /\ Totals(o)' /\ OnTime(o)' /\ Undisturbed(o)' /\ Verdict(o)'
    BY <1>1, <2>1, <2>2, TallyStep, OnTimeStep, UndisturbedStep, VerdictStep DEF CyclesInv
  <2>4. ASSUME NEW p \in Operation \ {o}
        PROVE  Tally(p)' /\ Totals(p)' /\ OnTime(p)' /\ Undisturbed(p)' /\ Verdict(p)'
    <3>1. op'[p] = op[p] /\ pc'[p] = pc[p] /\ cycle'[p] = cycle[p]
      BY <2>1, <2>2, ControlStep DEF OperationInv, ControlInv, Untouched
    <3>2. \A c \in 1..MaxCycle : \A x \in GoalsOf(p, c) : x \in Goal /\ x[1] = p
      BY <2>1, GoalsOfType, StateTypes DEF OperationInv, ControlInv
    <3>3. \A x \in Goal : x[1] = p => goal'[x] = goal[x]
      BY <2>1, <2>2, GoalFrame DEF OperationInv, ControlInv
    <3>4. \A c \in 1..MaxCycle :
            /\ GoalsOf(p, c)' = GoalsOf(p, c)
            /\ \A x \in GoalsOf(p, c) : goal'[x] = goal[x]
      BY <3>1, <3>2, <3>3 DEF GoalsOf
    <3>5. \A c \in 1..MaxCycle :
            /\ Answered(p, c)' = Answered(p, c) /\ Lost(p, c)' = Lost(p, c)
            /\ Whole(p, c)' <=> Whole(p, c)
      BY <3>4 DEF Answered, Lost, Whole
    <3>6. /\ CyclesScheduled(p)' = CyclesScheduled(p) /\ CyclesSaved(p)' = CyclesSaved(p)
          /\ CyclesFailed(p)' = CyclesFailed(p)
      BY <3>4, <3>5 DEF CyclesScheduled, CyclesSaved, CyclesFailed
    <3>7. /\ Tally(p) /\ Totals(p) /\ OnTime(p) /\ Undisturbed(p) /\ Verdict(p)
      BY <1>1 DEF CyclesInv
    <3>8. Tally(p)'
      BY <3>1, <3>4, <3>5, <3>6, <3>7 DEF Tally
    <3>9. Totals(p)'
      BY <3>1, <3>6, <3>7 DEF Totals
    <3>10. OnTime(p)' /\ Undisturbed(p)' /\ Verdict(p)'
      BY <3>1, <3>6, <3>7 DEF OnTime, Undisturbed, Verdict
    <3>. QED
      BY <3>8, <3>9, <3>10
  <2>. QED
    BY <2>1, <2>3, <2>4 DEF CyclesInv
<1>2. ASSUME CyclesInv, UNCHANGED vars PROVE CyclesInv'
  <2>1. op' = op /\ goal' = goal
    BY <1>2 DEF vars
  <2>2. \A o \in Operation : Tally(o)' /\ Totals(o)'
    BY <1>2, <2>1, BooksStay DEF CyclesInv, OperationInv, ControlInv
  <2>3. \A o \in Operation : OnTime(o)' /\ Undisturbed(o)' /\ Verdict(o)'
    BY <1>2 DEF CyclesInv, vars, OnTime, Undisturbed, Verdict, CyclesScheduled, GoalsOf
  <2>4. OperationInv'
    BY <1>2, OperationNext DEF CyclesInv
  <2>. QED
    BY <2>2, <2>3, <2>4 DEF CyclesInv
<1>. QED
  BY <1>1, <1>2

(* What is known of the cycles of an operation that has ended.             *)
LEMMA EndedCycles ==
  ASSUME OperationInv, NEW o \in Operation, op[o].recorded, NEW c \in CyclesScheduled(o)
  PROVE  c \in CyclesSaved(o) \/ c \in CyclesFailed(o)
<1>1. c \in 1..MaxCycle /\ \A x \in GoalsOf(o, c) : goal[x] # "none"
  BY DEF CyclesScheduled
<1>2. \A x \in GoalsOf(o, c) : x \in Goal /\ x[1] = o
  BY <1>1, GoalsOfType, StateTypes DEF OperationInv, ControlInv
<1>3. \A x \in GoalsOf(o, c) : goal[x] \in Phase /\ x \notin Unanswered(o)
  BY <1>2, RecordedIsAnswered DEF OperationInv, ControlInv, TypeOK
<1>4. \A x \in GoalsOf(o, c) : goal[x] \in {"kept", "lost"}
  BY <1>1, <1>2, <1>3 DEF Phase, Unanswered
<1>5. Whole(o, c)
  BY <1>4 DEF Whole, Answered
<1>. QED
  BY <1>1, <1>5 DEF CyclesSaved, CyclesFailed

LEMMA SavedIsKept ==
  ASSUME NEW o, NEW c
  PROVE  Whole(o, c) /\ Lost(o, c) = {} <=> \A x \in GoalsOf(o, c) : goal[x] = "kept"
BY DEF Whole, Answered, Lost

(* A cycle counts as completed exactly when all its captures were saved,   *)
(* and when an operation has ended every cycle it scheduled is counted,    *)
(* once, as completed or as failed.                                        *)
THEOREM CyclesAreAccounted == Spec => []CyclesAccounted
<1>1. CyclesInv => CyclesAccounted
  <2>. SUFFICES ASSUME CyclesInv, NEW o \in Operation
                PROVE  /\ op[o].completed = Cardinality({c \in 1..MaxCycle :
                            \A x \in GoalsOf(o, c) : goal[x] = "kept"})
                       /\ op[o].recorded =>
                            op[o].completed + op[o].failed = op[o].scheduled
    BY DEF CyclesAccounted
  <2>1. /\ op[o].scheduled = Cardinality(CyclesScheduled(o))
        /\ op[o].completed = Cardinality(CyclesSaved(o))
        /\ op[o].failed = Cardinality(CyclesFailed(o))
    BY DEF CyclesInv, Totals
  <2>2. CyclesSaved(o) = {c \in 1..MaxCycle : \A x \in GoalsOf(o, c) : goal[x] = "kept"}
    BY SavedIsKept DEF CyclesSaved
  <2>3. ASSUME op[o].recorded PROVE op[o].completed + op[o].failed = op[o].scheduled
    <3>1. CyclesScheduled(o) \subseteq CyclesSaved(o) \cup CyclesFailed(o)
      BY <2>3, EndedCycles DEF CyclesInv
    <3>2. CyclesSaved(o) \cup CyclesFailed(o) \subseteq CyclesScheduled(o)
      BY DEF CyclesSaved, CyclesFailed, CyclesScheduled, Whole, Answered
    <3>3. CyclesSaved(o) \cap CyclesFailed(o) = {}
      BY DEF CyclesSaved, CyclesFailed
    <3>4. /\ CyclesSaved(o) \in SUBSET (1..MaxCycle)
          /\ CyclesFailed(o) \in SUBSET (1..MaxCycle)
      BY DEF CyclesSaved, CyclesFailed
    <3>5. /\ IsFiniteSet(CyclesSaved(o)) /\ Cardinality(CyclesSaved(o)) \in Nat
          /\ IsFiniteSet(CyclesFailed(o)) /\ Cardinality(CyclesFailed(o)) \in Nat
      BY <3>4, CycleSets
    <3>6. Cardinality(CyclesSaved(o) \cup CyclesFailed(o)) =
            Cardinality(CyclesSaved(o)) + Cardinality(CyclesFailed(o)) - Cardinality({})
      BY <3>3, <3>5, FS_Union
    <3>7. Cardinality({}) = 0 /\ CyclesScheduled(o) = CyclesSaved(o) \cup CyclesFailed(o)
      BY <3>1, <3>2, FS_EmptySet
    <3>. QED
      BY <2>1, <3>5, <3>6, <3>7
  <2>. QED
    BY <2>1, <2>2, <2>3
<1>. QED
  BY <1>1, CyclesInit, CyclesNext, PTL DEF Spec

(* An operation reported complete was not cancelled, and every cycle of    *)
(* its request is saved, for all groups.                                   *)
THEOREM CompleteIsSaved == Spec => []CompleteMeansSaved
<1>1. CyclesInv => CompleteMeansSaved
  <2>. SUFFICES ASSUME CyclesInv, NEW o \in Operation,
                       op[o].recorded, op[o].status = "complete"
                PROVE  /\ ~op[o].cancelled
                       /\ op[o].scheduled = op[o].req.count
                       /\ \A c \in 1..op[o].scheduled :
                            \A x \in GoalsOf(o, c) : goal[x] = "kept"
    BY DEF CompleteMeansSaved
  <2>1. ~op[o].stop /\ op[o].failed = 0
    BY DEF CyclesInv, Verdict
  <2>2. op[o].done
    BY DEF CyclesInv, OperationInv, ControlInv, Control
  <2>3. /\ ~op[o].cancelled /\ op[o].scheduled = op[o].req.count
        /\ \A c \in 1..op[o].scheduled : c \in CyclesScheduled(o)
    BY <2>1, <2>2 DEF CyclesInv, Undisturbed
  <2>4. CyclesFailed(o) = {}
    <3>1. CyclesFailed(o) \in SUBSET (1..MaxCycle)
      BY DEF CyclesFailed
    <3>2. IsFiniteSet(CyclesFailed(o)) /\ Cardinality(CyclesFailed(o)) = 0
      BY <2>1, <3>1, CycleSets DEF CyclesInv, Totals
    <3>. QED
      BY <3>2, FS_EmptySet
  <2>5. ASSUME NEW c \in 1..op[o].scheduled PROVE \A x \in GoalsOf(o, c) : goal[x] = "kept"
    <3>1. c \in CyclesSaved(o)
      BY <2>3, <2>4, EndedCycles DEF CyclesInv
    <3>. QED
      BY <3>1, SavedIsKept DEF CyclesSaved
  <2>. QED
    BY <2>3, <2>5
<1>. QED
  BY <1>1, CyclesInit, CyclesNext, PTL DEF Spec
=============================================================================
