-------------------------- MODULE CaptureOperations -------------------------
(***************************************************************************)
(* Capture operations of the recorder (vixel_recorder,                     *)
(* CaptureRecorder.cpp): batches, interval sequences and test shots that   *)
(* clients start, watch and cancel.                                        *)
(*                                                                         *)
(* An operation is driven by three kinds of threads at once: a worker that *)
(* prepares it and schedules its cycles, the executor's callbacks with the *)
(* results of its captures, and the service calls that cancel it.  They    *)
(* meet in the operation's record, under operations_mutex_.  The worker    *)
(* gives the mutex up between its steps, so each critical section is an    *)
(* action and pc says where a worker is.                                   *)
(*                                                                         *)
(* A capture is a goal of the recorder's own RecordCapture action server;  *)
(* here it is accepted or refused, saved or failed.                        *)
(***************************************************************************)
EXTENDS Integers, FiniteSets, Sequences

CONSTANTS
  Operation,     \* operation ids, never reused
  Group,         \* synchronization groups (the target, for a test shot)
  Request,       \* the requests clients send
  MaxCycle,      \* bound of the model: no operation gets past this cycle
  MaxActive,     \* max_active_operations
  MaxInflight,   \* max_inflight_captures
  HistoryLimit   \* operation_history_limit

Kind == {"batch", "sequence", "test_shot"}

(* A sequence of zero cycles runs until it is cancelled.                   *)
AnyRequest == [kind : Kind, groups : (SUBSET Group) \ {{}}, count : 0..MaxCycle]

ASSUME ConstantsAssumption ==
  /\ IsFiniteSet(Operation) /\ IsFiniteSet(Group)
  /\ Request \subseteq AnyRequest
  /\ Request # {}
  /\ \A r \in Request :
       /\ r.kind # "sequence" => r.count = 1
       /\ r.kind = "test_shot" => Cardinality(r.groups) = 1
  /\ MaxCycle \in Nat \ {0}
  /\ MaxActive \in Nat \ {0}
  /\ MaxInflight \in Nat \ {0}
  /\ HistoryLimit \in Nat \ {0}

Goal == Operation \X (1..MaxCycle) \X Group

VARIABLES
  op,       \* the OperationState of each operation
  pc,       \* where the worker of each operation is
  cycle,    \* the cycle the worker is at
  goal,     \* how far each capture is
  slots,    \* active_capture_ids_: the captures counted as active
  present,  \* the keys of operations_
  history,  \* terminal_operation_ids_
  session   \* the capture session of each operation, at the manager

vars == <<op, pc, cycle, goal, slots, present, history, session>>
workerVars == <<pc, cycle>>
recordVars == <<present, history, session>>

Status == {"accepted", "preparing", "running", "draining",
           "complete", "failed", "cancelled"}
Terminal == {"complete", "failed", "cancelled"}

(* Goals: counted in pending_saves; sent; holding a slot; answered by the  *)
(* action server; the answer seen by the operation.                        *)
Phase == {"none", "counted", "sent", "running", "saved", "broken", "kept", "lost"}

OperationState ==
  [req : AnyRequest, status : Status, stop : BOOLEAN, cancelled : BOOLEAN,
   done : BOOLEAN, pending : Nat, scheduled : 0..MaxCycle, completed : Nat,
   failed : Nat, results : [1..MaxCycle -> Nat], failures : [1..MaxCycle -> Nat],
   recorded : BOOLEAN]

NewOperation(r) ==
  [req |-> r, status |-> "accepted", stop |-> FALSE, cancelled |-> FALSE,
   done |-> FALSE, pending |-> 0, scheduled |-> 0, completed |-> 0, failed |-> 0,
   results |-> [c \in 1..MaxCycle |-> 0], failures |-> [c \in 1..MaxCycle |-> 0],
   recorded |-> FALSE]

Created(o) == pc[o] # "absent"
GoalsOf(o, c) == {<<o, c, g>> : g \in op[o].req.groups}

----------------------------------------------------------------------------
(* The end of an operation                                                 *)

(* The comment in create_operation: a status that looks terminal does not  *)
(* mean the operation's worker is through.                                 *)
ActiveByStatus == {o \in present : op[o].status \notin Terminal}

Active == {o \in present : ~op[o].recorded}

(* The history forgets the oldest entry of the map instead.                *)
EvictedFromMap(h) ==
  IF Len(h) > HistoryLimit THEN {CHOOSE o \in present : TRUE} ELSE {}

Evicted(h) == IF Len(h) > HistoryLimit THEN {Head(h)} ELSE {}

(* The session is given back once; the call is not sent when the manager   *)
(* is not there, and then the manager's time-to-live ends the session.     *)
SessionAfter(s) == IF s = "held" THEN {"released", "orphan"} ELSE {s}

(* record_terminal_operation_locked, of an operation in state r whose      *)
(* session is in state s.                                                  *)
RecordTerminal(o, r, s) ==
  IF r.recorded
  THEN /\ op' = [op EXCEPT ![o] = r]
       /\ UNCHANGED recordVars
  ELSE LET h == Append(history, o) IN
       /\ op' = [op EXCEPT ![o] = [r EXCEPT !.recorded = TRUE]]
       /\ history' = IF Len(h) > HistoryLimit THEN Tail(h) ELSE h
       /\ present' = present \ Evicted(h)
       /\ \E after \in SessionAfter(s) : session' = [session EXCEPT ![o] = after]

(* No cycle failed, so all is well.                                        *)
FinishedByFailedCycles(r) ==
  [r EXCEPT !.status = IF r.failed # 0 THEN "failed" ELSE "complete"]

(* finish_operation_locked                                                 *)
Finished(r) ==
  [r EXCEPT !.status =
    IF r.stop THEN IF r.cancelled THEN "cancelled" ELSE "failed"
    ELSE IF r.failed # 0 THEN "failed" ELSE "complete"]

(* An operation is over when its worker is, whatever is still being saved. *)
DrainedWhenScheduled(r) == r.done

Drained(r) == r.done /\ r.pending = 0

Settle(o, r) ==
  IF Drained(r) THEN RecordTerminal(o, Finished(r), session[o])
  ELSE /\ op' = [op EXCEPT ![o] = r]
       /\ UNCHANGED recordVars

(* fail_sequence_preparation                                               *)
FailPreparation(o, s) ==
  /\ RecordTerminal(o,
       [op[o] EXCEPT !.stop = TRUE, !.done = TRUE,
                     !.status = IF op[o].cancelled THEN "cancelled" ELSE "failed"], s)
  /\ pc' = [pc EXCEPT ![o] = "ended"]
  /\ UNCHANGED <<cycle, goal, slots>>

----------------------------------------------------------------------------
(* Service calls                                                           *)

FirstStep(kind) ==
  CASE kind = "sequence" -> "handler" [] kind = "batch" -> "start" [] kind = "test_shot" -> "shot"

(* create_operation, called by the three services; the worker starts.      *)
Create(o, r) ==
  /\ ~Created(o)
  /\ Cardinality(Active) < MaxActive
  /\ op' = [op EXCEPT ![o] = NewOperation(r)]
  /\ present' = present \cup {o}
  /\ pc' = [pc EXCEPT ![o] = FirstStep(r.kind)]
  /\ UNCHANGED <<cycle, goal, slots, history, session>>

(* start_capture_sequence writes its status in a second critical section,  *)
(* when the operation can already be seen and cancelled.                   *)
MarkPreparing(o) ==
  /\ pc[o] = "handler"
  /\ op' = [op EXCEPT ![o].status = "preparing"]
  /\ pc' = [pc EXCEPT ![o] = "prepare"]
  /\ UNCHANGED <<cycle, goal, slots, present, history, session>>

(* The test of cancel_capture_operation only refuses what has succeeded.   *)
AlreadyComplete(r) == r.done /\ r.pending = 0 /\ r.status = "complete"

AlreadyFinished(r) == r.done /\ r.pending = 0

Cancel(o) ==
  /\ o \in present
  /\ ~AlreadyFinished(op[o])
  /\ op' = [op EXCEPT ![o] = [@ EXCEPT
       !.stop = TRUE, !.cancelled = TRUE,
       !.status = IF op[o].pending = 0 THEN "cancelled" ELSE "draining"]]
  /\ UNCHANGED <<pc, cycle, goal, slots, present, history, session>>

----------------------------------------------------------------------------
(* The worker of a sequence: preparation                                   *)

PrepareGranted(o) ==
  /\ pc[o] = "prepare"
  /\ session' = [session EXCEPT ![o] = "held"]
  /\ pc' = [pc EXCEPT ![o] = "waiting"]
  /\ UNCHANGED <<op, cycle, goal, slots, present, history>>

(* Refused, no manager, or no answer in time: then the session may have    *)
(* been granted to nobody.                                                 *)
PrepareFails(o) ==
  /\ pc[o] = "prepare"
  /\ \E s \in {"none", "orphan"} : FailPreparation(o, s)

(* The last round of the wait: it looks for a stop before it looks at the  *)
(* groups.  The rounds before it change nothing.                           *)
LastRound(o) ==
  /\ pc[o] = "waiting"
  /\ ~op[o].stop
  /\ pc' = [pc EXCEPT ![o] = "polling"]
  /\ UNCHANGED <<op, cycle, goal, slots, present, history, session>>

(* The groups report the requested cadence and readiness.                  *)
GroupsReady(o) ==
  /\ pc[o] = "polling"
  /\ pc' = [pc EXCEPT ![o] = "start"]
  /\ UNCHANGED <<op, cycle, goal, slots, present, history, session>>

(* Stopped, session not renewed, cadence impossible, or deadline passed.   *)
GroupsNotReady(o) ==
  /\ pc[o] \in {"waiting", "polling"}
  /\ FailPreparation(o, session[o])

----------------------------------------------------------------------------
(* The worker of a batch or sequence: schedule_operation, dispatch_cycle   *)

GoTo(o, label) == pc' = [pc EXCEPT ![o] = label]

ActionServerMissing(o) ==
  /\ pc[o] = "start"
  /\ RecordTerminal(o, [op[o] EXCEPT !.stop = TRUE, !.done = TRUE, !.status = "failed"],
                    session[o])
  /\ GoTo(o, "ended")
  /\ UNCHANGED <<cycle, goal, slots>>

StartScheduling(o) ==
  /\ pc[o] = "start"
  /\ GoTo(o, "loop")
  /\ UNCHANGED <<op, cycle, goal, slots, present, history, session>>

Exhausted(o) == op[o].req.count # 0 /\ cycle[o] > op[o].req.count

(* While it waits for the time to dispatch, the worker renews the session. *)
RenewalFails(o) ==
  /\ pc[o] = "loop" /\ ~Exhausted(o)
  /\ session[o] # "none" /\ ~op[o].stop
  /\ op' = [op EXCEPT ![o].stop = TRUE]
  /\ UNCHANGED <<pc, cycle, goal, slots, present, history, session>>

LoopEnds(o) ==
  /\ pc[o] = "loop"
  /\ Exhausted(o) \/ op[o].stop
  /\ GoTo(o, "finish")
  /\ UNCHANGED <<op, cycle, goal, slots, present, history, session>>

TimeToDispatch(o) ==
  /\ pc[o] = "loop" /\ ~Exhausted(o)
  /\ cycle[o] <= MaxCycle
  /\ ~op[o].stop
  /\ GoTo(o, "capacity")
  /\ UNCHANGED <<op, cycle, goal, slots, present, history, session>>

CapacityLeft(o) ==
  Cardinality(slots) + Cardinality(op[o].req.groups) <= MaxInflight

CapacityReached(o) ==
  /\ pc[o] = "capacity"
  /\ ~CapacityLeft(o)
  /\ op' = [op EXCEPT ![o] = [@ EXCEPT !.stop = TRUE, !.status = "draining"]]
  /\ GoTo(o, "finish")
  /\ UNCHANGED <<cycle, goal, slots, present, history, session>>

CapacityFound(o) ==
  /\ pc[o] = "capacity"
  /\ CapacityLeft(o)
  /\ GoTo(o, "count")
  /\ UNCHANGED <<op, cycle, goal, slots, present, history, session>>

NextCycle(o) == cycle' = [cycle EXCEPT ![o] = @ + 1]

(* A capture id of this cycle is too long or unsafe.                       *)
UnsafeIdentifier(o) ==
  /\ pc[o] = "count"
  /\ op' = [op EXCEPT ![o] = [@ EXCEPT !.stop = TRUE, !.status = "failed"]]
  /\ GoTo(o, "loop")
  /\ NextCycle(o)
  /\ UNCHANGED <<goal, slots, present, history, session>>

(* One save is expected of a cycle, however many groups it has.            *)
CountsCycleOnce(o) ==
  /\ pc[o] = "count"
  /\ op' = [op EXCEPT ![o] = [@ EXCEPT
       !.status = "running", !.scheduled = op[o].scheduled + 1,
       !.pending = op[o].pending + 1]]
  /\ goal' = [x \in Goal |-> IF x \in GoalsOf(o, cycle[o]) THEN "counted" ELSE goal[x]]
  /\ GoTo(o, IF op[o].stop THEN "skip" ELSE "check")
  /\ UNCHANGED <<cycle, slots, present, history, session>>

(* The cycle's captures are counted, before any of them is sent.  A stop   *)
(* from before this critical section is sure to be seen after it.          *)
CountCycle(o) ==
  /\ pc[o] = "count"
  /\ op' = [op EXCEPT ![o] = [@ EXCEPT
       !.status = "running", !.scheduled = op[o].scheduled + 1,
       !.pending = op[o].pending + Cardinality(op[o].req.groups)]]
  /\ goal' = [x \in Goal |-> IF x \in GoalsOf(o, cycle[o]) THEN "counted" ELSE goal[x]]
  /\ GoTo(o, IF op[o].stop THEN "skip" ELSE "check")
  /\ UNCHANGED <<cycle, slots, present, history, session>>

(* stop_scheduling is read again, without the mutex: a value written since *)
(* may be seen or not.  The captures counted above are then never sent.    *)
DispatchStopped(o) ==
  /\ pc[o] = "skip" \/ (pc[o] = "check" /\ op[o].stop)
  /\ GoTo(o, "loop")
  /\ NextCycle(o)
  /\ UNCHANGED <<op, goal, slots, present, history, session>>

DispatchGoes(o) ==
  /\ pc[o] = "check"
  /\ GoTo(o, "send")
  /\ UNCHANGED <<op, cycle, goal, slots, present, history, session>>

SendGoal(o, x) ==
  /\ pc[o] = "send"
  /\ x \in GoalsOf(o, cycle[o]) /\ goal[x] = "counted"
  /\ goal' = [goal EXCEPT ![x] = "sent"]
  /\ UNCHANGED <<op, pc, cycle, slots, present, history, session>>

AllSent(o) ==
  /\ pc[o] = "send"
  /\ \A x \in GoalsOf(o, cycle[o]) : goal[x] # "counted"
  /\ GoTo(o, IF op[o].req.kind = "test_shot" THEN "ended" ELSE "loop")
  /\ NextCycle(o)
  /\ UNCHANGED <<op, goal, slots, present, history, session>>

(* Captures still being saved are left to finish the operation.            *)
FinishWithoutSettling(o) ==
  /\ pc[o] = "finish"
  /\ op' = [op EXCEPT ![o].done = TRUE]
  /\ GoTo(o, "ended")
  /\ UNCHANGED <<cycle, goal, slots, present, history, session>>

FinishScheduling(o) ==
  /\ pc[o] = "finish"
  /\ Settle(o, [op[o] EXCEPT !.done = TRUE,
                             !.status = IF op[o].stop THEN @ ELSE "draining"])
  /\ GoTo(o, "ended")
  /\ UNCHANGED <<cycle, goal, slots>>

----------------------------------------------------------------------------
(* The worker of a test shot: schedule_test_shot                           *)

TestShotFails(o) ==
  /\ pc[o] = "shot"
  /\ FailPreparation(o, session[o])

(* A cancellation that came first does not keep the shot from being sent.  *)
ScheduleTestShot(o) ==
  /\ pc[o] = "shot"
  /\ op' = [op EXCEPT ![o] = [@ EXCEPT
       !.status = "preparing", !.scheduled = 1, !.pending = 1, !.done = TRUE]]
  /\ goal' = [x \in Goal |-> IF x \in GoalsOf(o, 1) THEN "counted" ELSE goal[x]]
  /\ GoTo(o, "send")
  /\ UNCHANGED <<cycle, slots, present, history, session>>

----------------------------------------------------------------------------
(* The action server and the client's callbacks                            *)

(* handle_goal                                                             *)
AcceptGoal(x) ==
  /\ goal[x] = "sent"
  /\ Cardinality(slots) < MaxInflight
  /\ goal' = [goal EXCEPT ![x] = "running"]
  /\ slots' = slots \cup {x}
  /\ UNCHANGED <<op, pc, cycle, present, history, session>>

(* No slot, a camera busy with another one-shot, or a group that is gone.  *)
RefuseGoal(x) ==
  /\ goal[x] = "sent"
  /\ goal' = [goal EXCEPT ![x] = "broken"]
  /\ UNCHANGED <<op, pc, cycle, slots, present, history, session>>

(* execute answers the goal first, and leaves its slot when it returns.    *)
Execute(x) ==
  /\ goal[x] = "running"
  /\ \E answer \in {"saved", "broken"} : goal' = [goal EXCEPT ![x] = answer]
  /\ UNCHANGED <<op, pc, cycle, slots, present, history, session>>

FreeSlot(x) ==
  /\ x \in slots /\ goal[x] # "running"
  /\ slots' = slots \ {x}
  /\ UNCHANGED <<op, pc, cycle, goal, present, history, session>>

(* A cycle is as good as its last capture.                                 *)
CountedByLastResult(r, c, success) ==
  LET results == r.results[c] + 1
      whole   == results = Cardinality(r.req.groups)
  IN  [r EXCEPT
        !.pending = IF @ = 0 THEN 0 ELSE @ - 1,
        !.stop = @ \/ ~success,
        !.completed = IF whole /\ success THEN @ + 1 ELSE @,
        !.failed = IF whole /\ ~success THEN @ + 1 ELSE @,
        !.results[c] = IF whole THEN 0 ELSE results]

(* A failed capture is taken off the pending ones as such, and as answered.*)
CountedFailureTwice(r, c, success) ==
  [r EXCEPT !.pending = IF success THEN @ - 1 ELSE @ - 2, !.stop = @ \/ ~success]

(* One answer of cycle c is counted; the last one settles the cycle.       *)
Counted(r, c, success) ==
  LET results  == r.results[c] + 1
      failures == r.failures[c] + (IF success THEN 0 ELSE 1)
      whole    == results = Cardinality(r.req.groups)
  IN  [r EXCEPT
        !.pending = IF @ = 0 THEN 0 ELSE @ - 1,
        !.stop = @ \/ ~success,
        !.completed = IF whole /\ failures = 0 THEN @ + 1 ELSE @,
        !.failed = IF whole /\ failures # 0 THEN @ + 1 ELSE @,
        !.results[c] = IF whole THEN 0 ELSE results,
        !.failures[c] = IF whole THEN 0 ELSE failures]

CaptureFinished(x) ==
  LET o == x[1] IN
  /\ goal[x] \in {"saved", "broken"}
  /\ goal' = [goal EXCEPT ![x] = IF @ = "saved" THEN "kept" ELSE "lost"]
  /\ Settle(o, Counted(op[o], x[2], goal[x] = "saved"))
  /\ UNCHANGED <<pc, cycle, slots>>

(* async_send_goal throws: the capture has failed on the spot.             *)
SendThrows(o, x) ==
  /\ pc[o] = "send"
  /\ x \in GoalsOf(o, cycle[o]) /\ goal[x] = "counted"
  /\ goal' = [goal EXCEPT ![x] = "lost"]
  /\ Settle(o, Counted(op[o], x[2], FALSE))
  /\ UNCHANGED <<pc, cycle, slots>>

(* The manager's time-to-live, or its restart.                             *)
SessionExpires(o) ==
  /\ session[o] \in {"held", "orphan"}
  /\ session' = [session EXCEPT ![o] = "gone"]
  /\ UNCHANGED <<op, pc, cycle, goal, slots, present, history>>

----------------------------------------------------------------------------

Init ==
  /\ op = [o \in Operation |-> NewOperation(CHOOSE r \in Request : TRUE)]
  /\ pc = [o \in Operation |-> "absent"]
  /\ cycle = [o \in Operation |-> 1]
  /\ goal = [x \in Goal |-> "none"]
  /\ slots = {}
  /\ present = {}
  /\ history = <<>>
  /\ session = [o \in Operation |-> "none"]

Worker(o) ==
  \/ MarkPreparing(o) \/ PrepareGranted(o) \/ PrepareFails(o)
  \/ LastRound(o) \/ GroupsReady(o) \/ GroupsNotReady(o)
  \/ ActionServerMissing(o) \/ StartScheduling(o)
  \/ RenewalFails(o) \/ LoopEnds(o) \/ TimeToDispatch(o)
  \/ CapacityReached(o) \/ CapacityFound(o)
  \/ UnsafeIdentifier(o) \/ CountCycle(o)
  \/ DispatchStopped(o) \/ DispatchGoes(o)
  \/ \E x \in GoalsOf(o, cycle[o]) : SendGoal(o, x) \/ SendThrows(o, x)
  \/ AllSent(o) \/ FinishScheduling(o)
  \/ TestShotFails(o) \/ ScheduleTestShot(o)

Serve(x) == AcceptGoal(x) \/ RefuseGoal(x) \/ Execute(x) \/ FreeSlot(x) \/ CaptureFinished(x)

Next ==
  \/ \E o \in Operation, r \in Request : Create(o, r)
  \/ \E o \in Operation : Cancel(o) \/ Worker(o) \/ SessionExpires(o)
  \/ \E x \in Goal : Serve(x)

(* Threads run on, waits have deadlines, captures end (saved, failed or    *)
(* timed out) and their callbacks run.  Clients need not ever cancel.      *)
Fairness ==
  /\ \A o \in Operation : WF_vars(Worker(o))
  /\ \A x \in Goal : WF_vars(Serve(x))

Spec == Init /\ [][Next]_vars /\ Fairness

----------------------------------------------------------------------------
(* Invariants                                                              *)

TypeOK ==
  /\ op \in [Operation -> OperationState]
  /\ pc \in [Operation -> {"absent", "handler", "prepare", "waiting", "polling", "start", "loop",
                           "capacity", "count", "skip", "check", "send", "finish",
                           "shot", "ended"}]
  /\ cycle \in [Operation -> 1..MaxCycle + 1]
  /\ goal \in [Goal -> Phase]
  /\ slots \subseteq Goal
  /\ present \subseteq Operation
  /\ history \in Seq(Operation)
  /\ session \in [Operation -> {"none", "held", "orphan", "gone", "released"}]

Unanswered(o) == {x \in Goal : x[1] = o /\ goal[x] \in {"counted", "sent", "running", "saved", "broken"}}

(* pending_saves is the number of captures counted and not yet answered:   *)
(* no answer is lost, counted twice, or charged to another operation.      *)
PendingIsUnanswered ==
  \A o \in Operation : op[o].pending = Cardinality(Unanswered(o))

(* The recorder gives a session back only when no capture of the operation *)
(* is under way: the manager may then take the cameras out of capture mode.*)
SessionCoversCaptures ==
  \A o \in Operation : session[o] = "released" => Unanswered(o) = {}

(* A cycle is reported completed exactly when all its captures were saved, *)
(* and every cycle that was scheduled is reported once the operation has   *)
(* ended, in whatever order the captures of several cycles are answered.   *)
CyclesAccounted ==
  \A o \in Operation :
    LET whole == {c \in 1..MaxCycle : \A x \in GoalsOf(o, c) : goal[x] = "kept"}
    IN  /\ op[o].completed = Cardinality(whole)
        /\ op[o].recorded => op[o].completed + op[o].failed = op[o].scheduled

(* "all capture cycles saved": complete means every requested cycle is on  *)
(* disk; an operation whose cancellation was accepted never is.            *)
CompleteMeansSaved ==
  \A o \in Operation :
    (op[o].recorded /\ op[o].status = "complete") =>
      /\ ~op[o].cancelled
      /\ op[o].scheduled = op[o].req.count
      /\ \A c \in 1..op[o].scheduled : \A x \in GoalsOf(o, c) : goal[x] = "kept"

(* "Active operations are retained until they finish".                     *)
ActiveRetained ==
  \A o \in Operation : Created(o) /\ o \notin present => op[o].recorded

(* max_active_operations bounds the operations that have not ended, also   *)
(* those whose status already looks as if they had.                        *)
ActiveLimit ==
  Cardinality({o \in Operation : Created(o) /\ ~op[o].recorded}) <= MaxActive

----------------------------------------------------------------------------
(* Action and liveness properties                                          *)

(* What has been recorded as ended is final: no late answer, cancellation  *)
(* or step of its worker changes it.                                       *)
RecordedIsFinal ==
  [][\A o \in Operation : op[o].recorded => op'[o] = op[o]]_vars

(* The worker is through, and captures it counted were never sent.         *)
Stranded(o) == pc[o] = "ended" /\ \E x \in Unanswered(o) : goal[x] = "counted"

(* Every operation ends, an endless sequence when something stops it; an   *)
(* operation stopped in the middle of a dispatch is left aside.            *)
OperationEnds ==
  \A o \in Operation :
    (Created(o) /\ (op[o].req.count # 0 \/ op[o].stop)) ~> (op[o].recorded \/ Stranded(o))

(* "stops scheduling that sequence and finishes every capture it already   *)
(* accepted": when something stopped an operation, it ends.                *)
StoppedOperationEnds ==
  \A o \in Operation : (Created(o) /\ op[o].stop) ~> op[o].recorded
============================================================================
