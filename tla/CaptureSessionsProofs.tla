----------------------- MODULE CaptureSessionsProofs -----------------------
(***************************************************************************)
(* Theorems about CaptureSessions, for every set of cameras, groups,       *)
(* clients, requests and threads.                                          *)
(***************************************************************************)
EXTENDS CaptureSessions, CommonLemmas, TLAPS

(* The part of TypeOK that assignments are computed from.                  *)
SourcesTypeOK ==
  /\ catalog \in [Sensor -> {"known", "enrolled", "retired"}]
  /\ members \in [Group -> SUBSET Sensor]
  /\ groupMode \in [Group -> OperatingMode \cup {"unset"}]
  /\ sensorMode \in [Sensor -> OperatingMode \cup {"unset"}]
  /\ sessions \in [SessionId -> Session]

LEMMA SourcesTyped == TypeOK => SourcesTypeOK
BY DEF TypeOK, SourcesTypeOK

(* What a new lease looks like.                                            *)
LEMMA TargetsType ==
  ASSUME TypeOK, NEW r \in AnyLeaseRequest
  PROVE  SessionTargets(r) \in SUBSET Sensor
BY DEF TypeOK, SessionTargets, AnyLeaseRequest, enrolled

LEMMA CreatedType ==
  ASSUME TypeOK, NEW sid \in SessionId, NEW owner \in Owner,
         NEW r \in AnyLeaseRequest, CreateCaptureSession(sid, owner, r)
  PROVE  sessions' \in [SessionId -> Session]
<1>1. SessionTargets(r) \in SUBSET Sensor
  BY TargetsType
<1>2. TTL \in 0..TTL
  BY ConstantsAssumption
<1>3. [status |-> "live", owner |-> owner, kind |-> r.kind,
       groups |-> IF r.kind = "group" THEN r.groups ELSE {},
       sensors |-> SessionTargets(r), interval |-> r.interval,
       exclusive |-> r.exclusive, left |-> TTL, told |-> FALSE] \in Session
  BY <1>1, <1>2 DEF Session, AnyLeaseRequest
<1>. QED
  BY <1>3 DEF CreateCaptureSession, TypeOK

LEMMA RenewedType ==
  ASSUME TypeOK, NEW sid \in SessionId
  PROVE  Renewed(sid) \in [SessionId -> Session]
BY ConstantsAssumption DEF Renewed, TypeOK, Session

LEMMA DroppedType ==
  ASSUME TypeOK, NEW ids \in SUBSET SessionId
  PROVE  Dropped(ids) \in [SessionId -> Session]
<1>1. Blank("ended") \in Session
  BY ConstantsAssumption DEF Blank, Session, Owner, Interval
<1>. QED
  BY <1>1 DEF Dropped, TypeOK

(* LeastPositive returns zero or one of the set's positive elements, and   *)
(* nothing positive in the set is smaller.                                 *)
LEMMA LeastPositiveIsLeast ==
  ASSUME NEW S \in SUBSET Nat
  PROVE  /\ LeastPositive(S) \in Nat
         /\ \A i \in S : i > 0 => LeastPositive(S) \in 1..i
<1>. DEFINE positive == {i \in S : i > 0}
<1>1. CASE positive = {}
  BY <1>1 DEF LeastPositive
<1>2. CASE positive # {}
  <2>1. \E m \in positive : \A n \in positive : m <= n
    BY <1>2, LeastNatural
  <2>2. /\ LeastPositive(S) \in positive
        /\ \A n \in positive : LeastPositive(S) <= n
    BY <1>2, <2>1 DEF LeastPositive
  <2>3. /\ LeastPositive(S) \in Nat
        /\ LeastPositive(S) > 0
    BY <2>2
  <2>4. ASSUME NEW i \in S, i > 0
        PROVE  LeastPositive(S) \in 1..i
    <3>1. i \in positive
      BY <2>4
    <3>2. LeastPositive(S) <= i
      BY <2>2, <3>1
    <3>. QED
      BY <2>3, <3>2
  <2>. QED
    BY <2>3, <2>4
<1>. QED
  BY <1>1, <1>2

LEMMA RequestedIntervalType ==
  ASSUME SourcesTypeOK, NEW g \in Group
  PROVE  /\ RequestedGroupInterval(g) \in Nat
         /\ \A sid \in SessionForGroup(g) : sessions[sid].interval > 0 =>
              RequestedGroupInterval(g) \in 1..sessions[sid].interval
<1>. DEFINE intervals == {sessions[sid].interval : sid \in SessionForGroup(g)}
<1>1. intervals \in SUBSET Nat
  BY DEF SessionForGroup, LiveIds, SourcesTypeOK, Session, Interval
<1>. HIDE DEF intervals
<1>2. /\ LeastPositive(intervals) \in Nat
      /\ \A i \in intervals : i > 0 => LeastPositive(intervals) \in 1..i
  BY <1>1, LeastPositiveIsLeast
<1>. QED
  BY <1>2 DEF RequestedGroupInterval, intervals

(* The cadence assigned to a camera is no slower than that of any group it *)
(* is assigned to.                                                         *)
LEMMA AssignedIntervalBound ==
  ASSUME SourcesTypeOK, NEW s \in Sensor
  PROVE  /\ AssignedInterval(s) \in Nat
         /\ AssignedMode(s) = "capture" =>
              \A g \in AssignedGroups(s) : RequestedGroupInterval(g) > 0 =>
                AssignedInterval(s) \in 1..RequestedGroupInterval(g)
<1>. DEFINE intervals == {RequestedGroupInterval(g) : g \in AssignedGroups(s)}
<1>1. AssignedGroups(s) \subseteq Group
  BY DEF AssignedGroups, GroupsForSensor
<1>2. intervals \in SUBSET Nat
  BY <1>1, RequestedIntervalType
<1>. HIDE DEF intervals
<1>3. /\ LeastPositive(intervals) \in Nat
      /\ \A i \in intervals : i > 0 => LeastPositive(intervals) \in 1..i
  BY <1>2, LeastPositiveIsLeast
<1>. QED
  BY <1>3 DEF AssignedInterval, intervals

LEMMA RequestedModeType ==
  ASSUME SourcesTypeOK, NEW g \in Group
  PROVE  RequestedGroupMode(g) \in OperatingMode
BY ConstantsAssumption DEF RequestedGroupMode, SourcesTypeOK, OperatingMode

LEMMA AssignmentType ==
  ASSUME SourcesTypeOK, NEW s \in Sensor
  PROVE  AssignmentOf(s) \in Assignment
<1>1. AssignedMode(s) \in OperatingMode
  BY ConstantsAssumption DEF AssignedMode, BaselineMode, SourcesTypeOK, OperatingMode
<1>2. AssignedGroups(s) \subseteq Group
  BY DEF AssignedGroups, GroupsForSensor
<1>3. AssignedInterval(s) \in Nat
  BY AssignedIntervalBound
<1>4. CamerasCaptureOwned({s}) \in BOOLEAN
  BY DEF CamerasCaptureOwned
<1>5. NoAssignment \in Assignment
  BY DEF NoAssignment, Assignment, Interval
<1>. QED
  BY <1>1, <1>2, <1>3, <1>4, <1>5 DEF AssignmentOf, Assignment, Interval

LEMMA PublishedType ==
  ASSUME SourcesTypeOK
  PROVE  [s \in Sensor |-> AssignmentOf(s)] \in [Sensor -> Assignment]
BY AssignmentType
----------------------------------------------------------------------------
(* Type correctness                                                        *)

LEMMA TypeInit == Init => TypeOK
<1>. SUFFICES ASSUME Init
              PROVE  TypeOK
  OBVIOUS
<1>1. Blank("unused") \in Session
  BY ConstantsAssumption DEF Blank, Session, Owner, Interval
<1>2. SourcesTypeOK
  BY <1>1, ConstantsAssumption DEF Init, SourcesTypeOK
<1>3. published \in [Sensor -> Assignment]
  BY <1>2, PublishedType DEF Init
<1>4. /\ edit \in [Editor -> Edit \cup {Idle}]
      /\ shot \in [Shot -> ShotCall \cup {Idle}]
      /\ alive \subseteq Client
  BY DEF Init
<1>. QED
  BY <1>2, <1>3, <1>4 DEF TypeOK, SourcesTypeOK

(* A lease request of a one-shot is one a client could have sent.          *)
LEMMA OneTargetType ==
  /\ \A g \in Group : OneTarget("group", g) \in AnyLeaseRequest
  /\ \A s \in Sensor : OneTarget("sensor", s) \in AnyLeaseRequest
BY DEF OneTarget, AnyLeaseRequest, Interval

LEMMA BeginShotType ==
  ASSUME TypeOK, NEW x \in Shot, NEW sid \in SessionId, NEW temp \in BOOLEAN,
         NEW kind \in {"group", "sensor"}, NEW target \in Group \cup Sensor,
         BeginShot(x, sid, temp, kind, target)
  PROVE  shot' \in [Shot -> ShotCall \cup {Idle}]
<1>1. [sid |-> sid, temp |-> temp, phase |-> "waiting", kind |-> kind,
       target |-> target] \in ShotCall
  BY DEF ShotCall
<1>. QED
  BY <1>1 DEF BeginShot, TypeOK

LEMMA BeginType ==
  ASSUME TypeOK, NEW e \in Editor, NEW r \in EditRequest,
         NEW cameras \in SUBSET Sensor, Begin(e, r, cameras)
  PROVE  TypeOK'
<1>1. [stage |-> "read", req |-> r, cameras |-> cameras,
       intact |-> IntactLeases(r.group)] \in Edit
  BY DEF Edit, IntactLeases, SessionForGroup, LiveIds
<1>. QED
  BY <1>1 DEF Begin, TypeOK

LEMMA AnswerType ==
  ASSUME TypeOK, NEW e \in Editor, Answer(e)
  PROVE  edit' \in [Editor -> Edit \cup {Idle}]
BY DEF Answer, TypeOK

LEMMA ReachesType ==
  ASSUME TypeOK, NEW e \in Editor, edit[e] # Idle,
         NEW stage \in {"read", "checked", "ungrouped", "saved"}, Reaches(e, stage)
  PROVE  /\ edit' \in [Editor -> Edit \cup {Idle}]
         /\ edit'[e] = [edit[e] EXCEPT !.stage = stage]
         /\ edit'[e].stage = stage
<1>1. edit[e] \in Edit
  BY DEF TypeOK
<1>2. [edit[e] EXCEPT !.stage = stage] \in Edit
  BY <1>1 DEF Edit
<1>3. edit'[e] = [edit[e] EXCEPT !.stage = stage]
  BY DEF Reaches, TypeOK
<1>4. edit' \in [Editor -> Edit \cup {Idle}]
  BY <1>2 DEF Reaches, TypeOK
<1>5. edit'[e].stage = stage
  BY <1>1, <1>3 DEF Edit
<1>. QED
  BY <1>3, <1>4, <1>5

(* The request an editor thread serves.                                    *)
LEMMA ServingType ==
  ASSUME TypeOK, NEW e \in Editor, NEW op, NEW stage, Serving(e, op, stage)
  PROVE  edit[e] # Idle /\ edit[e] \in Edit /\ edit[e].req \in AnyEditRequest
<1>1. edit[e] # Idle /\ edit[e] \in Edit
  BY DEF Serving, TypeOK
<1>2. edit[e].req \in AnyEditRequest
  BY <1>1, ConstantsAssumption DEF Edit
<1>. QED
  BY <1>1, <1>2

(* What a handler reads from the inventory are cameras.                    *)
LEMMA ReadType ==
  ASSUME TypeOK, NEW r \in EditRequest
  PROVE  /\ AffectedBy(r) \in SUBSET Sensor
         /\ members[r.group] \in SUBSET Sensor
         /\ {r.sensor} \in SUBSET Sensor
<1>1. r \in AnyEditRequest
  BY ConstantsAssumption
<1>. QED
  BY <1>1 DEF AffectedBy, AnyEditRequest, TypeOK

LEMMA TypeClient ==
  ASSUME TypeOK, ClientStep
  PROVE  TypeOK'
<1>1. ASSUME NEW c \in Client, NEW sid \in SessionId, NEW r \in LeaseRequest,
             Acquire(c, sid, r)
      PROVE  TypeOK'
  <2>1. r \in AnyLeaseRequest /\ c \in Owner
    BY ConstantsAssumption DEF Owner
  <2>2. sessions' \in [SessionId -> Session]
    BY <1>1, <2>1, CreatedType DEF Acquire
  <2>. QED
    BY <1>1, <2>2 DEF Acquire, TypeOK
<1>2. ASSUME NEW sid \in SessionId, AcquireReturns(sid)
      PROVE  TypeOK'
  <2>1. published' \in [Sensor -> Assignment]
    BY <1>2, PublishedType, SourcesTyped DEF AcquireReturns, PublishState
  <2>2. [sessions[sid] EXCEPT !.told = TRUE] \in Session
    <3>1. sessions[sid] \in Session
      BY DEF TypeOK
    <3>. QED
      BY <3>1 DEF Session
  <2>3. sessions' \in [SessionId -> Session]
    BY <1>2, <2>2 DEF AcquireReturns, TypeOK
  <2>. QED
    BY <1>2, <2>1, <2>3 DEF AcquireReturns, TypeOK
<1>3. ASSUME NEW c \in Client, NEW sid \in SessionId, Renew(c, sid)
      PROVE  TypeOK'
  <2>1. sessions' \in [SessionId -> Session]
    BY <1>3, RenewedType DEF Renew
  <2>. QED
    BY <1>3, <2>1 DEF Renew, TypeOK
<1>4. ASSUME NEW c \in Client, NEW sid \in SessionId, Release(c, sid)
      PROVE  TypeOK'
  <2>1. sessions' \in [SessionId -> Session]
    BY <1>4, DroppedType DEF Release
  <2>. QED
    BY <1>4, <2>1 DEF Release, TypeOK
<1>5. ASSUME NEW c \in Client, Crash(c)
      PROVE  TypeOK'
  BY <1>5 DEF Crash, TypeOK
<1>. QED
  BY <1>1, <1>2, <1>3, <1>4, <1>5 DEF ClientStep

LEMMA TypeEdit ==
  ASSUME TypeOK, EditStep
  PROVE  TypeOK'
<1>1. ASSUME NEW e \in Editor, NEW r \in EditRequest, UpsertRead(e, r)
      PROVE  TypeOK'
  BY <1>1, BeginType, ReadType DEF UpsertRead
<1>2. ASSUME NEW e \in Editor, UpsertSave(e)
      PROVE  TypeOK'
  <2>1. edit[e] # Idle /\ edit[e].req \in AnyEditRequest
    BY <1>2, ServingType DEF UpsertSave
  <2>2. edit' \in [Editor -> Edit \cup {Idle}]
    BY <1>2, <2>1, AnswerType, ReachesType DEF UpsertSave
  <2>3. members' \in [Group -> SUBSET Sensor]
    BY <1>2, <2>1 DEF UpsertSave, Answer, AnyEditRequest, TypeOK
  <2>. QED
    BY <1>2, <2>2, <2>3 DEF UpsertSave, TypeOK
<1>3. ASSUME NEW e \in Editor, UpsertFinish(e)
      PROVE  TypeOK'
  <2>1. edit[e].req \in AnyEditRequest
    BY <1>3, ServingType DEF UpsertFinish
  <2>2. groupMode' \in [Group -> OperatingMode \cup {"unset"}]
    BY <1>3, <2>1, ConstantsAssumption DEF UpsertFinish, AnyEditRequest, OperatingMode, TypeOK
  <2>. QED
    BY <1>3, <2>2, AnswerType DEF UpsertFinish, TypeOK
<1>4. ASSUME NEW e \in Editor, NEW r \in EditRequest, DeleteRead(e, r)
      PROVE  TypeOK'
  BY <1>4, BeginType, ReadType DEF DeleteRead
<1>5. ASSUME NEW e \in Editor, DeleteSave(e)
      PROVE  TypeOK'
  <2>1. edit[e] # Idle /\ edit[e].req \in AnyEditRequest
    BY <1>5, ServingType DEF DeleteSave
  <2>2. edit' \in [Editor -> Edit \cup {Idle}]
    BY <1>5, <2>1, AnswerType, ReachesType DEF DeleteSave
  <2>3. members' \in [Group -> SUBSET Sensor]
    BY <1>5, <2>1 DEF DeleteSave, Answer, AnyEditRequest, TypeOK
  <2>. QED
    BY <1>5, <2>2, <2>3 DEF DeleteSave, TypeOK
<1>6. ASSUME NEW e \in Editor, DeleteFinish(e)
      PROVE  TypeOK'
  <2>1. edit[e].req \in AnyEditRequest
    BY <1>6, ServingType DEF DeleteFinish
  <2>2. groupMode' \in [Group -> OperatingMode \cup {"unset"}]
    BY <1>6, <2>1, ConstantsAssumption DEF DeleteFinish, AnyEditRequest, OperatingMode, TypeOK
  <2>. QED
    BY <1>6, <2>2, AnswerType DEF DeleteFinish, TypeOK
<1>7. ASSUME NEW e \in Editor, NEW r \in EditRequest, SetGroupModeRead(e, r)
      PROVE  TypeOK'
  BY <1>7, BeginType, ReadType DEF SetGroupModeRead
<1>8. ASSUME NEW e \in Editor, SetGroupMode(e)
      PROVE  TypeOK'
  <2>1. edit[e].req \in AnyEditRequest
    BY <1>8, ServingType DEF SetGroupMode
  <2>2. groupMode' \in [Group -> OperatingMode \cup {"unset"}]
    BY <1>8, <2>1, ConstantsAssumption DEF SetGroupMode, AnyEditRequest, OperatingMode, TypeOK
  <2>. QED
    BY <1>8, <2>2, AnswerType DEF SetGroupMode, TypeOK
<1>9. ASSUME NEW e \in Editor, NEW r \in EditRequest, SetSensorModeRead(e, r)
      PROVE  TypeOK'
  BY <1>9, BeginType, ReadType DEF SetSensorModeRead
<1>10. ASSUME NEW e \in Editor, SetSensorMode(e)
      PROVE  TypeOK'
  <2>1. edit[e].req \in AnyEditRequest
    BY <1>10, ServingType DEF SetSensorMode
  <2>2. sensorMode' \in [Sensor -> OperatingMode \cup {"unset"}]
    BY <1>10, <2>1, ConstantsAssumption DEF SetSensorMode, AnyEditRequest, OperatingMode, TypeOK
  <2>. QED
    BY <1>10, <2>2, AnswerType DEF SetSensorMode, TypeOK
<1>11. ASSUME NEW e \in Editor, NEW r \in EditRequest, ForgetRead(e, r)
      PROVE  TypeOK'
  BY <1>11, BeginType, ReadType DEF ForgetRead
<1>12. ASSUME NEW e \in Editor, ForgetSave(e)
      PROVE  TypeOK'
  <2>1. edit[e] # Idle /\ edit[e].req \in AnyEditRequest
    BY <1>12, ServingType DEF ForgetSave
  <2>2. edit' \in [Editor -> Edit \cup {Idle}]
    BY <1>12, <2>1, AnswerType, ReachesType DEF ForgetSave
  <2>3. catalog' \in [Sensor -> {"known", "enrolled", "retired"}]
    BY <1>12, <2>1 DEF ForgetSave, Answer, AnyEditRequest, TypeOK
  <2>. QED
    BY <1>12, <2>2, <2>3 DEF ForgetSave, TypeOK
<1>13. ASSUME NEW e \in Editor, ForgetFinish(e)
      PROVE  TypeOK'
  <2>1. edit[e].req \in AnyEditRequest
    BY <1>13, ServingType DEF ForgetFinish
  <2>2. sensorMode' \in [Sensor -> OperatingMode \cup {"unset"}]
    BY <1>13, <2>1, ConstantsAssumption DEF ForgetFinish, AnyEditRequest, OperatingMode, TypeOK
  <2>. QED
    BY <1>13, <2>2, AnswerType DEF ForgetFinish, TypeOK
<1>14. ASSUME NEW s \in Sensor, Enroll(s)
      PROVE  TypeOK'
  BY <1>14 DEF Enroll, TypeOK
<1>15. ASSUME NEW pair \in ReplacePair, Replace(pair[1], pair[2])
      PROVE  TypeOK'
  <2>1. pair[1] \in Sensor /\ pair[2] \in Sensor
    BY ConstantsAssumption
  <2>2. catalog' \in [Sensor -> {"known", "enrolled", "retired"}]
    BY <1>15, <2>1 DEF Replace, TypeOK
  <2>3. members' \in [Group -> SUBSET Sensor]
    BY <1>15, <2>1 DEF Replace, TypeOK
  <2>. QED
    BY <1>15, <2>2, <2>3 DEF Replace, TypeOK
<1>16. ASSUME NEW e \in Editor, CheckLeases(e)
      PROVE  TypeOK'
  <2>1. edit' \in [Editor -> Edit \cup {Idle}]
    BY <1>16, AnswerType, ReachesType DEF CheckLeases
  <2>. QED
    BY <1>16, <2>1 DEF CheckLeases, TypeOK
<1>17. ASSUME NEW e \in Editor, SetSensorModeGroups(e)
      PROVE  TypeOK'
  <2>1. edit[e] # Idle
    BY <1>17, ServingType DEF SetSensorModeGroups
  <2>2. edit' \in [Editor -> Edit \cup {Idle}]
    BY <1>17, <2>1, AnswerType, ReachesType DEF SetSensorModeGroups
  <2>. QED
    BY <1>17, <2>2 DEF SetSensorModeGroups, TypeOK
<1>. QED
  BY <1>1, <1>2, <1>3, <1>4, <1>5, <1>6, <1>7, <1>8, <1>9, <1>10, <1>11, <1>12, <1>13, <1>14,
     <1>15, <1>16, <1>17
  DEF EditStep

LEMMA TypeShot ==
  ASSUME TypeOK, ShotStep
  PROVE  TypeOK'
<1>1. ASSUME NEW x \in Shot, NEW sid \in SessionId, NEW t \in Group,
             ShotTakesLease(x, sid, "group", t)
      PROVE  TypeOK'
  <2>1. Temporary \in Owner
    BY DEF Owner
  <2>2. sessions' \in [SessionId -> Session]
    BY <1>1, <2>1, OneTargetType, CreatedType DEF ShotTakesLease
  <2>3. shot' \in [Shot -> ShotCall \cup {Idle}]
    BY <1>1, BeginShotType DEF ShotTakesLease
  <2>. QED
    BY <1>1, <2>2, <2>3 DEF ShotTakesLease, TypeOK
<1>2. ASSUME NEW x \in Shot, NEW sid \in SessionId, NEW t \in Sensor,
             ShotTakesLease(x, sid, "sensor", t)
      PROVE  TypeOK'
  <2>1. Temporary \in Owner
    BY DEF Owner
  <2>2. sessions' \in [SessionId -> Session]
    BY <1>2, <2>1, OneTargetType, CreatedType DEF ShotTakesLease
  <2>3. shot' \in [Shot -> ShotCall \cup {Idle}]
    BY <1>2, BeginShotType DEF ShotTakesLease
  <2>. QED
    BY <1>2, <2>2, <2>3 DEF ShotTakesLease, TypeOK
<1>3. ASSUME NEW x \in Shot, NEW c \in Client, NEW sid \in SessionId, NEW t \in Group,
             ShotUsesLease(x, c, sid, "group", t)
      PROVE  TypeOK'
  <2>1. sessions' \in [SessionId -> Session]
    BY <1>3, RenewedType DEF ShotUsesLease
  <2>2. shot' \in [Shot -> ShotCall \cup {Idle}]
    BY <1>3, BeginShotType DEF ShotUsesLease
  <2>. QED
    BY <1>3, <2>1, <2>2 DEF ShotUsesLease, TypeOK
<1>4. ASSUME NEW x \in Shot, NEW c \in Client, NEW sid \in SessionId, NEW t \in Sensor,
             ShotUsesLease(x, c, sid, "sensor", t)
      PROVE  TypeOK'
  <2>1. sessions' \in [SessionId -> Session]
    BY <1>4, RenewedType DEF ShotUsesLease
  <2>2. shot' \in [Shot -> ShotCall \cup {Idle}]
    BY <1>4, BeginShotType DEF ShotUsesLease
  <2>. QED
    BY <1>4, <2>1, <2>2 DEF ShotUsesLease, TypeOK
<1>5. ASSUME NEW x \in Shot, ShotPolls(x)
      PROVE  TypeOK'
  <2>1. shot[x].sid \in SessionId
    BY <1>5 DEF ShotPolls, TypeOK, ShotCall
  <2>2. sessions' \in [SessionId -> Session]
    BY <1>5, <2>1, RenewedType DEF ShotPolls
  <2>. QED
    BY <1>5, <2>2 DEF ShotPolls, TypeOK
<1>6. ASSUME NEW x \in Shot, ShotRequests(x)
      PROVE  TypeOK'
  <2>1. shot[x] \in ShotCall
    BY <1>6 DEF ShotRequests, TypeOK
  <2>2. shot[x].sid \in SessionId /\ [shot[x] EXCEPT !.phase = "requested"] \in ShotCall
    BY <2>1 DEF ShotCall
  <2>3. sessions' \in [SessionId -> Session]
    BY <1>6, <2>2, RenewedType DEF ShotRequests
  <2>4. shot' \in [Shot -> ShotCall \cup {Idle}]
    BY <1>6, <2>2 DEF ShotRequests, TypeOK
  <2>. QED
    BY <1>6, <2>3, <2>4 DEF ShotRequests, TypeOK
<1>7. ASSUME NEW x \in Shot, shot[x] # Idle, ShotEnds(x)
      PROVE  TypeOK'
  <2>1. shot[x].sid \in SessionId
    BY <1>7 DEF TypeOK, ShotCall
  <2>2. sessions' \in [SessionId -> Session]
    <3>1. Dropped({shot[x].sid}) \in [SessionId -> Session]
      BY <2>1, DroppedType
    <3>. QED
      BY <1>7, <3>1 DEF ShotEnds, TemporaryDropped, TypeOK
  <2>. QED
    BY <1>7, <2>2 DEF ShotEnds, TypeOK
<1>. QED
  BY <1>1, <1>2, <1>3, <1>4, <1>5, <1>6, <1>7
  DEF ShotStep, ShotGivesUp, ShotReply

LEMMA TypeStep == TypeOK /\ [Next]_vars => TypeOK'
<1>. SUFFICES ASSUME TypeOK, [Next]_vars
              PROVE  TypeOK'
  OBVIOUS
<1>1. CASE ClientStep
  BY <1>1, TypeClient
<1>2. CASE EditStep
  BY <1>2, TypeEdit
<1>3. CASE ShotStep
  BY <1>3, TypeShot
<1>4. CASE Publish
  BY <1>4, PublishedType, SourcesTyped DEF Publish, PublishState, TypeOK
<1>5. CASE ExpireCaptureSessions
  <2>1. Expired \in SUBSET SessionId
    BY DEF Expired, LiveIds
  <2>2. sessions' \in [SessionId -> Session]
    BY <1>5, <2>1, DroppedType DEF ExpireCaptureSessions
  <2>. QED
    BY <1>5, <2>2 DEF ExpireCaptureSessions, TypeOK
<1>6. CASE Tick
  <2>1. \A sid \in SessionId : sessions[sid].left > 0 =>
          [sessions[sid] EXCEPT !.left = @ - 1] \in Session
    <3>1. SUFFICES ASSUME NEW sid \in SessionId, sessions[sid].left > 0
                   PROVE  [sessions[sid] EXCEPT !.left = sessions[sid].left - 1] \in Session
      BY DEF TypeOK
    <3>2. sessions[sid] \in Session
      BY DEF TypeOK
    <3>3. sessions[sid].left - 1 \in 0..TTL
      BY <3>1, <3>2, ConstantsAssumption DEF Session
    <3>. QED
      BY <3>2, <3>3 DEF Session
  <2>2. sessions' \in [SessionId -> Session]
    BY <1>6, <2>1 DEF Tick, TypeOK
  <2>. QED
    BY <1>6, <2>2 DEF Tick, TypeOK
<1>7. CASE UNCHANGED vars
  BY <1>7 DEF vars, TypeOK
<1>. QED
  BY <1>1, <1>2, <1>3, <1>4, <1>5, <1>6, <1>7 DEF Next

(* The manager's tables keep their types whatever clients, operators and   *)
(* one-shots do; in particular the mode of a published assignment is never *)
(* the missing key of group_modes or sensor_modes.                         *)
THEOREM TypeCorrect == Spec => []TypeOK
<1>1. Init => TypeOK
  BY TypeInit
<1>2. TypeOK /\ [Next]_vars => TypeOK'
  BY TypeStep
<1>. QED
  BY <1>1, <1>2, PTL DEF Spec
----------------------------------------------------------------------------
(* What a step does to the leases: it grants one, ends some, publishes, or *)
(* leaves the terms of all of them alone.                                  *)

SameTerms(sid) ==
  /\ sessions'[sid].status = sessions[sid].status
  /\ sessions'[sid].owner = sessions[sid].owner
  /\ sessions'[sid].kind = sessions[sid].kind
  /\ sessions'[sid].groups = sessions[sid].groups
  /\ sessions'[sid].sensors = sessions[sid].sensors
  /\ sessions'[sid].interval = sessions[sid].interval
  /\ sessions'[sid].exclusive = sessions[sid].exclusive

SameTold(sid) == sessions'[sid].told = sessions[sid].told

Granted ==
  /\ published' = published
  /\ \E sid \in SessionId, owner \in Owner, r \in AnyLeaseRequest :
       CreateCaptureSession(sid, owner, r)

Ended ==
  /\ published' = published
  /\ \E ids \in SUBSET SessionId : sessions' = Dropped(ids)

Shown ==
  /\ PublishState
  /\ \A sid \in SessionId : SameTerms(sid)

Kept ==
  /\ published' = published
  /\ \A sid \in SessionId : SameTerms(sid) /\ SameTold(sid)

LEMMA RenewedKeeps ==
  ASSUME TypeOK, NEW sid \in SessionId, sessions' = Renewed(sid)
  PROVE  \A other \in SessionId : SameTerms(other) /\ SameTold(other)
BY DEF Renewed, SameTerms, SameTold, TypeOK, Session

LEMMA UnchangedKeeps ==
  ASSUME sessions' = sessions
  PROVE  \A sid \in SessionId : SameTerms(sid) /\ SameTold(sid)
BY DEF SameTerms, SameTold

LEMMA EditStepKeeps ==
  ASSUME TypeOK, EditStep
  PROVE  sessions' = sessions /\ published' = published
BY DEF EditStep, UpsertRead, CheckLeases, UpsertSave, UpsertFinish, DeleteRead, DeleteSave,
       DeleteFinish, SetGroupModeRead, SetGroupMode, SetSensorModeRead, SetSensorModeGroups,
       SetSensorMode, ForgetRead, ForgetSave, ForgetFinish, Enroll, Replace, Begin

LEMMA LeaseSteps ==
  ASSUME TypeOK, [Next]_vars
  PROVE  Granted \/ Ended \/ Shown \/ Kept
<1>1. ASSUME NEW c \in Client, NEW sid \in SessionId, NEW r \in LeaseRequest,
             Acquire(c, sid, r)
      PROVE  Granted
  BY <1>1, ConstantsAssumption DEF Acquire, Granted, Owner
<1>2. ASSUME NEW sid \in SessionId, AcquireReturns(sid)
      PROVE  Shown
  <2>1. \A other \in SessionId : SameTerms(other)
    BY <1>2 DEF AcquireReturns, SameTerms, TypeOK, Session
  <2>. QED
    BY <1>2, <2>1 DEF AcquireReturns, Shown
<1>3. ASSUME NEW c \in Client, NEW sid \in SessionId, Renew(c, sid)
      PROVE  Kept
  BY <1>3, RenewedKeeps DEF Renew, Kept
<1>4. ASSUME NEW c \in Client, NEW sid \in SessionId, Release(c, sid)
      PROVE  Ended
  BY <1>4 DEF Release, Ended
<1>5. ASSUME NEW c \in Client, Crash(c)
      PROVE  Kept
  BY <1>5, UnchangedKeeps DEF Crash, Kept
<1>6. CASE EditStep
  BY <1>6, EditStepKeeps, UnchangedKeeps DEF Kept
<1>7. ASSUME NEW x \in Shot, NEW sid \in SessionId, NEW kind, NEW target,
             OneTarget(kind, target) \in AnyLeaseRequest,
             ShotTakesLease(x, sid, kind, target)
      PROVE  Granted
  BY <1>7 DEF ShotTakesLease, Granted, Owner
<1>8. ASSUME NEW x \in Shot, NEW c \in Client, NEW sid \in SessionId, NEW kind,
             NEW target, ShotUsesLease(x, c, sid, kind, target)
      PROVE  Kept
  BY <1>8, RenewedKeeps DEF ShotUsesLease, Kept
<1>9. ASSUME NEW x \in Shot, ShotPolls(x) \/ ShotRequests(x)
      PROVE  Kept
  <2>1. shot[x].sid \in SessionId
    BY <1>9 DEF ShotPolls, ShotRequests, TypeOK, ShotCall
  <2>. QED
    BY <1>9, <2>1, RenewedKeeps DEF ShotPolls, ShotRequests, Kept
<1>10. ASSUME NEW x \in Shot, shot[x] # Idle, ShotEnds(x)
       PROVE  Ended \/ Kept
  <2>1. shot[x].sid \in SessionId
    BY <1>10 DEF TypeOK, ShotCall
  <2>. QED
    BY <1>10, <2>1, UnchangedKeeps DEF ShotEnds, TemporaryDropped, Ended, Kept
<1>11. CASE Publish
  BY <1>11, UnchangedKeeps DEF Publish, Shown
<1>12. CASE ExpireCaptureSessions
  <2>1. Expired \in SUBSET SessionId
    BY DEF Expired, LiveIds
  <2>. QED
    BY <1>12, <2>1 DEF ExpireCaptureSessions, Ended
<1>13. CASE Tick
  <2>1. \A sid \in SessionId : SameTerms(sid) /\ SameTold(sid)
    BY <1>13 DEF Tick, SameTerms, SameTold, TypeOK, Session
  <2>. QED
    BY <1>13, <2>1 DEF Tick, Kept
<1>14. CASE UNCHANGED vars
  BY <1>14, UnchangedKeeps DEF vars, Kept
<1>15. CASE ClientStep
  BY <1>15, <1>1, <1>2, <1>3, <1>4, <1>5 DEF ClientStep
<1>16. CASE ShotStep
  BY <1>16, <1>7, <1>8, <1>9, <1>10, OneTargetType DEF ShotStep, ShotGivesUp, ShotReply
<1>. QED
  BY <1>6, <1>11, <1>12, <1>13, <1>14, <1>15, <1>16 DEF Next

----------------------------------------------------------------------------
(* Exclusive leases                                                        *)

LEMMA ExclusiveStep ==
  ASSUME TypeOK, TypeOK', ExclusiveLease, [Next]_vars
  PROVE  ExclusiveLease'
<1>1. CASE Granted
  <2>1. PICK sid \in SessionId, owner \in Owner, r \in AnyLeaseRequest :
          CreateCaptureSession(sid, owner, r)
    BY <1>1 DEF Granted
  <2>2. \A other \in SessionId \ {sid} : sessions'[other] = sessions[other]
    BY <2>1 DEF CreateCaptureSession, TypeOK
  <2>3. /\ sessions'[sid].sensors = SessionTargets(r)
        /\ sessions'[sid].exclusive = r.exclusive
    BY <2>1 DEF CreateCaptureSession, TypeOK
  <2>4. \A other \in SessionId \ {sid} : Live(other) =>
          \/ SessionTargets(r) \cap sessions[other].sensors = {}
          \/ ~r.exclusive /\ ~sessions[other].exclusive
    BY <2>1 DEF CreateCaptureSession, Conflict
  <2>. QED
    BY <2>2, <2>3, <2>4 DEF ExclusiveLease, Live
<1>2. CASE Ended
  <2>1. PICK ids \in SUBSET SessionId : sessions' = Dropped(ids)
    BY <1>2 DEF Ended
  <2>2. \A sid \in SessionId : Live(sid)' => Live(sid) /\ sessions'[sid] = sessions[sid]
    BY <2>1 DEF Dropped, Live, Blank
  <2>. QED
    BY <2>2 DEF ExclusiveLease
<1>3. CASE Shown \/ Kept
  BY <1>3 DEF Shown, Kept, SameTerms, ExclusiveLease, Live
<1>. QED
  BY <1>1, <1>2, <1>3, LeaseSteps

(* Two leases held at once share a camera only when neither is exclusive,  *)
(* for any number of clients, one-shots and edits in any order: the        *)
(* conflict test of _create_capture_session is enough, because leases only *)
(* come about there and keep their cameras and their exclusiveness.        *)
THEOREM ExclusiveLeases == Spec => []ExclusiveLease
<1>1. Init => ExclusiveLease
  BY DEF Init, ExclusiveLease, Live, Blank
<1>2. TypeOK /\ TypeOK' /\ ExclusiveLease /\ [Next]_vars => ExclusiveLease'
  BY ExclusiveStep
<1>. QED
  BY <1>1, <1>2, TypeCorrect, PTL DEF Spec

----------------------------------------------------------------------------
(* Temporary leases                                                        *)

HasShot(sid) == \E x \in Shot : shot[x] # Idle /\ shot[x].temp /\ shot[x].sid = sid

LEMMA TemporaryStep ==
  ASSUME TypeOK, TypeOK', TemporaryLeaseHasShot, [Next]_vars
  PROVE  TemporaryLeaseHasShot'
<1>. USE DEF HasShot
<1>1. ASSUME NEW c \in Client, NEW sid \in SessionId, NEW r \in LeaseRequest,
             Acquire(c, sid, r)
      PROVE  TemporaryLeaseHasShot'
  <2>1. shot' = shot /\ c # Temporary
    BY <1>1, ConstantsAssumption DEF Acquire
  <2>2. /\ sessions'[sid].owner = c
        /\ \A other \in SessionId \ {sid} : sessions'[other] = sessions[other]
    BY <1>1 DEF Acquire, CreateCaptureSession, TypeOK
  <2>. QED
    BY <2>1, <2>2 DEF TemporaryLeaseHasShot, LiveIds, Live
<1>2. ASSUME shot' = shot,
             \A sid \in SessionId : Live(sid)' =>
               Live(sid) /\ sessions'[sid].owner = sessions[sid].owner
      PROVE  TemporaryLeaseHasShot'
  BY <1>2 DEF TemporaryLeaseHasShot, LiveIds
<1>3. ASSUME NEW x \in Shot, NEW sid \in SessionId, NEW kind \in {"group", "sensor"},
             NEW target \in Group \cup Sensor, ShotTakesLease(x, sid, kind, target)
      PROVE  TemporaryLeaseHasShot'
  <2>1. [sid |-> sid, temp |-> TRUE, phase |-> "waiting", kind |-> kind,
         target |-> target] \in ShotCall
    BY DEF ShotCall
  <2>2. /\ shot'[x] # Idle /\ shot'[x].temp /\ shot'[x].sid = sid
        /\ \A y \in Shot \ {x} : shot'[y] = shot[y]
    BY <1>3, <2>1, IdleAssumption DEF ShotTakesLease, BeginShot, TypeOK
  <2>3. \A other \in SessionId \ {sid} : sessions'[other] = sessions[other]
    BY <1>3 DEF ShotTakesLease, CreateCaptureSession, TypeOK
  <2>4. shot[x] = Idle
    BY <1>3 DEF ShotTakesLease
  <2>. QED
    BY <2>2, <2>3, <2>4 DEF TemporaryLeaseHasShot, LiveIds, Live
<1>4. ASSUME NEW x \in Shot, NEW c \in Client, NEW sid \in SessionId, NEW kind,
             NEW target, ShotUsesLease(x, c, sid, kind, target)
      PROVE  TemporaryLeaseHasShot'
  <2>1. shot[x] = Idle /\ \A y \in Shot \ {x} : shot'[y] = shot[y]
    BY <1>4 DEF ShotUsesLease, BeginShot, TypeOK
  <2>2. \A other \in SessionId : SameTerms(other)
    BY <1>4, RenewedKeeps DEF ShotUsesLease
  <2>. QED
    BY <2>1, <2>2 DEF TemporaryLeaseHasShot, LiveIds, Live, SameTerms
<1>5. ASSUME NEW x \in Shot, ShotPolls(x)
      PROVE  TemporaryLeaseHasShot'
  <2>1. shot[x].sid \in SessionId
    BY <1>5 DEF ShotPolls, TypeOK, ShotCall
  <2>2. shot' = shot /\ \A other \in SessionId : SameTerms(other)
    BY <1>5, <2>1, RenewedKeeps DEF ShotPolls
  <2>. QED
    BY <1>2, <2>2 DEF SameTerms, Live
<1>6. ASSUME NEW x \in Shot, ShotRequests(x)
      PROVE  TemporaryLeaseHasShot'
  <2>1. shot[x] \in ShotCall
    BY <1>6 DEF ShotRequests, TypeOK
  <2>2. /\ shot[x].sid \in SessionId
        /\ [shot[x] EXCEPT !.phase = "requested"] \in ShotCall
    BY <2>1 DEF ShotCall
  <2>3. \A other \in SessionId : SameTerms(other)
    BY <1>6, <2>2, RenewedKeeps DEF ShotRequests
  <2>4. shot'[x] = [shot[x] EXCEPT !.phase = "requested"]
    BY <1>6 DEF ShotRequests, TypeOK
  <2>5. /\ shot'[x] # Idle /\ shot'[x].temp = shot[x].temp /\ shot'[x].sid = shot[x].sid
        /\ \A y \in Shot \ {x} : shot'[y] = shot[y]
    BY <1>6, <2>1, <2>2, <2>4, IdleAssumption DEF ShotRequests, TypeOK, ShotCall
  <2>. QED
    BY <2>3, <2>5 DEF TemporaryLeaseHasShot, LiveIds, Live, SameTerms
<1>7. ASSUME NEW x \in Shot, shot[x] # Idle, ShotEnds(x)
      PROVE  TemporaryLeaseHasShot'
  <2>1. \A y \in Shot \ {x} : shot'[y] = shot[y]
    BY <1>7 DEF ShotEnds, TypeOK
  <2>2. \A sid \in SessionId : Live(sid)' =>
          /\ Live(sid) /\ sessions'[sid].owner = sessions[sid].owner
          /\ shot[x].temp => sid # shot[x].sid
    BY <1>7 DEF ShotEnds, TemporaryDropped, Dropped, Live, Blank
  <2>. QED
    BY <2>1, <2>2 DEF TemporaryLeaseHasShot, LiveIds
<1>8. CASE ShotStep
  BY <1>8, <1>3, <1>4, <1>5, <1>6, <1>7 DEF ShotStep, ShotGivesUp, ShotReply
<1>9. ASSUME NEW ids, sessions' = Dropped(ids), shot' = shot
      PROVE  TemporaryLeaseHasShot'
  <2>1. \A sid \in SessionId : Live(sid)' => Live(sid) /\ sessions'[sid] = sessions[sid]
    BY <1>9 DEF Dropped, Live, Blank
  <2>. QED
    BY <1>2, <1>9, <2>1
<1>10. ASSUME NEW sid \in SessionId, AcquireReturns(sid)
       PROVE  TemporaryLeaseHasShot'
  BY <1>2, <1>10 DEF AcquireReturns, Live, TypeOK, Session
<1>11. ASSUME NEW c \in Client, NEW sid \in SessionId, Renew(c, sid)
       PROVE  TemporaryLeaseHasShot'
  BY <1>2, <1>11, RenewedKeeps DEF Renew, SameTerms, Live
<1>12. CASE ClientStep
  BY <1>2, <1>12, <1>1, <1>9, <1>10, <1>11 DEF ClientStep, Release, Crash, Live
<1>13. CASE EditStep
  <2>1. shot' = shot
    BY <1>13 DEF EditStep, UpsertRead, CheckLeases, UpsertSave, UpsertFinish, DeleteRead,
         DeleteSave, DeleteFinish, SetGroupModeRead, SetGroupMode, SetSensorModeRead,
         SetSensorModeGroups, SetSensorMode, ForgetRead, ForgetSave, ForgetFinish, Enroll,
         Replace, Begin
  <2>. QED
    BY <1>2, <1>13, <2>1, EditStepKeeps DEF Live
<1>14. CASE Tick
  BY <1>2, <1>14 DEF Tick, Live, TypeOK, Session
<1>15. CASE Publish \/ ExpireCaptureSessions \/ UNCHANGED vars
  BY <1>2, <1>9, <1>15 DEF Publish, ExpireCaptureSessions, vars, Live
<1>. QED
  BY <1>8, <1>12, <1>13, <1>14, <1>15 DEF Next

(* The lease a one-shot takes for itself never outlives the call that took *)
(* it, whatever other calls, clients and the expiry timer do meanwhile.    *)
THEOREM TemporaryLeases == Spec => []TemporaryLeaseHasShot
<1>1. Init => TemporaryLeaseHasShot
  BY DEF Init, TemporaryLeaseHasShot, LiveIds, Live, Blank
<1>2. TypeOK /\ TypeOK' /\ TemporaryLeaseHasShot /\ [Next]_vars => TemporaryLeaseHasShot'
  BY TemporaryStep
<1>. QED
  BY <1>1, <1>2, TypeCorrect, PTL DEF Spec
----------------------------------------------------------------------------
(* Leases are honoured                                                     *)

(* What the three tests of _publish_state compute for a leased camera.     *)
Honours(a, lease) ==
  /\ a.reserved
  /\ lease.kind = "sensor" => a.mode = "capture"
  /\ lease.groups \cap a.groups # {} =>
       /\ a.mode = "capture"
       /\ lease.interval > 0 => a.interval \in 1..lease.interval

LEMMA AssignmentHonours ==
  ASSUME TypeOK, NEW sid \in SessionId, Live(sid), NEW s \in sessions[sid].sensors,
         AssignmentOf(s) # NoAssignment
  PROVE  Honours(AssignmentOf(s), sessions[sid])
<1>. DEFINE lease == sessions[sid]
<1>1. s \in Sensor /\ lease \in Session
  BY DEF TypeOK, Session
<1>2. /\ AssignmentOf(s).mode = AssignedMode(s)
      /\ AssignmentOf(s).groups = AssignedGroups(s)
      /\ AssignmentOf(s).reserved = CamerasCaptureOwned({s})
      /\ AssignmentOf(s).interval = AssignedInterval(s)
  BY DEF AssignmentOf
<1>3. CamerasCaptureOwned({s})
  BY DEF CamerasCaptureOwned, LiveIds
<1>4. lease.kind = "sensor" => AssignedMode(s) = "capture"
  BY DEF AssignedMode, DirectlyOwned, LiveIds
<1>5. ASSUME NEW g \in lease.groups \cap AssignedGroups(s)
      PROVE  /\ AssignedMode(s) = "capture"
             /\ lease.interval > 0 => AssignedInterval(s) \in 1..lease.interval
  <2>1. g \in Group /\ g \in GroupsForSensor(s) /\ sid \in SessionForGroup(g)
    BY <1>1 DEF AssignedGroups, GroupsForSensor, SessionForGroup, LiveIds, Session
  <2>2. RequestedGroupMode(g) = "capture"
    BY <2>1 DEF RequestedGroupMode
  <2>3. AssignedMode(s) = "capture"
    BY <2>1, <2>2 DEF AssignedMode
  <2>4. ASSUME lease.interval > 0
        PROVE  AssignedInterval(s) \in 1..lease.interval
    <3>1. lease.interval \in Nat
      BY <1>1 DEF Session, Interval
    <3>2. SourcesTypeOK
      BY SourcesTyped
    <3>3. /\ RequestedGroupInterval(g) \in Nat
          /\ RequestedGroupInterval(g) \in 1..lease.interval
      BY <2>1, <2>4, <3>2, RequestedIntervalType
    <3>4. AssignedInterval(s) \in 1..RequestedGroupInterval(g)
      BY <1>1, <2>3, <3>2, <3>3, AssignedIntervalBound
    <3>. QED
      BY <3>1, <3>3, <3>4
  <2>. QED
    BY <2>3, <2>4
<1>. QED
  BY <1>2, <1>3, <1>4, <1>5 DEF Honours

LEMMA HonouredStep ==
  ASSUME TypeOK, TypeOK', LeaseHonoured, [Next]_vars
  PROVE  LeaseHonoured'
<1>. SUFFICES ASSUME NEW sid \in SessionId, NEW s \in sessions'[sid].sensors,
                     Live(sid)', sessions'[sid].told, published'[s] # NoAssignment
              PROVE  Honours(published'[s], sessions'[sid])
  BY DEF LeaseHonoured, Honours
<1>1. s \in Sensor
  BY DEF TypeOK, Session
<1>2. ASSUME published' = published, sessions'[sid] = sessions[sid]
      PROVE  Honours(published'[s], sessions'[sid])
  BY <1>2 DEF LeaseHonoured, Honours, Live
<1>3. CASE Granted
  <2>1. PICK new \in SessionId, owner \in Owner, r \in AnyLeaseRequest :
          CreateCaptureSession(new, owner, r)
    BY <1>3 DEF Granted
  <2>2. ~sessions'[new].told
    BY <2>1 DEF CreateCaptureSession, TypeOK
  <2>3. sessions'[sid] = sessions[sid]
    BY <2>1, <2>2 DEF CreateCaptureSession, TypeOK
  <2>. QED
    BY <1>2, <1>3, <2>3 DEF Granted
<1>4. CASE Ended
  <2>1. PICK ids \in SUBSET SessionId : sessions' = Dropped(ids)
    BY <1>4 DEF Ended
  <2>2. sessions'[sid] = sessions[sid]
    BY <2>1 DEF Dropped, Live, Blank
  <2>. QED
    BY <1>2, <1>4, <2>2 DEF Ended
<1>5. CASE Shown
  <2>1. SameTerms(sid) /\ published'[s] = AssignmentOf(s)
    BY <1>1, <1>5 DEF Shown, PublishState
  <2>2. Live(sid) /\ s \in sessions[sid].sensors
    BY <2>1 DEF SameTerms, Live
  <2>3. Honours(AssignmentOf(s), sessions[sid])
    BY <2>1, <2>2, AssignmentHonours
  <2>. QED
    BY <2>1, <2>3 DEF Honours, SameTerms
<1>6. CASE Kept
  <2>1. SameTerms(sid) /\ SameTold(sid) /\ published' = published
    BY <1>6 DEF Kept
  <2>2. /\ Live(sid) /\ sessions[sid].told /\ s \in sessions[sid].sensors
        /\ published[s] # NoAssignment
    BY <2>1 DEF SameTerms, SameTold, Live
  <2>3. Honours(published[s], sessions[sid])
    BY <2>2 DEF LeaseHonoured, Honours
  <2>. QED
    BY <2>1, <2>3 DEF Honours, SameTerms
<1>. QED
  BY <1>3, <1>4, <1>5, <1>6, LeaseSteps

(* From the answer of acquire_capture_session to the end of the lease, the *)
(* providers see its cameras reserved, those leased by name or through a   *)
(* group in capture mode, and no cadence slower than the one asked for,    *)
(* for every mix of leases, group edits, mode changes and replacements.    *)
THEOREM LeasesHonoured == Spec => []LeaseHonoured
<1>1. Init => LeaseHonoured
  BY DEF Init, LeaseHonoured, Live, Blank
<1>2. TypeOK /\ TypeOK' /\ LeaseHonoured /\ [Next]_vars => LeaseHonoured'
  BY HonouredStep
<1>. QED
  BY <1>1, <1>2, TypeCorrect, PTL DEF Spec

----------------------------------------------------------------------------
(* Edits and intact leases                                                 *)

(* The leases that were intact on the group when an edit read its members: *)
(* one that is still live has a camera among those read, and when the lease *)
(* test is passed none of them is live any more.                           *)
TestedEdits ==
  \A e \in Editor :
    (edit[e] # Idle /\ edit[e].req.op \in {"upsert", "delete"}) =>
      \A sid \in edit[e].intact :
        /\ sessions[sid].status # "unused"
        /\ (edit[e].stage = "read" /\ Live(sid)) =>
             edit[e].cameras \cap sessions[sid].sensors # {}
        /\ edit[e].stage = "checked" => ~Live(sid)

(* A name that was used is never granted again, and a lease keeps its      *)
(* cameras.                                                                *)
LEMMA OldLeaseKeepsCameras ==
  ASSUME TypeOK, [Next]_vars, NEW sid \in SessionId, sessions[sid].status # "unused"
  PROVE  /\ sessions'[sid].status # "unused"
         /\ Live(sid)' => Live(sid) /\ sessions'[sid].sensors = sessions[sid].sensors
<1>1. CASE Granted
  BY <1>1 DEF Granted, CreateCaptureSession, Live, TypeOK
<1>2. CASE Ended
  BY <1>2 DEF Ended, Dropped, Blank, Live
<1>3. CASE Shown \/ Kept
  BY <1>3 DEF Shown, Kept, SameTerms, Live
<1>. QED
  BY <1>1, <1>2, <1>3, LeaseSteps

(* What _upsert_group and _delete_group read meets every intact lease.     *)
LEMMA ReadMeetsIntact ==
  ASSUME TypeOK, NEW r \in AnyEditRequest, NEW sid \in IntactLeases(r.group),
         NEW cameras, members[r.group] \subseteq cameras
  PROVE  /\ sid \in SessionId /\ sessions[sid].status # "unused"
         /\ cameras \cap sessions[sid].sensors # {}
<1>1. sid \in SessionId /\ Live(sid) /\ r.group \in sessions[sid].groups /\ Intact(sid)
  BY DEF IntactLeases, SessionForGroup, LiveIds
<1>2. members[r.group] # {} /\ members[r.group] \subseteq sessions[sid].sensors
  BY <1>1 DEF Intact
<1>. QED
  BY <1>1, <1>2 DEF Live

LEMMA BeginTested ==
  ASSUME TypeOK, TestedEdits, NEW e \in Editor, NEW r \in EditRequest,
         NEW cameras \in SUBSET Sensor, Begin(e, r, cameras),
         r.op \in {"upsert", "delete"} => members[r.group] \subseteq cameras
  PROVE  TestedEdits'
<1>1. r \in AnyEditRequest
  BY ConstantsAssumption
<1>2. /\ edit'[e] = [stage |-> "read", req |-> r, cameras |-> cameras,
                    intact |-> IntactLeases(r.group)]
      /\ \A f \in Editor \ {e} : edit'[f] = edit[f]
      /\ sessions' = sessions
  BY DEF Begin, TypeOK
<1>3. r.op \in {"upsert", "delete"} =>
        \A sid \in IntactLeases(r.group) :
          sessions[sid].status # "unused" /\ cameras \cap sessions[sid].sensors # {}
  BY <1>1, ReadMeetsIntact
<1>. QED
  BY <1>2, <1>3 DEF TestedEdits, Live

LEMMA TestedStep ==
  ASSUME TypeOK, TestedEdits, [Next]_vars
  PROVE  TestedEdits'
<1>1. ASSUME NEW e \in Editor, NEW sid \in SessionId, edit[e] # Idle, sid \in edit[e].intact,
             edit[e].req.op \in {"upsert", "delete"}
      PROVE  /\ sessions'[sid].status # "unused"
             /\ (edit[e].stage = "read" /\ Live(sid)') =>
                  edit[e].cameras \cap sessions'[sid].sensors # {}
             /\ edit[e].stage = "checked" => ~Live(sid)'
  <2>1. /\ sessions[sid].status # "unused"
        /\ (edit[e].stage = "read" /\ Live(sid)) =>
             edit[e].cameras \cap sessions[sid].sensors # {}
        /\ edit[e].stage = "checked" => ~Live(sid)
    BY <1>1 DEF TestedEdits
  <2>. QED
    BY <2>1, OldLeaseKeepsCameras
<1>2. ASSUME \A e \in Editor :
               \/ edit'[e] = edit[e]
               \/ edit'[e] = Idle
               \/ /\ edit[e] # Idle
                  /\ edit'[e].intact = edit[e].intact /\ edit'[e].req = edit[e].req
                  /\ edit'[e].stage \in {"ungrouped", "saved"}
      PROVE  TestedEdits'
  <2>. SUFFICES ASSUME NEW e \in Editor, edit'[e] # Idle,
                       edit'[e].req.op \in {"upsert", "delete"},
                       NEW sid \in edit'[e].intact
                PROVE  /\ sessions'[sid].status # "unused"
                       /\ (edit'[e].stage = "read" /\ Live(sid)') =>
                            edit'[e].cameras \cap sessions'[sid].sensors # {}
                       /\ edit'[e].stage = "checked" => ~Live(sid)'
    BY DEF TestedEdits
  <2>1. edit[e] # Idle /\ edit[e].req.op \in {"upsert", "delete"} /\ sid \in edit[e].intact
    BY <1>2
  <2>2. sid \in SessionId
    BY <2>1 DEF TypeOK, Edit
  <2>. QED
    BY <1>1, <1>2, <2>1, <2>2
<1>3. ASSUME NEW e \in Editor, NEW r \in EditRequest,
             \/ UpsertRead(e, r) \/ DeleteRead(e, r) \/ SetGroupModeRead(e, r)
             \/ SetSensorModeRead(e, r) \/ ForgetRead(e, r)
      PROVE  TestedEdits'
  <2>1. PICK cameras \in SUBSET Sensor :
          /\ Begin(e, r, cameras)
          /\ r.op \in {"upsert", "delete"} => members[r.group] \subseteq cameras
    BY <1>3, ReadType DEF UpsertRead, DeleteRead, SetGroupModeRead, SetSensorModeRead,
         ForgetRead, AffectedBy
  <2>. QED
    BY <2>1, BeginTested
<1>4. ASSUME NEW e \in Editor, CheckLeases(e)
      PROVE  TestedEdits'
  <2>1. edit[e] # Idle /\ edit[e] \in Edit /\ edit[e].stage = "read" /\ sessions' = sessions
    BY <1>4 DEF CheckLeases, TypeOK
  <2>2. CASE Answer(e)
    BY <1>2, <2>2 DEF Answer, TypeOK
  <2>3. CASE ~CamerasCaptureOwned(edit[e].cameras) /\ Reaches(e, "checked")
    <3>1. edit'[e] = [edit[e] EXCEPT !.stage = "checked"]
      BY <2>1, <2>3, ReachesType
    <3>2. /\ edit'[e].intact = edit[e].intact /\ edit'[e].req = edit[e].req
          /\ edit'[e].stage = "checked"
          /\ \A f \in Editor \ {e} : edit'[f] = edit[f]
      BY <2>1, <2>3, <3>1 DEF Reaches, Edit, TypeOK
    <3>3. edit[e].intact \subseteq SessionId
      BY <2>1 DEF Edit
    <3>4. \A sid \in SessionId : Live(sid) => edit[e].cameras \cap sessions[sid].sensors = {}
      BY <2>3 DEF CamerasCaptureOwned, LiveIds
    <3>. QED
      BY <2>1, <3>2, <3>3, <3>4 DEF TestedEdits, Live
  <2>. QED
    BY <1>4, <2>2, <2>3 DEF CheckLeases
<1>5. ASSUME NEW e \in Editor,
             \/ UpsertSave(e) \/ UpsertFinish(e) \/ DeleteSave(e) \/ DeleteFinish(e)
             \/ SetGroupMode(e) \/ SetSensorModeGroups(e) \/ SetSensorMode(e)
             \/ ForgetSave(e) \/ ForgetFinish(e)
      PROVE  TestedEdits'
  <2>1. \/ Answer(e)
        \/ edit[e] # Idle /\ \E stage \in {"ungrouped", "saved"} : Reaches(e, stage)
    BY <1>5 DEF UpsertSave, UpsertFinish, DeleteSave, DeleteFinish, SetGroupMode,
         SetSensorModeGroups, SetSensorMode, ForgetSave, ForgetFinish, Serving
  <2>2. CASE Answer(e)
    BY <1>2, <2>2 DEF Answer, TypeOK
  <2>3. ASSUME edit[e] # Idle, NEW stage \in {"ungrouped", "saved"}, Reaches(e, stage)
        PROVE  TestedEdits'
    <3>1. edit'[e] = [edit[e] EXCEPT !.stage = stage] /\ edit[e] \in Edit
      BY <2>3, ReachesType DEF TypeOK
    <3>2. /\ edit'[e].intact = edit[e].intact /\ edit'[e].req = edit[e].req
          /\ edit'[e].stage \in {"ungrouped", "saved"}
          /\ \A f \in Editor \ {e} : edit'[f] = edit[f]
      BY <2>3, <3>1 DEF Reaches, Edit, TypeOK
    <3>. QED
      BY <1>2, <2>3, <3>2
  <2>. QED
    BY <2>1, <2>2, <2>3
<1>6. CASE edit' = edit
  BY <1>2, <1>6
<1>7. CASE EditStep
  BY <1>3, <1>4, <1>5, <1>6, <1>7 DEF EditStep, Enroll, Replace
<1>8. CASE ~EditStep
  <2>1. edit' = edit
    BY <1>8 DEF Next, vars, ClientStep, ShotStep, Acquire, AcquireReturns, Renew, Release,
         Crash, ShotTakesLease, ShotUsesLease, ShotPolls, ShotRequests, ShotGivesUp,
         ShotReply, ShotEnds, Publish, ExpireCaptureSessions, Tick
  <2>. QED
    BY <1>6, <2>1
<1>. QED
  BY <1>7, <1>8

(* One step: an intact lease that lives on is broken only by an edit that  *)
(* read before it was intact, or by a replacement.                         *)
LEMMA BreakStep ==
  ASSUME TypeOK, TestedEdits, [Next]_vars, NEW sid \in LiveIds,
         Intact(sid), Live(sid)', ~Intact(sid)'
  PROVE  \/ \E e \in Editor : edit[e] # Idle /\ edit[e]' # edit[e] /\ sid \notin edit[e].intact
         \/ catalog' # catalog
<1>1. sid \in SessionId /\ sessions[sid].status # "unused"
  BY DEF LiveIds, Live
<1>2. /\ sessions'[sid].groups = sessions[sid].groups
      /\ sessions'[sid].sensors = sessions[sid].sensors
  <2>1. CASE Granted
    BY <1>1, <2>1 DEF Granted, CreateCaptureSession, TypeOK
  <2>2. CASE Ended
    BY <1>1, <2>2 DEF Ended, Dropped, Blank, Live
  <2>3. CASE Shown \/ Kept
    BY <1>1, <2>3 DEF Shown, Kept, SameTerms
  <2>. QED
    BY <2>1, <2>2, <2>3, LeaseSteps
<1>3. PICK g \in sessions[sid].groups : members'[g] # members[g]
  BY <1>2 DEF Intact
<1>4. g \in Group
  BY <1>1 DEF TypeOK, Session
<1>5. ASSUME NEW e \in Editor, UpsertSave(e) \/ DeleteSave(e)
      PROVE  edit[e] # Idle /\ edit[e]' # edit[e] /\ sid \notin edit[e].intact
  <2>1. /\ edit[e] # Idle /\ edit[e].stage = "checked"
        /\ edit[e].req.op \in {"upsert", "delete"}
        /\ edit[e].req.group = g
        /\ Reaches(e, "saved")
    BY <1>3, <1>4, <1>5 DEF UpsertSave, DeleteSave, Serving, TypeOK
  <2>2. edit'[e].stage = "saved"
    BY <2>1, ReachesType
  <2>3. edit'[e] # edit[e]
    BY <2>1, <2>2
  <2>4. sid \notin edit[e].intact
    BY <2>1 DEF TestedEdits, LiveIds
  <2>. QED
    BY <2>1, <2>3, <2>4
<1>6. ASSUME NEW pair \in ReplacePair, Replace(pair[1], pair[2])
      PROVE  catalog' # catalog
  <2>1. pair[1] \in Sensor /\ pair[2] \in Sensor
    BY ConstantsAssumption
  <2>2. pair[1] # pair[2]
    BY <1>6 DEF Replace
  <2>3. catalog'[pair[1]] = "retired" /\ catalog[pair[1]] = "enrolled"
    BY <1>6, <2>1, <2>2 DEF Replace, TypeOK
  <2>. QED
    BY <2>3
<1>7. CASE EditStep
  BY <1>3, <1>5, <1>6, <1>7 DEF EditStep, UpsertRead, CheckLeases, UpsertFinish, DeleteRead,
       DeleteFinish, SetGroupModeRead, SetGroupMode, SetSensorModeRead, SetSensorModeGroups,
       SetSensorMode, ForgetRead, ForgetSave, ForgetFinish, Enroll, Begin
<1>8. CASE ~EditStep
  <2>1. members' = members
    BY <1>8 DEF Next, vars, ClientStep, ShotStep, Acquire, AcquireReturns, Renew, Release,
         Crash, ShotTakesLease, ShotUsesLease, ShotPolls, ShotRequests, ShotGivesUp,
         ShotReply, ShotEnds, Publish, ExpireCaptureSessions, Tick
  <2>. QED
    BY <1>3, <2>1
<1>. QED
  BY <1>7, <1>8

(* The promise of "cannot edit a group while its cameras are in use", with *)
(* its limits: the groups of an intact lease change under it only through  *)
(* an edit that had read the group before the lease was intact on it, or a *)
(* replacement.                                                            *)
THEOREM LeasesBrokenOnlyByOlderEdits == Spec => LeaseBrokenOnlyByOlderEdit
<1>1. Init => TestedEdits
  BY DEF Init, TestedEdits
<1>2. TypeOK /\ TestedEdits /\ [Next]_vars => TestedEdits'
  BY TestedStep
<1>3. TypeOK /\ TestedEdits /\ [Next]_vars =>
        [\A sid \in LiveIds :
           (Intact(sid) /\ Live(sid)' /\ ~Intact(sid)') =>
             \/ \E e \in Editor : edit[e] # Idle /\ edit[e]' # edit[e] /\ sid \notin edit[e].intact
             \/ catalog' # catalog]_vars
  BY BreakStep
<1>. QED
  BY <1>1, <1>2, <1>3, TypeCorrect, PTL DEF Spec, LeaseBrokenOnlyByOlderEdit
----------------------------------------------------------------------------
(* The manager implements CameraLease                                      *)

LeaseState(sid) ==
  CASE sessions[sid].status = "unused" -> "free"
    [] sessions[sid].status = "live"   -> "held"
    [] sessions[sid].status = "ended"  -> "over"

leaseState == [sid \in SessionId |-> LeaseState(sid)]
leaseCameras == [sid \in SessionId |-> sessions[sid].sensors]
leaseSole == [sid \in SessionId |-> sessions[sid].exclusive]
reservedShown == {s \in Sensor : published[s].reserved}

LEMMA StateOfLease ==
  ASSUME TypeOK, NEW sid \in SessionId
  PROVE  /\ LeaseState(sid) = "free" <=> sessions[sid].status = "unused"
         /\ LeaseState(sid) = "held" <=> sessions[sid].status = "live"
         /\ LeaseState(sid) = "over" <=> sessions[sid].status = "ended"
<1>1. sessions[sid].status \in {"unused", "live", "ended"}
  BY DEF TypeOK, Session
<1>. QED
  BY <1>1 DEF LeaseState

LEMMA HeldAreLive == TypeOK => Promise!Held = LiveIds
<1>. SUFFICES ASSUME TypeOK
              PROVE  Promise!Held = LiveIds
  OBVIOUS
<1>1. Promise!Held = {sid \in SessionId : leaseState[sid] = "held"}
  BY DEF Promise!Held, leaseState, LeaseState
<1>. QED
  BY <1>1, StateOfLease DEF leaseState, LiveIds, Live

LEMMA PromiseInit == Init => Promise!Init
<1>. SUFFICES ASSUME Init
              PROVE  Promise!Init
  OBVIOUS
<1>1. \A sid \in SessionId : sessions[sid] = Blank("unused")
  BY DEF Init
<1>2. leaseState = [sid \in SessionId |-> "free"]
  BY <1>1 DEF leaseState, LeaseState, Blank
<1>3. /\ leaseCameras = [sid \in SessionId |-> {}]
      /\ leaseSole = [sid \in SessionId |-> FALSE]
  <2>1. \A sid \in SessionId : sessions[sid].sensors = {}
    BY <1>1 DEF Blank
  <2>2. \A sid \in SessionId : sessions[sid].exclusive = FALSE
    BY <1>1 DEF Blank
  <2>3. leaseCameras = [sid \in SessionId |-> {}]
    BY <2>1 DEF leaseCameras
  <2>4. leaseSole = [sid \in SessionId |-> FALSE]
    BY <2>2, Zenon DEF leaseSole
  <2>. QED
    BY <2>3, <2>4
<1>4. \A s \in Sensor : ~AssignmentOf(s).reserved
  BY <1>1 DEF AssignmentOf, NoAssignment, CamerasCaptureOwned, LiveIds, Live, Blank
<1>5. reservedShown = {}
  BY <1>4 DEF Init, reservedShown
<1>. QED
  BY <1>2, <1>3, <1>5 DEF Promise!Init, leaseState, LeaseState, leaseCameras, leaseSole,
     reservedShown

LEMMA GrantStep ==
  ASSUME TypeOK, TypeOK', Granted
  PROVE  Promise!Next
<1>1. PICK sid \in SessionId, owner \in Owner, r \in AnyLeaseRequest :
        CreateCaptureSession(sid, owner, r)
  BY DEF Granted
<1>2. PICK S \in SUBSET Sensor : S = SessionTargets(r)
  BY TargetsType
<1>3. /\ sessions[sid].status = "unused"
      /\ sessions'[sid].status = "live"
      /\ sessions'[sid].sensors = S
      /\ sessions'[sid].exclusive = r.exclusive
      /\ \A other \in SessionId \ {sid} : sessions'[other] = sessions[other]
  BY <1>1, <1>2 DEF CreateCaptureSession, TypeOK
<1>4. \A other \in LiveIds : S \cap sessions[other].sensors # {} =>
        ~r.exclusive /\ ~sessions[other].exclusive
  BY <1>1, <1>2 DEF CreateCaptureSession, Conflict, LiveIds
<1>5. \A other \in Promise!Held : Promise!Compatible(S, r.exclusive, other)
  BY <1>4, HeldAreLive DEF Promise!Compatible, LiveIds
<1>6. leaseState[sid] = "free"
  BY <1>3, StateOfLease DEF leaseState
<1>7. leaseState' = [leaseState EXCEPT ![sid] = "held"]
  <2>1. LeaseState(sid)' = "held"
    BY <1>3 DEF LeaseState
  <2>2. \A other \in SessionId \ {sid} : LeaseState(other)' = LeaseState(other)
    BY <1>3 DEF LeaseState
  <2>. QED
    BY <2>1, <2>2 DEF leaseState
<1>8. /\ leaseCameras' = [leaseCameras EXCEPT ![sid] = S]
      /\ leaseSole' = [leaseSole EXCEPT ![sid] = r.exclusive]
  BY <1>3 DEF leaseCameras, leaseSole
<1>9. reservedShown' = reservedShown
  BY DEF Granted, reservedShown
<1>10. S # {}
  BY <1>1, <1>2 DEF CreateCaptureSession
<1>11. Promise!Grant(sid, S, r.exclusive)
  BY <1>5, <1>6, <1>7, <1>8, <1>9, <1>10
  DEF Promise!Grant, leaseState, LeaseState, leaseCameras, leaseSole, reservedShown
<1>12. r.exclusive \in BOOLEAN
  BY DEF AnyLeaseRequest
<1>. QED
  BY <1>11, <1>12 DEF Promise!Next

LEMMA EndStep ==
  ASSUME TypeOK, Ended
  PROVE  Promise!Next \/ UNCHANGED Promise!vars
<1>1. PICK ids \in SUBSET SessionId : sessions' = Dropped(ids)
  BY DEF Ended
<1>0. PICK ending \in SUBSET SessionId : ending = ids \cap LiveIds
  OBVIOUS
<1>2. reservedShown' = reservedShown
  BY DEF Ended, reservedShown
<1>3. \A sid \in SessionId :
        sessions'[sid] = IF sid \in ending THEN Blank("ended") ELSE sessions[sid]
  BY <1>0, <1>1 DEF Dropped, LiveIds
<1>4. ending \subseteq Promise!Held
  BY <1>0, HeldAreLive
<1>5. leaseState' = [sid \in SessionId |-> IF sid \in ending THEN "over" ELSE leaseState[sid]]
  <2>1. \A sid \in ending : LeaseState(sid)' = "over"
    BY <1>3 DEF LeaseState, Blank
  <2>2. \A sid \in SessionId \ ending : LeaseState(sid)' = LeaseState(sid)
    BY <1>3 DEF LeaseState
  <2>. QED
    BY <2>1, <2>2 DEF leaseState
<1>6. /\ leaseCameras' = [sid \in SessionId |-> IF sid \in ending THEN {} ELSE leaseCameras[sid]]
      /\ leaseSole' = [sid \in SessionId |-> IF sid \in ending THEN FALSE ELSE leaseSole[sid]]
  <2>1. \A sid \in ending : sessions'[sid].sensors = {}
    BY <1>3 DEF Blank
  <2>2. \A sid \in ending : sessions'[sid].exclusive = FALSE
    BY <1>3 DEF Blank
  <2>3. leaseCameras' = [sid \in SessionId |-> IF sid \in ending THEN {} ELSE leaseCameras[sid]]
    BY <1>3, <2>1 DEF leaseCameras
  <2>4. leaseSole' = [sid \in SessionId |-> IF sid \in ending THEN FALSE ELSE leaseSole[sid]]
    BY <1>3, <2>2 DEF leaseSole
  <2>. QED
    BY <2>3, <2>4
<1>7. CASE ending = {}
  <2>1. leaseState' = leaseState /\ leaseCameras' = leaseCameras /\ leaseSole' = leaseSole
    BY <1>5, <1>6, <1>7 DEF leaseState, leaseCameras, leaseSole
  <2>. QED
    BY <1>2, <2>1 DEF Promise!vars, leaseState, LeaseState, leaseCameras, leaseSole, reservedShown
<1>8. CASE ending # {}
  <2>1. Promise!End(ending)
    BY <1>2, <1>4, <1>5, <1>6, <1>8
    DEF Promise!End, leaseState, LeaseState, leaseCameras, leaseSole, reservedShown
  <2>. QED
    BY <2>1 DEF Promise!Next
<1>. QED
  BY <1>7, <1>8

LEMMA SameTermsStutter ==
  ASSUME \A sid \in SessionId : SameTerms(sid)
  PROVE  leaseState' = leaseState /\ leaseCameras' = leaseCameras /\ leaseSole' = leaseSole
<1>1. \A sid \in SessionId : LeaseState(sid)' = LeaseState(sid)
  BY DEF SameTerms, LeaseState
<1>2. leaseState' = leaseState
  BY <1>1 DEF leaseState
<1>3. leaseCameras' = leaseCameras
  BY DEF SameTerms, leaseCameras
<1>4. leaseSole' = leaseSole
  BY DEF SameTerms, leaseSole
<1>. QED
  BY <1>2, <1>3, <1>4

LEMMA ShowStep ==
  ASSUME TypeOK, Shown
  PROVE  Promise!Next
<1>1. leaseState' = leaseState /\ leaseCameras' = leaseCameras /\ leaseSole' = leaseSole
  BY SameTermsStutter DEF Shown
<1>2. reservedShown' = {s \in Sensor : AssignmentOf(s).reserved}
  BY DEF Shown, PublishState, reservedShown
<1>3. ASSUME NEW s \in Sensor, AssignmentOf(s).reserved
      PROVE  \E sid \in LiveIds : s \in sessions[sid].sensors
  BY <1>3 DEF AssignmentOf, NoAssignment, CamerasCaptureOwned
<1>4. reservedShown' \subseteq Promise!HeldCameras
  BY <1>2, <1>3, HeldAreLive DEF Promise!HeldCameras, LiveIds
<1>5. PICK S \in SUBSET Sensor : S = reservedShown'
  BY <1>2
<1>6. Promise!Show(S)
  BY <1>1, <1>4, <1>5
  DEF Promise!Show, leaseState, LeaseState, leaseCameras, leaseSole, reservedShown
<1>. QED
  BY <1>6 DEF Promise!Next

LEMMA PromiseStep ==
  ASSUME TypeOK, TypeOK', [Next]_vars
  PROVE  [Promise!Next]_(Promise!vars)
<1>1. CASE Kept
  <2>1. leaseState' = leaseState /\ leaseCameras' = leaseCameras /\ leaseSole' = leaseSole
    BY <1>1, SameTermsStutter DEF Kept
  <2>2. reservedShown' = reservedShown
    BY <1>1 DEF Kept, reservedShown
  <2>. QED
    BY <2>1, <2>2 DEF Promise!vars, leaseState, LeaseState, leaseCameras, leaseSole,
       reservedShown
<1>. QED
  BY <1>1, GrantStep, EndStep, ShowStep, LeaseSteps

(* Groups, targets, one-shots, edits and timers aside, the manager is a    *)
(* lease service: a lease is granted once, compatible with those held,     *)
(* keeps its cameras to its end, is never granted again, and no camera is  *)
(* ever shown to a provider as reserved when no lease holds it.            *)
THEOREM KeepsPromise == Spec => KeepsLeasePromise
<1>1. Init => Promise!Init
  BY PromiseInit
<1>2. TypeOK /\ TypeOK' /\ [Next]_vars => [Promise!Next]_(Promise!vars)
  BY PromiseStep
<1>. QED
  BY <1>1, <1>2, TypeCorrect, PTL DEF Spec, KeepsLeasePromise, Promise!Spec
============================================================================
