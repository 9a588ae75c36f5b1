-------------------------- MODULE CaptureSessions --------------------------
(***************************************************************************)
(* Capture sessions of the inventory manager (vixel_manager,               *)
(* manager_node.py): leases on cameras, the operating mode they impose, the *)
(* provider assignments published from them, and the operator requests     *)
(* (group edits, mode changes, archiving, replacement) that are refused     *)
(* while cameras are leased.                                               *)
(*                                                                         *)
(* The node runs its callbacks on several executor threads.  Leases live   *)
(* under the node's lock, the inventory under the registry's own lock.  An *)
(* edit reads the inventory without a lock, looks at the leases under the  *)
(* first lock, releases it, and then writes under the second: read, check  *)
(* and write are separate actions here.                                    *)
(*                                                                         *)
(* Time is relative: a lease holds the number of ticks it has left.         *)
(***************************************************************************)
EXTENDS Integers, FiniteSets

CONSTANTS
  Sensor,        \* camera identities
  Group,         \* synchronization group names
  Client,        \* owners of leases: the recorder, the gateway, ROS controllers
  Temporary,     \* owner of the lease a one-shot takes for itself
  SessionId,     \* uuid4 names: a name is never used twice
  Editor,        \* executor threads that serve operator requests
  Shot,          \* one-shot captures being served at once
  TTL,           \* capture_session_ttl_ms, in ticks of the expiry timer
  DefaultMode,   \* preview when start_preview is set, idle otherwise
  Idle,          \* no request in this thread
  LeaseRequest,  \* the lease requests clients send
  EditRequest,   \* the edits operators send
  ReplacePair,   \* the replacements operators confirm: <<old, new>>
  InitialGroups  \* sync_groups of the inventory file

OperatingMode == {"idle", "preview", "capture"}
Interval == Nat

AnyLeaseRequest ==
  [kind : {"group", "sensor"}, groups : SUBSET Group, sensors : SUBSET Sensor,
   interval : Interval, exclusive : BOOLEAN]

EditOp == {"upsert", "delete", "group_mode", "sensor_mode", "forget"}
AnyEditRequest ==
  [op : EditOp, group : Group, members : SUBSET Sensor, sensor : Sensor,
   mode : OperatingMode]

ASSUME ConstantsAssumption ==
  /\ TTL \in Nat \ {0}
  /\ DefaultMode \in {"idle", "preview"}
  /\ Temporary \notin Client
  /\ LeaseRequest \subseteq AnyLeaseRequest
  /\ EditRequest \subseteq AnyEditRequest
  /\ ReplacePair \subseteq Sensor \X Sensor
  /\ InitialGroups \in [Group -> SUBSET Sensor]

VARIABLES
  catalog,    \* known_sensors' state: "known", "enrolled" or "retired"
  members,    \* sync_groups; a group without members is not in the inventory
  groupMode,  \* group_modes; "unset" is a missing key
  sensorMode, \* sensor_modes; "unset" is a missing key
  sessions,   \* capture_sessions, with the names not used yet and no more used
  published,  \* the last ProviderAssignment of each camera
  edit,       \* the operator request each editor thread is serving
  shot,       \* the one-shot capture each service call is serving
  alive       \* the clients that have not crashed

vars == <<catalog, members, groupMode, sensorMode, sessions, published, edit,
          shot, alive>>
registryVars == <<catalog, members>>
modeVars == <<groupMode, sensorMode>>

Owner == Client \cup {Temporary}

Session ==
  [status : {"unused", "live", "ended"}, owner : Owner, kind : {"group", "sensor"},
   groups : SUBSET Group, sensors : SUBSET Sensor, interval : Interval,
   exclusive : BOOLEAN, left : 0..TTL, told : BOOLEAN]

Blank(status) ==
  [status |-> status, owner |-> Temporary, kind |-> "group", groups |-> {},
   sensors |-> {}, interval |-> 0, exclusive |-> FALSE, left |-> 0, told |-> FALSE]

Assignment ==
  [mode : OperatingMode \cup {"none"}, groups : SUBSET Group, reserved : BOOLEAN,
   interval : Interval]

NoAssignment == [mode |-> "none", groups |-> {}, reserved |-> FALSE, interval |-> 0]

Edit ==
  [stage : {"read", "checked", "ungrouped", "saved"}, req : EditRequest,
   cameras : SUBSET Sensor, intact : SUBSET SessionId]

ShotCall ==
  [sid : SessionId, temp : BOOLEAN, phase : {"waiting", "requested"},
   kind : {"group", "sensor"}, target : Group \cup Sensor]

ASSUME IdleAssumption == Idle \notin Edit \cup ShotCall

----------------------------------------------------------------------------
(* Reading the state                                                       *)

enrolled == {s \in Sensor : catalog[s] = "enrolled"}
Live(sid) == sessions[sid].status = "live"
LiveIds == {sid \in SessionId : Live(sid)}

(* The leases that name the group.                                         *)
SessionForGroup(g) == {sid \in LiveIds : g \in sessions[sid].groups}

CamerasCaptureOwned(cameras) ==
  \E sid \in LiveIds : cameras \cap sessions[sid].sensors # {}

RequestedGroupMode(g) ==
  IF SessionForGroup(g) # {} THEN "capture"
  ELSE IF groupMode[g] = "unset" THEN DefaultMode
  ELSE groupMode[g]

(* The slowest of the requested cadences.                                  *)
LargestPositive(intervals) ==
  LET positive == {i \in intervals : i > 0}
  IN  IF positive = {} THEN 0
      ELSE CHOOSE i \in positive : \A j \in positive : i >= j

(* Smallest positive interval of a set, zero when it has none.             *)
LeastPositive(intervals) ==
  LET positive == {i \in intervals : i > 0}
  IN  IF positive = {} THEN 0
      ELSE CHOOSE i \in positive : \A j \in positive : i <= j

RequestedGroupInterval(g) ==
  LeastPositive({sessions[sid].interval : sid \in SessionForGroup(g)})

GroupsForSensor(s) == {g \in Group : s \in members[g]}

(* A camera without an entry in sensor_modes has no default to fall back to*)
BaselineModeWithoutDefault(s) == sensorMode[s]

(* A camera without a group falls back to its own requested mode.          *)
BaselineMode(s) == IF sensorMode[s] = "unset" THEN DefaultMode ELSE sensorMode[s]

DirectlyOwned(s) ==
  \E sid \in LiveIds : sessions[sid].kind = "sensor" /\ s \in sessions[sid].sensors

AssignedMode(s) ==
  LET modes == {RequestedGroupMode(g) : g \in GroupsForSensor(s)}
  IN  IF "capture" \in modes \/ DirectlyOwned(s) THEN "capture"
      ELSE IF "preview" \in modes THEN "preview"
      ELSE IF modes # {} THEN "idle"
      ELSE BaselineMode(s)

(* A capturing camera advertises only the groups that asked for capture.   *)
AssignedGroups(s) ==
  IF AssignedMode(s) = "capture"
  THEN {g \in GroupsForSensor(s) : RequestedGroupMode(g) = "capture"}
  ELSE GroupsForSensor(s)

AssignedInterval(s) ==
  IF AssignedMode(s) = "capture"
  THEN LeastPositive({RequestedGroupInterval(g) : g \in AssignedGroups(s)})
  ELSE 0

AssignmentOf(s) ==
  IF s \in enrolled
  THEN [mode |-> AssignedMode(s), groups |-> AssignedGroups(s),
        reserved |-> CamerasCaptureOwned({s}), interval |-> AssignedInterval(s)]
  ELSE NoAssignment

(* The cameras a lease request names; {} when it is refused.               *)
SessionTargets(r) ==
  IF r.kind = "group"
  THEN IF \A g \in r.groups : members[g] # {}
       THEN UNION {members[g] : g \in r.groups} ELSE {}
  ELSE IF r.sensors \subseteq enrolled THEN r.sensors ELSE {}

(* The lease still says what it said when it was granted: each of its      *)
(* groups exists and all their members are among its cameras.              *)
Intact(sid) ==
  \A g \in sessions[sid].groups :
    members[g] # {} /\ members[g] \subseteq sessions[sid].sensors

----------------------------------------------------------------------------
(* Leases: each of these runs under the node's lock.                       *)

(* Only the requester's exclusiveness is looked at.                        *)
ConflictOneSided(r, cameras, sid) ==
  /\ Live(sid)
  /\ cameras \cap sessions[sid].sensors # {}
  /\ r.exclusive

Conflict(r, cameras, sid) ==
  /\ Live(sid)
  /\ cameras \cap sessions[sid].sensors # {}
  /\ r.exclusive \/ sessions[sid].exclusive

CreateCaptureSession(sid, owner, r) ==
  /\ sessions[sid].status = "unused"
  /\ SessionTargets(r) # {}
  /\ \A other \in SessionId : ~Conflict(r, SessionTargets(r), other)
  /\ sessions' = [sessions EXCEPT ![sid] =
       [status |-> "live", owner |-> owner, kind |-> r.kind,
        groups |-> IF r.kind = "group" THEN r.groups ELSE {},
        sensors |-> SessionTargets(r), interval |-> r.interval,
        exclusive |-> r.exclusive, left |-> TTL, told |-> FALSE]]

(* acquire_capture_session, and prepare_capture_groups for the recorder.   *)
Acquire(c, sid, r) ==
  /\ c \in alive
  /\ CreateCaptureSession(sid, c, r)
  /\ UNCHANGED <<catalog, members, groupMode, sensorMode, published, edit, shot, alive>>

(* Only the cameras of live leases are told anything.                      *)
PublishLeased ==
  published' = [s \in Sensor |->
    IF CamerasCaptureOwned({s}) THEN AssignmentOf(s) ELSE published[s]]

(* _publish_state, by the timer or at the end of any handler: computed and *)
(* sent under the node's lock, so assignments leave in lock order.         *)
PublishState == published' = [s \in Sensor |-> AssignmentOf(s)]

Publish ==
  /\ PublishState
  /\ UNCHANGED <<catalog, members, groupMode, sensorMode, sessions, edit, shot, alive>>

(* The acquiring handler publishes, then answers the caller.               *)
AcquireReturns(sid) ==
  /\ Live(sid)
  /\ ~sessions[sid].told
  /\ PublishState
  /\ sessions' = [sessions EXCEPT ![sid].told = TRUE]
  /\ UNCHANGED <<catalog, members, groupMode, sensorMode, edit, shot, alive>>

Renewed(sid) == [sessions EXCEPT ![sid].left = TTL]

(* A lease past its expiry that the timer has not swept yet is renewed too.*)
Renew(c, sid) ==
  /\ c \in alive
  /\ Live(sid) /\ sessions[sid].told /\ sessions[sid].owner = c
  /\ sessions' = Renewed(sid)
  /\ UNCHANGED <<catalog, members, groupMode, sensorMode, published, edit, shot, alive>>

(* A name that can be handed out again.                                    *)
DroppedForReuse(ids) ==
  [sid \in SessionId |-> IF sid \in ids /\ Live(sid) THEN Blank("unused") ELSE sessions[sid]]

Dropped(ids) ==
  [sid \in SessionId |-> IF sid \in ids /\ Live(sid) THEN Blank("ended") ELSE sessions[sid]]

Release(c, sid) ==
  /\ c \in alive
  /\ Live(sid) /\ sessions[sid].told /\ sessions[sid].owner = c
  /\ sessions' = Dropped({sid})
  /\ UNCHANGED <<catalog, members, groupMode, sensorMode, published, edit, shot, alive>>

(* A deadline that has to be passed, not reached.                          *)
ExpiredAfterDeadline == {sid \in LiveIds : sessions[sid].left < 0}

Expired == {sid \in LiveIds : sessions[sid].left = 0}

ExpireCaptureSessions ==
  /\ Expired # {}
  /\ sessions' = Dropped(Expired)
  /\ UNCHANGED <<catalog, members, groupMode, sensorMode, published, edit, shot, alive>>

(* One period of the expiry timer passes.                                  *)
Tick ==
  /\ \E sid \in LiveIds : sessions[sid].left > 0
  /\ sessions' = [sid \in SessionId |->
       IF sessions[sid].left > 0
       THEN [sessions[sid] EXCEPT !.left = @ - 1] ELSE sessions[sid]]
  /\ UNCHANGED <<catalog, members, groupMode, sensorMode, published, edit, shot, alive>>

Crash(c) ==
  /\ c \in alive
  /\ alive' = alive \ {c}
  /\ UNCHANGED <<catalog, members, groupMode, sensorMode, sessions, published, edit, shot>>

----------------------------------------------------------------------------
(* Operator requests.  A handler reads from the inventory, without a lock, *)
(* the cameras its edit would touch; then it looks for leases on those      *)
(* cameras under the node's lock; then it writes.                          *)

(* The intact leases on a group.                                           *)
IntactLeases(g) == {sid \in SessionForGroup(g) : Intact(sid)}

Begin(e, r, cameras) ==
  /\ edit[e] = Idle
  /\ edit' = [edit EXCEPT ![e] =
       [stage |-> "read", req |-> r, cameras |-> cameras,
        intact |-> IntactLeases(r.group)]]
  /\ UNCHANGED <<catalog, members, groupMode, sensorMode, sessions, published, shot, alive>>

Serving(e, op, stage) ==
  /\ edit[e] # Idle
  /\ edit[e].stage = stage
  /\ edit[e].req.op = op

Answer(e) == edit' = [edit EXCEPT ![e] = Idle]

Reaches(e, stage) == edit' = [edit EXCEPT ![e].stage = stage]

(* The lease test of every handler, on the cameras read before.            *)
CheckLeases(e) ==
  /\ edit[e] # Idle
  /\ edit[e].stage = "read"
  /\ IF CamerasCaptureOwned(edit[e].cameras) THEN Answer(e) ELSE Reaches(e, "checked")
  /\ UNCHANGED <<catalog, members, groupMode, sensorMode, sessions, published, shot, alive>>

(* Only the members asked for are looked at, not the ones being replaced.  *)
AffectedByNewMembersOnly(r) == r.members

AffectedBy(r) == r.members \cup members[r.group]

UpsertRead(e, r) ==
  /\ r.op = "upsert"
  /\ Begin(e, r, AffectedBy(r))

(* registry.upsert_group: validated, saved, or refused and rolled back.    *)
UpsertSave(e) ==
  /\ Serving(e, "upsert", "checked")
  /\ LET r == edit[e].req IN
     IF r.members # {} /\ r.members \subseteq enrolled
     THEN /\ members' = [members EXCEPT ![r.group] = r.members]
          /\ Reaches(e, "saved")
     ELSE /\ Answer(e)
          /\ UNCHANGED members
  /\ UNCHANGED <<catalog, groupMode, sensorMode, sessions, published, shot, alive>>

UpsertFinish(e) ==
  /\ Serving(e, "upsert", "saved")
  /\ LET g == edit[e].req.group IN
     groupMode' = [groupMode EXCEPT ![g] = IF @ = "unset" THEN DefaultMode ELSE @]
  /\ Answer(e)
  /\ UNCHANGED <<catalog, members, sensorMode, sessions, published, shot, alive>>

(* A group that is not in the inventory has no members to look at.         *)
DeleteRead(e, r) ==
  /\ r.op = "delete"
  /\ Begin(e, r, members[r.group])

DeleteSave(e) ==
  /\ Serving(e, "delete", "checked")
  /\ LET g == edit[e].req.group IN
     IF members[g] # {}
     THEN /\ members' = [members EXCEPT ![g] = {}]
          /\ Reaches(e, "saved")
     ELSE /\ Answer(e)
          /\ UNCHANGED members
  /\ UNCHANGED <<catalog, groupMode, sensorMode, sessions, published, shot, alive>>

DeleteFinish(e) ==
  /\ Serving(e, "delete", "saved")
  /\ groupMode' = [groupMode EXCEPT ![edit[e].req.group] = "unset"]
  /\ Answer(e)
  /\ UNCHANGED <<catalog, members, sensorMode, sessions, published, shot, alive>>

SetGroupModeRead(e, r) ==
  /\ r.op = "group_mode"
  /\ members[r.group] # {}
  /\ Begin(e, r, members[r.group])

SetGroupMode(e) ==
  /\ Serving(e, "group_mode", "checked")
  /\ groupMode' = [groupMode EXCEPT ![edit[e].req.group] = edit[e].req.mode]
  /\ Answer(e)
  /\ UNCHANGED <<catalog, members, sensorMode, sessions, published, shot, alive>>

SetSensorModeRead(e, r) ==
  /\ r.op = "sensor_mode"
  /\ r.sensor \in enrolled
  /\ Begin(e, r, {r.sensor})

(* The camera's groups are read after the lease test, without a lock.      *)
SetSensorModeGroups(e) ==
  /\ Serving(e, "sensor_mode", "checked")
  /\ IF GroupsForSensor(edit[e].req.sensor) = {} /\ edit[e].req.mode # "capture"
     THEN Reaches(e, "ungrouped") ELSE Answer(e)
  /\ UNCHANGED <<catalog, members, groupMode, sensorMode, sessions, published, shot, alive>>

SetSensorMode(e) ==
  /\ Serving(e, "sensor_mode", "ungrouped")
  /\ sensorMode' = [sensorMode EXCEPT ![edit[e].req.sensor] = edit[e].req.mode]
  /\ Answer(e)
  /\ UNCHANGED <<catalog, members, groupMode, sessions, published, shot, alive>>

ForgetRead(e, r) ==
  /\ r.op = "forget"
  /\ GroupsForSensor(r.sensor) = {}
  /\ Begin(e, r, {r.sensor})

(* registry.forget repeats the membership test under the registry's lock.  *)
ForgetSave(e) ==
  /\ Serving(e, "forget", "checked")
  /\ LET s == edit[e].req.sensor IN
     IF s \in enrolled /\ GroupsForSensor(s) = {}
     THEN /\ catalog' = [catalog EXCEPT ![s] = "known"]
          /\ Reaches(e, "saved")
     ELSE /\ Answer(e)
          /\ UNCHANGED catalog
  /\ UNCHANGED <<members, groupMode, sensorMode, sessions, published, shot, alive>>

ForgetFinish(e) ==
  /\ Serving(e, "forget", "saved")
  /\ sensorMode' = [sensorMode EXCEPT ![edit[e].req.sensor] = "unset"]
  /\ Answer(e)
  /\ UNCHANGED <<catalog, members, groupMode, sessions, published, shot, alive>>

(* registry.enroll, at the end of an enrollment.                           *)
Enroll(s) ==
  /\ catalog[s] = "known"
  /\ catalog' = [catalog EXCEPT ![s] = "enrolled"]
  /\ UNCHANGED <<members, groupMode, sensorMode, sessions, published, edit, shot, alive>>

(* registry.replace_sensor: the new camera takes the old one's place in    *)
(* its groups.  Nothing on this path looks at the leases.                  *)
Replace(old, new) ==
  /\ catalog[old] = "enrolled" /\ catalog[new] # "enrolled"
  /\ catalog' = [catalog EXCEPT ![old] = "retired", ![new] = "enrolled"]
  /\ members' = [g \in Group |->
       IF old \in members[g] THEN (members[g] \ {old}) \cup {new} ELSE members[g]]
  /\ UNCHANGED <<groupMode, sensorMode, sessions, published, edit, shot, alive>>

----------------------------------------------------------------------------
(* One-shot captures: capture_group and trigger_group.                     *)

Owns(sid, kind, target) ==
  /\ Live(sid)
  /\ \/ kind = "group" /\ target \in sessions[sid].groups
     \/ kind = "sensor" /\ sessions[sid].kind = "sensor" /\ target \in sessions[sid].sensors

ShotOwns(x) == Owns(shot[x].sid, shot[x].kind, shot[x].target)

OneTarget(kind, target) ==
  [kind |-> kind, groups |-> IF kind = "group" THEN {target} ELSE {},
   sensors |-> IF kind = "sensor" THEN {target} ELSE {}, interval |-> 0,
   exclusive |-> FALSE]

BeginShot(x, sid, temp, kind, target) ==
  shot' = [shot EXCEPT ![x] =
    [sid |-> sid, temp |-> temp, phase |-> "waiting", kind |-> kind, target |-> target]]

(* Without a session id the call takes a lease for itself.                 *)
ShotTakesLease(x, sid, kind, target) ==
  /\ shot[x] = Idle
  /\ CreateCaptureSession(sid, Temporary, OneTarget(kind, target))
  /\ BeginShot(x, sid, TRUE, kind, target)
  /\ UNCHANGED <<catalog, members, groupMode, sensorMode, published, edit, alive>>

ShotUsesLease(x, c, sid, kind, target) ==
  /\ shot[x] = Idle
  /\ c \in alive
  /\ sessions[sid].told /\ sessions[sid].owner = c
  /\ Owns(sid, kind, target)
  /\ sessions' = Renewed(sid)
  /\ BeginShot(x, sid, FALSE, kind, target)
  /\ UNCHANGED <<catalog, members, groupMode, sensorMode, published, edit, alive>>

(* Each round of the wait for readiness renews the lease.                  *)
ShotPolls(x) ==
  /\ shot[x] # Idle /\ shot[x].phase = "waiting"
  /\ ShotOwns(x) /\ sessions[shot[x].sid].told
  /\ sessions' = Renewed(shot[x].sid)
  /\ UNCHANGED <<catalog, members, groupMode, sensorMode, published, edit, shot, alive>>

(* The target is ready, the lease is looked up again, the provider called. *)
ShotRequests(x) ==
  /\ shot[x] # Idle /\ shot[x].phase = "waiting"
  /\ ShotOwns(x) /\ sessions[shot[x].sid].told
  /\ IF shot[x].kind = "group" THEN members[shot[x].target] # {}
     ELSE shot[x].target \in enrolled
  /\ sessions' = Renewed(shot[x].sid)
  /\ shot' = [shot EXCEPT ![x].phase = "requested"]
  /\ UNCHANGED <<catalog, members, groupMode, sensorMode, published, edit, alive>>

(* The lease of a one-shot that failed is left to its time-to-live.        *)
LeaseKept(x) == sessions

(* The finally clause: a temporary lease is dropped, if it is still there. *)
TemporaryDropped(x) ==
  IF shot[x].temp THEN Dropped({shot[x].sid}) ELSE sessions

ShotEnds(x) ==
  /\ sessions' = TemporaryDropped(x)
  /\ shot' = [shot EXCEPT ![x] = Idle]
  /\ UNCHANGED <<catalog, members, groupMode, sensorMode, published, edit, alive>>

(* The lease is gone, the target vanished, or 60 s passed.                 *)
ShotGivesUp(x) ==
  /\ shot[x] # Idle /\ shot[x].phase = "waiting"
  /\ ShotEnds(x)

(* The provider answered, or the call failed.                              *)
ShotReply(x) ==
  /\ shot[x] # Idle /\ shot[x].phase = "requested"
  /\ ShotEnds(x)

----------------------------------------------------------------------------

Init ==
  /\ catalog \in [Sensor -> {"known", "enrolled"}]
  /\ members = InitialGroups
  /\ \A g \in Group : members[g] \subseteq enrolled
  /\ groupMode = [g \in Group |-> "unset"]
  /\ sensorMode = [s \in Sensor |-> "unset"]
  /\ sessions = [sid \in SessionId |-> Blank("unused")]
  /\ published = [s \in Sensor |-> AssignmentOf(s)]
  /\ edit = [e \in Editor |-> Idle]
  /\ shot = [x \in Shot |-> Idle]
  /\ alive = Client

ClientStep ==
  \/ \E c \in Client, sid \in SessionId, r \in LeaseRequest : Acquire(c, sid, r)
  \/ \E sid \in SessionId : AcquireReturns(sid)
  \/ \E c \in Client, sid \in SessionId : Renew(c, sid)
  \/ \E c \in Client, sid \in SessionId : Release(c, sid)
  \/ \E c \in Client : Crash(c)

EditStep ==
  \/ \E e \in Editor, r \in EditRequest : UpsertRead(e, r)
  \/ \E e \in Editor : CheckLeases(e)
  \/ \E e \in Editor : UpsertSave(e)
  \/ \E e \in Editor : UpsertFinish(e)
  \/ \E e \in Editor, r \in EditRequest : DeleteRead(e, r)
  \/ \E e \in Editor : DeleteSave(e)
  \/ \E e \in Editor : DeleteFinish(e)
  \/ \E e \in Editor, r \in EditRequest : SetGroupModeRead(e, r)
  \/ \E e \in Editor : SetGroupMode(e)
  \/ \E e \in Editor, r \in EditRequest : SetSensorModeRead(e, r)
  \/ \E e \in Editor : SetSensorModeGroups(e)
  \/ \E e \in Editor : SetSensorMode(e)
  \/ \E e \in Editor, r \in EditRequest : ForgetRead(e, r)
  \/ \E e \in Editor : ForgetSave(e)
  \/ \E e \in Editor : ForgetFinish(e)
  \/ \E s \in Sensor : Enroll(s)
  \/ \E pair \in ReplacePair : Replace(pair[1], pair[2])

ShotStep ==
  \E x \in Shot :
    \/ \E sid \in SessionId, g \in Group : ShotTakesLease(x, sid, "group", g)
    \/ \E sid \in SessionId, s \in Sensor : ShotTakesLease(x, sid, "sensor", s)
    \/ \E c \in Client, sid \in SessionId, g \in Group : ShotUsesLease(x, c, sid, "group", g)
    \/ \E c \in Client, sid \in SessionId, s \in Sensor : ShotUsesLease(x, c, sid, "sensor", s)
    \/ ShotPolls(x)
    \/ ShotRequests(x)
    \/ ShotGivesUp(x)
    \/ ShotReply(x)

Next == ClientStep \/ EditStep \/ ShotStep \/ Publish \/ ExpireCaptureSessions \/ Tick

(* The manager's timers fire, its handlers run to their end, time passes.  *)
(* Nothing is assumed of clients, operators or providers.                  *)
Fairness ==
  /\ WF_vars(Tick)
  /\ WF_vars(ExpireCaptureSessions)
  /\ WF_vars(Publish)
  /\ \A sid \in SessionId : WF_vars(AcquireReturns(sid))
  /\ \A x \in Shot : WF_vars(ShotGivesUp(x))

Spec == Init /\ [][Next]_vars /\ Fairness

----------------------------------------------------------------------------
(* Invariants                                                              *)

TypeOK ==
  /\ catalog \in [Sensor -> {"known", "enrolled", "retired"}]
  /\ members \in [Group -> SUBSET Sensor]
  /\ groupMode \in [Group -> OperatingMode \cup {"unset"}]
  /\ sensorMode \in [Sensor -> OperatingMode \cup {"unset"}]
  /\ sessions \in [SessionId -> Session]
  /\ published \in [Sensor -> Assignment]
  /\ edit \in [Editor -> Edit \cup {Idle}]
  /\ shot \in [Shot -> ShotCall \cup {Idle}]
  /\ alive \subseteq Client

(* Two leases held at the same time share a camera only when neither is    *)
(* exclusive, whoever owns them and however they came about: acquire,      *)
(* prepare_capture_groups or a one-shot's own lease.                       *)
ExclusiveLease ==
  \A one, two \in SessionId :
    (one # two /\ Live(one) /\ Live(two) /\ sessions[one].exclusive)
      => sessions[one].sensors \cap sessions[two].sensors = {}

(* When acquire_capture_session has answered, and as long as the lease     *)
(* lives, every assignment the providers see of one of its cameras is      *)
(* reserved; a camera leased by name is in capture mode; a camera assigned *)
(* to a leased group is in capture mode at a cadence no slower than the    *)
(* one this lease asked for, whatever other leases and edits there are.    *)
LeaseHonoured ==
  \A sid \in SessionId : \A s \in sessions[sid].sensors :
    LET lease == sessions[sid]
        told  == published[s]
    IN  (Live(sid) /\ lease.told /\ told # NoAssignment) =>
          /\ told.reserved
          /\ lease.kind = "sensor" => told.mode = "capture"
          /\ lease.groups \cap told.groups # {} =>
               /\ told.mode = "capture"
               /\ lease.interval > 0 => told.interval \in 1..lease.interval

(* A temporary lease never outlives the one-shot that took it.             *)
TemporaryLeaseHasShot ==
  \A sid \in LiveIds : sessions[sid].owner = Temporary =>
    \E x \in Shot : shot[x] # Idle /\ shot[x].temp /\ shot[x].sid = sid

(* An exclusive lease has its cameras to itself: no group another lease    *)
(* drives has one of them as a member.                                     *)
ExclusiveMeansAlone ==
  \A one, two \in LiveIds :
    (one # two /\ sessions[one].exclusive) =>
      \A g \in sessions[two].groups : members[g] \cap sessions[one].sensors = {}

----------------------------------------------------------------------------
(* Action and liveness properties                                          *)

(* "cannot edit a group while its cameras are in use": the groups of an    *)
(* intact lease are changed or deleted only by an edit that had read the   *)
(* group's members before the lease existed or was intact (or by a         *)
(* replacement, which does not look at leases).  The lease may come after   *)
(* the edit's lease test, or before it on members the edit did not read.   *)
LeaseBrokenOnlyByOlderEdit ==
  [][\A sid \in LiveIds :
       (Intact(sid) /\ Live(sid)' /\ ~Intact(sid)') =>
         \/ \E e \in Editor : edit[e] # Idle /\ edit[e]' # edit[e] /\ sid \notin edit[e].intact
         \/ catalog' # catalog]_vars

(* "Expired leases are removed automatically, so crashed clients do not    *)
(* leave cameras stuck in capture mode": the leases of a client that       *)
(* crashed end.                                                            *)
CrashedClientLosesLeases ==
  \A c \in Client :
    (c \notin alive) ~> (\A sid \in LiveIds : sessions[sid].owner # c)

(* Once every client is gone and no one-shot runs, no provider is left     *)
(* with a reserved camera.                                                 *)
BaselineRestored ==
  (alive = {}) ~> (\A s \in Sensor : ~published[s].reserved)

(* The manager keeps the promises of CameraLease.                          *)
Promise == INSTANCE CameraLease WITH
  Camera  <- Sensor,
  Lease   <- SessionId,
  state   <- [sid \in SessionId |->
               CASE sessions[sid].status = "unused" -> "free"
                 [] sessions[sid].status = "live"   -> "held"
                 [] sessions[sid].status = "ended"  -> "over"],
  cameras <- [sid \in SessionId |-> sessions[sid].sensors],
  sole    <- [sid \in SessionId |-> sessions[sid].exclusive],
  shown   <- {s \in Sensor : published[s].reserved}

(* Every step of the manager is a step CameraLease allows, or changes      *)
(* nothing it speaks of: leases are granted compatible and only once, keep *)
(* their cameras to the end, and no stale reservation is ever published.   *)
KeepsLeasePromise == Promise!Spec
============================================================================
