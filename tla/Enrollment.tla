------------------------------ MODULE Enrollment ------------------------------
(***************************************************************************)
(* Enrolling, replacing and moving cameras (vixel_manager/manager_node.py):*)
(* the goals of operators, the automation that enrolls new cameras by      *)
(* itself, the claims that keep goals apart, the provider that is awaited  *)
(* between the allocation of an address and the save of the enrolment.     *)
(*                                                                         *)
(* The goals run interleaved on the executor's threads: another goal, an   *)
(* operator's edit, a camera plugged elsewhere may come between any two    *)
(* steps.  The registry's edits are atomic here (Registry has their        *)
(* steps); one that validation refuses fails its goal and changes nothing. *)
(***************************************************************************)
EXTENDS Inventory

CONSTANTS
  Approved,   \* networks the machine file approves
  Automatic,  \* those of them that enroll by themselves
  Requests,   \* the addresses operators ask for, 0 for any
  FirstSeen,  \* [camera -> network] of the cameras connected at the start
  Job,        \* goals in flight at once
  MaxGoals,   \* bound: goals of operators
  MaxEvents   \* bound: cables moved, other edits, provisioning that fails

Nowhere == "nowhere"

ASSUME ApprovedAssumption ==
  /\ Nowhere \notin Network
  /\ Automatic \subseteq Approved /\ Approved \subseteq Network
  /\ Requests \subseteq Address \cup {0}
  /\ FirstSeen \in Partial(Camera, Network)

VARIABLES
  inv,        \* registry.inventory
  observed,   \* [camera -> the network it is seen on], Nowhere if unseen
  job,        \* the goals in flight
  enrollment_active,          \* sensor IDs being enrolled
  enrollment_network_active,  \* networks being enrolled on
  placement_active,           \* sensor IDs being replaced or moved
  auto_enroll_inflight,       \* [camera -> network] of the automation's goals
  retry_after,                \* cameras the automation leaves alone for now
  unanswered, \* enrollments whose provider will never answer
  goals, events

vars == <<inv, observed, job, enrollment_active, enrollment_network_active,
          placement_active, auto_enroll_inflight, retry_after, unanswered,
          goals, events>>
claims == <<enrollment_active, enrollment_network_active, placement_active>>
autoVars == <<auto_enroll_inflight, retry_after>>
bounds == <<goals, events>>

NoSource == <<"none">>
NoPlacement == [network |-> Nowhere, address |-> 0]

Kind == {"enroll", "replace", "move"}
Step == {"sent", "claim", "reserve", "provision", "save", "ended"}

NoJob == [kind |-> "none"]
Goal(kind, c, source, n, requested, auto) ==
  [kind |-> kind, camera |-> c, source |-> source, network |-> n,
   requested |-> requested, auto |-> auto, step |-> "sent",
   seen |-> Nowhere, at |-> NoPlacement, success |-> FALSE]

\* Slots are interchangeable: a new goal takes a fixed one of the free.
FreeSlots == {j \in Job : job[j] = NoJob}
Slot == CHOOSE j \in FreeSlots : TRUE

At(j, step) == job[j] # NoJob /\ job[j].step = step

\* Goals between the allocation of their address and the end of their save.
Reserved(j) == At(j, "provision") \/ At(j, "save")

IdOf(c) == sensor_id_for_observation(inv, c)
Enrolled(c) == IdOf(c) \in DOMAIN inv.sensors
Ids(g) == {IdOf(g.camera)} \cup (IF g.source = NoSource THEN {} ELSE {g.source})

\* Nothing is enrolled yet, and the first sightings are in.
Init ==
  /\ observed = [c \in Camera |-> IF c \in DOMAIN FirstSeen THEN FirstSeen[c] ELSE Nowhere]
  /\ inv = [sensors |-> <<>>, groups |-> <<>>, modes |-> MachineMode,
            known |-> [k \in {new_sensor_id(c) : c \in DOMAIN FirstSeen} |->
                         [camera |-> k[2], provider |-> "genicam", state |-> "observed"]]]
  /\ job = [j \in Job |-> NoJob]
  /\ enrollment_active = {} /\ enrollment_network_active = {} /\ placement_active = {}
  /\ auto_enroll_inflight = <<>> /\ retry_after = {} /\ unanswered = {}
  /\ goals = 0 /\ events = 0

(***************************************************************************)
(* The cables and the operator's other edits                               *)
(***************************************************************************)

\* A sighting, or the expiry of the last one, as the provider reports it.
Plug(c, n) ==
  /\ events < MaxEvents /\ observed[c] # n
  /\ observed' = [observed EXCEPT ![c] = n]
  /\ inv' = IF n = Nowhere THEN inv ELSE record_observation(inv, c)
  /\ events' = events + 1
  /\ UNCHANGED <<job, claims, autoVars, unanswered, goals>>

Edit(may, after) ==
  /\ events < MaxEvents
  /\ may /\ Valid(after)
  /\ inv' = Normalized(after)
  /\ events' = events + 1
  /\ UNCHANGED <<observed, job, claims, autoVars, unanswered, goals>>

_set_port_mode(n, mode) ==
  Edit(MaySetPortMode(inv, n, mode) /\ inv.modes[n] # mode, set_port_mode(inv, n, mode))

\* An online camera is archived only when the operator forces it; both may be.
_forget_sensor(s) == Edit(MayForget(inv, s), forget(inv, s))

(***************************************************************************)
(* Automation                                                              *)
(***************************************************************************)

Unavailable(c) ==
  /\ IdOf(c) \in DOMAIN inv.known
  /\ inv.known[IdOf(c)].state \in {"archived", "retired"}

HasRoom(n) ==
  /\ inv.modes[n] = "direct" => OnNetwork(inv, n) = {}
  /\ Cardinality(OnNetwork(inv, n)) < port_capacity(inv, n)

\* What the automation is there to enroll.
Eligible(c) ==
  /\ observed[c] \in Automatic
  /\ ~Enrolled(c) /\ ~Unavailable(c)
  /\ HasRoom(observed[c])

\* A pass starts at most one goal per network; that its view of the inventory
\* may be old by then shows in the goal, which checks everything again.
_reconcile_automation(c) ==
  /\ Eligible(c)
  /\ c \notin DOMAIN auto_enroll_inflight /\ c \notin retry_after
  /\ observed[c] \notin Range(auto_enroll_inflight)
  /\ auto_enroll_inflight' = Put(auto_enroll_inflight, c, observed[c])
  /\ FreeSlots # {}
  /\ job' = [job EXCEPT ![Slot] = Goal("enroll", c, NoSource, observed[c], 0, TRUE)]
  /\ UNCHANGED <<inv, observed, claims, retry_after, unanswered, bounds>>

\* The goal's result, or its rejection, reaches the automation: its claim is
\* released, and a camera that failed is left alone for thirty seconds.
Released(j) ==
  /\ auto_enroll_inflight' = Drop(auto_enroll_inflight, job[j].camera)
  /\ job' = [job EXCEPT ![j] = NoJob]

(* Only a goal that succeeded gives the automation's claim back.            *)
FinishedClaimKept(j) ==
  /\ At(j, "ended")
  /\ job' = [job EXCEPT ![j] = NoJob]
  /\ auto_enroll_inflight' = IF job[j].success THEN Drop(auto_enroll_inflight, job[j].camera)
                             ELSE auto_enroll_inflight
  /\ retry_after' = IF job[j].success THEN retry_after \ {job[j].camera}
                    ELSE retry_after \cup {job[j].camera}
  /\ UNCHANGED <<inv, observed, claims, unanswered, bounds>>

_auto_enroll_finished(j) ==
  /\ At(j, "ended")
  /\ Released(j)
  /\ retry_after' = IF job[j].success THEN retry_after \ {job[j].camera}
                    ELSE retry_after \cup {job[j].camera}
  /\ UNCHANGED <<inv, observed, claims, unanswered, bounds>>

RetryExpires(c) ==
  /\ c \in retry_after
  /\ retry_after' = retry_after \ {c}
  /\ UNCHANGED <<inv, observed, job, claims, auto_enroll_inflight, unanswered, bounds>>

(***************************************************************************)
(* Goals: sent, accepted or rejected, claimed, reserved, provisioned and   *)
(* saved.  Enrolling claims the camera and then its network; a placement   *)
(* claims the sensors it names.                                            *)
(***************************************************************************)

Enrolling(j) == job[j] # NoJob /\ job[j].kind = "enroll"
Wanted(g, seen) == IF g.network = Nowhere THEN seen ELSE g.network

Accepts(g) ==
  /\ observed[g.camera] # Nowhere
  /\ g.kind = "enroll" =>
       observed[g.camera] \in Approved /\ Wanted(g, observed[g.camera]) = observed[g.camera]

\* An operator's goal that is rejected leaves nothing behind.
SendGoal(kind, c, source, n, requested) ==
  LET g == Goal(kind, c, source, n, requested, FALSE)
  IN  /\ goals < MaxGoals /\ Accepts(g)
      /\ FreeSlots # {}
      /\ job' = [job EXCEPT ![Slot] = [g EXCEPT !.step = "claim"]]
      /\ goals' = goals + 1
      /\ UNCHANGED <<inv, observed, claims, autoVars, unanswered, events>>

AcceptGoal(j) ==
  /\ At(j, "sent") /\ Accepts(job[j])
  /\ job' = [job EXCEPT ![j].step = "claim"]
  /\ UNCHANGED <<inv, observed, claims, autoVars, unanswered, bounds>>

RejectGoal(j) ==
  /\ At(j, "sent") /\ ~Accepts(job[j])
  /\ Released(j)
  /\ retry_after' = retry_after \cup {job[j].camera}
  /\ UNCHANGED <<inv, observed, claims, unanswered, bounds>>

(* A refused goal gives up the network it asked for, claimed or not.        *)
FinishByRequest(j, success) ==
  LET g == job[j]
  IN  /\ enrollment_active' =
           enrollment_active \ (IF g.kind = "enroll" THEN {IdOf(g.camera)} ELSE {})
      /\ enrollment_network_active' = enrollment_network_active \
           (IF g.kind = "enroll" THEN {g.network, g.at.network} ELSE {})
      /\ placement_active' = placement_active \
           (IF g.kind # "enroll" /\ g.step # "claim" THEN Ids(g) ELSE {})
      /\ job' = [job EXCEPT ![j] =
                   IF g.auto THEN [g EXCEPT !.step = "ended", !.success = success]
                   ELSE NoJob]

\* The finally clause.  An enrollment gives up the claim of its camera even
\* when it was refused because another enrollment holds it.
Finish(j, success) ==
  LET g == job[j]
  IN  /\ enrollment_active' =
           enrollment_active \ (IF g.kind = "enroll" THEN {IdOf(g.camera)} ELSE {})
      /\ enrollment_network_active' = enrollment_network_active \
           (IF g.kind = "enroll" THEN {g.at.network} ELSE {})
      /\ placement_active' = placement_active \
           (IF g.kind # "enroll" /\ g.step # "claim" THEN Ids(g) ELSE {})
      /\ job' = [job EXCEPT ![j] =
                   IF g.auto THEN [g EXCEPT !.step = "ended", !.success = success]
                   ELSE NoJob]

(* A placement is compared by the camera it names, not by its source.       *)
DuplicateCamera(g) == IF g.kind = "enroll" THEN IdOf(g.camera) \in enrollment_active
                      ELSE IdOf(g.camera) \in placement_active

Duplicate(g) == IF g.kind = "enroll" THEN IdOf(g.camera) \in enrollment_active
                ELSE Ids(g) \cap placement_active # {}

Claim(j) ==
  /\ At(j, "claim")
  /\ ~Duplicate(job[j]) /\ observed[job[j].camera] # Nowhere
  /\ IF Enrolling(j)
       THEN /\ enrollment_active' = enrollment_active \cup {IdOf(job[j].camera)}
            /\ UNCHANGED placement_active
       ELSE /\ placement_active' = placement_active \cup Ids(job[j])
            /\ UNCHANGED enrollment_active
  /\ job' = [job EXCEPT ![j].step = "reserve", ![j].seen = observed[job[j].camera]]
  /\ UNCHANGED <<inv, observed, enrollment_network_active, autoVars, unanswered, bounds>>

ClaimRefused(j) ==
  /\ At(j, "claim")
  /\ Duplicate(job[j]) \/ observed[job[j].camera] = Nowhere
  /\ Finish(j, FALSE)
  /\ UNCHANGED <<inv, observed, autoVars, unanswered, bounds>>

\* A sensor is online when its camera is on the network it is enrolled on.
Online(s) == observed[inv.sensors[s].camera] = inv.sensors[s].at.network

\* The placements a goal may be given; none when one of its checks fails.
EnrollPlaces(g) ==
  IF \/ Enrolled(g.camera)
     \/ g.seen \notin Approved \/ Wanted(g, g.seen) # g.seen
     \/ g.seen \in enrollment_network_active
  THEN {} ELSE Allocations(inv, g.seen, g.requested)

(* The address of a replacement is looked up only when it is saved.         *)
ReplaceWithoutPlace(g) ==
  {at \in {NoPlacement : s \in {g.source} \cap DOMAIN inv.sensors} :
     ~Online(g.source)}

ReplacePlaces(g) ==
  {at \in {inv.sensors[s].at : s \in {g.source} \cap DOMAIN inv.sensors} :
     /\ at.network = g.seen /\ g.seen \in Approved
     /\ inv.modes[at.network] = "direct"
     /\ ~Online(g.source)}

Moved(g) == IF g.source = NoSource THEN IdOf(g.camera) ELSE g.source

MovePlaces(g) ==
  IF /\ g.seen \in Approved /\ g.network = g.seen
     /\ Moved(g) \in DOMAIN inv.sensors
     /\ inv.sensors[Moved(g)].at.network # g.network
  THEN Allocations(inv, g.network, 0) ELSE {}

Places(g) == CASE g.kind = "enroll" -> EnrollPlaces(g)
               [] g.kind = "replace" -> ReplacePlaces(g)
               [] g.kind = "move" -> MovePlaces(g)

\* What led to the placement is not read again.
Reserve(j) ==
  /\ At(j, "reserve")
  /\ \E at \in Places(job[j]) :
       /\ job' = [job EXCEPT ![j].step = "provision", ![j].at = at, ![j].seen = Nowhere,
                            ![j].network = Nowhere, ![j].requested = 0]
       /\ enrollment_network_active' = enrollment_network_active \cup
            (IF Enrolling(j) THEN {at.network} ELSE {})
  /\ UNCHANGED <<inv, observed, enrollment_active, placement_active, autoVars, unanswered,
                 bounds>>

ReserveRefused(j) ==
  /\ At(j, "reserve") /\ Places(job[j]) = {}
  /\ Finish(j, FALSE)
  /\ UNCHANGED <<inv, observed, autoVars, unanswered, bounds>>

\* The provider wrote the camera's address, or could not.
Provisioned(j) ==
  /\ At(j, "provision")
  /\ job' = [job EXCEPT ![j].step = "save"]
  /\ UNCHANGED <<inv, observed, claims, autoVars, unanswered, bounds>>

ProvisionFails(j) ==
  /\ At(j, "provision") /\ events < MaxEvents
  /\ events' = events + 1
  /\ Finish(j, FALSE)
  /\ UNCHANGED <<inv, observed, autoVars, unanswered, goals>>

\* The answer is awaited without a deadline: when the provider dies during the
\* call, the goal never takes another step.  It keeps what it claimed, and the
\* automation's claim of it is never released.
NeverAnswered(j) ==
  /\ At(j, "provision")
  /\ job' = [job EXCEPT ![j] = NoJob]
  /\ unanswered' = unanswered \cup
       (IF Enrolling(j) THEN {[camera |-> job[j].camera, network |-> job[j].at.network,
                               auto |-> job[j].auto]} ELSE {})
  /\ UNCHANGED <<inv, observed, claims, autoVars, bounds>>

\* The inventory a goal asks the registry to save.
MaySave(g) == CASE g.kind = "enroll" -> MayEnroll(inv, g.camera)
                [] g.kind = "replace" -> MayReplace(inv, g.source, g.camera)
                [] g.kind = "move" -> MayMove(inv, Moved(g))
Saved(g) == CASE g.kind = "enroll" -> enroll(inv, g.camera, g.at)
              [] g.kind = "replace" -> replace_sensor(inv, g.source, g.camera)
              [] g.kind = "move" -> move_sensor(inv, Moved(g), g.at)

(* The inventory is edited without being checked again.                     *)
SaveUnchecked(j) ==
  /\ At(j, "save") /\ MaySave(job[j])
  /\ inv' = Normalized(Saved(job[j]))
  /\ Finish(j, TRUE)
  /\ UNCHANGED <<observed, autoVars, unanswered, bounds>>

Save(j) ==
  /\ At(j, "save") /\ MaySave(job[j]) /\ Valid(Saved(job[j]))
  /\ inv' = Normalized(Saved(job[j]))
  /\ Finish(j, TRUE)
  /\ UNCHANGED <<observed, autoVars, unanswered, bounds>>

SaveRefused(j) ==
  /\ At(j, "save") /\ ~(MaySave(job[j]) /\ Valid(Saved(job[j])))
  /\ Finish(j, FALSE)
  /\ UNCHANGED <<inv, observed, autoVars, unanswered, bounds>>

JobStep(j) ==
  \/ AcceptGoal(j)
  \/ RejectGoal(j)
  \/ Claim(j)
  \/ ClaimRefused(j)
  \/ Reserve(j)
  \/ ReserveRefused(j)
  \/ Provisioned(j)
  \/ ProvisionFails(j)
  \/ NeverAnswered(j)
  \/ Save(j)
  \/ SaveRefused(j)
  \/ _auto_enroll_finished(j)

Operator ==
  \/ \E c \in Camera, n \in Network \cup {Nowhere}, a \in Requests :
       SendGoal("enroll", c, NoSource, n, a)
  \/ \E c \in Camera, s \in DOMAIN inv.sensors : SendGoal("replace", c, s, Nowhere, 0)
  \/ \E c \in Camera, s \in DOMAIN inv.sensors \cup {NoSource}, n \in Network :
       SendGoal("move", c, s, n, 0)
  \/ \E n \in Network, mode \in Mode : _set_port_mode(n, mode)
  \/ \E s \in SensorId : _forget_sensor(s)

Next ==
  \/ \E c \in Camera, n \in Network \cup {Nowhere} : Plug(c, n)
  \/ Operator
  \/ \E c \in Camera : _reconcile_automation(c)
  \/ \E c \in Camera : RetryExpires(c)
  \/ \E j \in Job : JobStep(j)

(***************************************************************************)
(* Fairness.  The executor runs every goal up to the call of its provider  *)
(* and from the answer to its end; the automation's timer fires every      *)
(* second and completes its pass; thirty seconds pass.  Nothing is assumed *)
(* of the provider: NeverAnswered is as fair a way on as an answer.        *)
(***************************************************************************)
Fairness ==
  /\ \A j \in Job : WF_vars(JobStep(j))
  /\ \A c \in Camera : WF_vars(_reconcile_automation(c)) /\ WF_vars(RetryExpires(c))

Spec == Init /\ [][Next]_vars
LiveSpec == Spec /\ Fairness

(***************************************************************************)
(* Properties                                                              *)
(***************************************************************************)

GoalType ==
  [kind: Kind, camera: Camera, source: SensorId \cup {NoSource},
   network: Network \cup {Nowhere}, requested: Address \cup {0}, auto: BOOLEAN,
   step: Step, seen: Network \cup {Nowhere}, at: Placement \cup {NoPlacement},
   success: BOOLEAN]

\* Every variable stays in its set, and a goal past its reservation has a
\* placement.
TypeOK ==
  /\ InventoryType(inv)
  /\ observed \in [Camera -> Network \cup {Nowhere}]
  /\ job \in [Job -> GoalType \cup {NoJob}]
  /\ \A j \in Job : Reserved(j) => job[j].at \in Placement
  /\ enrollment_active \subseteq SensorId /\ placement_active \subseteq SensorId
  /\ enrollment_network_active \subseteq Network
  /\ auto_enroll_inflight \in Partial(Camera, Network)
  /\ retry_after \subseteq Camera
  /\ unanswered \subseteq [camera: Camera, network: Network, auto: BOOLEAN]

\* No two enrollments hold an address of one network at a time, whatever was
\* refused in between: the claim is kept from the allocation to the save, and
\* for good by one that is never answered.
EnrollmentsExclusive ==
  \A j \in Job : Enrolling(j) /\ Reserved(j) =>
    /\ \A k \in Job : j # k /\ Enrolling(k) /\ Reserved(k) =>
         job[j].at.network # job[k].at.network
    /\ \A u \in unanswered : job[j].at.network # u.network

\* Goals that hold their claim of the sensors they replace or move.
Placing(j) == /\ job[j] # NoJob /\ ~Enrolling(j)
              /\ job[j].step \in {"reserve", "provision", "save"}

\* No sensor is replaced or moved by two goals at a time.
PlacementsExclusive ==
  \A j, k \in Job :
    j # k /\ Placing(j) /\ Placing(k) => Ids(job[j]) \cap Ids(job[k]) = {}

\* Two enrolled cameras never share an address and a camera is never enrolled
\* twice, although a move and an enrollment may be given the same address and
\* one camera may be enrolled and placed at once: the loser fails.
AddressesDistinct == SensorsDistinct(inv)

\* The automation has nothing more to wait for: an enrollment whose provider
\* will never answer holds the camera's network, or the camera itself when the
\* automation started it.
GivenUp(c) ==
  \E u \in unanswered : u.network = observed[c] \/ (u.auto /\ u.camera = c)

\* Automation never gives a camera up: one that stays connected, enrollable
\* and with room on its port is not left waiting for ever, whatever goals
\* were rejected, refused or failed before - unless the provider died during
\* an enrollment of this camera by the automation, or during any enrollment
\* on its network: that claim is never given back.
NoCameraLeftOut == \A c \in Camera : []<>(~Eligible(c)) \/ <>[]GivenUp(c)

\* docs/networking.md: a direct port is reserved for one enrolled camera.
DirectPortReserved ==
  \A n \in Network : inv.modes[n] = "direct" => Cardinality(OnNetwork(inv, n)) <= 1
=============================================================================
