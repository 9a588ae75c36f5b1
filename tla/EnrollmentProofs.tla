--------------------------- MODULE EnrollmentProofs ---------------------------
(***************************************************************************)
(* Theorems about Enrollment, for every set of cameras, ports, addresses   *)
(* and groups, any number of goals in flight and any number of events.     *)
(***************************************************************************)
EXTENDS Enrollment, InventoryProofs, TLAPS

(***************************************************************************)
(* The inductive invariant.  An enrollment between its allocation and its  *)
(* save holds its network, and for good when it is never answered; a        *)
(* placement past its claim holds its sensors;                             *)
(* what is given back in the finally clause must then be the goal's own,   *)
(* so a goal with nothing reserved has no placement to give back.  IDs do  *)
(* not change under the goals: no edit of this release makes up an old one.*)
(***************************************************************************)

OnlyNew(i) == \A k \in DOMAIN i.known : k[1] = "new"

InventoryInv ==
  /\ InventoryType(inv) /\ OnlyNew(inv)
  /\ SensorsDistinct(inv) /\ EnrolledAreKnown(inv)

AutomationInv ==
  /\ observed \in [Camera -> Network \cup {Nowhere}]
  /\ auto_enroll_inflight \in Partial(Camera, Network)
  /\ retry_after \subseteq Camera

(* Ids, without the inventory that never changes them.                     *)
Held(g) == {new_sensor_id(g.camera)} \cup (IF g.source = NoSource THEN {} ELSE {g.source})

GoalsType ==
  /\ job \in [Job -> GoalType \cup {NoJob}]
  /\ enrollment_active \subseteq SensorId /\ placement_active \subseteq SensorId
  /\ enrollment_network_active \subseteq Network
  /\ unanswered \subseteq [camera: Camera, network: Network, auto: BOOLEAN]

PlaceInv ==
  \A j \in Job : job[j] # NoJob =>
    /\ job[j].step \in {"sent", "claim", "reserve"} => job[j].at = NoPlacement
    /\ job[j].step \in {"provision", "save"} => job[j].at \in Placement

NetworkInv ==
  /\ \A j \in Job :
       Enrolling(j) /\ Reserved(j) => job[j].at.network \in enrollment_network_active
  /\ \A u \in unanswered : u.network \in enrollment_network_active
  /\ EnrollmentsExclusive

PlacementInv ==
  /\ \A j \in Job : Placing(j) => Held(job[j]) \subseteq placement_active
  /\ \A j, k \in Job :
       j # k /\ Placing(j) /\ Placing(k) => Held(job[j]) \cap Held(job[k]) = {}

GoalsInv == GoalsType /\ PlaceInv /\ NetworkInv /\ PlacementInv

IInv == InventoryInv /\ AutomationInv /\ GoalsInv

LEMMA NewId ==
  ASSUME NEW i, OnlyNew(i), NEW c \in Camera
  PROVE  sensor_id_for_observation(i, c) = new_sensor_id(c)
<1>1. <<"old", c>>[1] = "old" /\ "old" # "new"
  OBVIOUS
<1>. QED
  BY <1>1 DEF OnlyNew, sensor_id_for_observation

LEMMA IdsHeld ==
  ASSUME InventoryInv, NEW g \in GoalType
  PROVE  Ids(g) = Held(g) /\ IdOf(g.camera) = new_sensor_id(g.camera)
         /\ Held(g) \subseteq SensorId
<1>1. g.camera \in Camera /\ g.source \in SensorId \cup {NoSource}
  BY DEF GoalType
<1>2. IdOf(g.camera) = new_sensor_id(g.camera)
  BY <1>1, NewId DEF InventoryInv, IdOf
<1>3. new_sensor_id(g.camera) \in SensorId
  BY <1>1, IdOfObservation
<1>. QED
  BY <1>1, <1>2, <1>3 DEF Ids, Held

LEMMA GoalIsNoJob == NoJob \notin GoalType
BY DEF NoJob, GoalType, Kind

(***************************************************************************)
(* The inventory.  Whatever is saved was validated.                        *)
(***************************************************************************)

LEMMA OnlyNewKept ==
  ASSUME NEW i, OnlyNew(i), Shape(i), EnrolledAreKnown(i), NEW c \in Camera
  PROVE  /\ \A at : OnlyNew(enroll(i, c, at))
         /\ \A s \in DOMAIN i.sensors : OnlyNew(replace_sensor(i, s, c))
         /\ \A s, at : OnlyNew(move_sensor(i, s, at))
         /\ OnlyNew(record_observation(i, c))
<1>. DEFINE id == new_sensor_id(c)
            known == ensure_known(i, id, c)
<1>1. sensor_id_for_observation(i, c) = id /\ id[1] = "new"
  BY NewId DEF new_sensor_id
<1>2. DOMAIN known = (DOMAIN i.known) \cup {id}
  BY EnsureKnownDomain
<1>3. ASSUME NEW at PROVE OnlyNew(enroll(i, c, at))
  <2>1. enroll(i, c, at).known = Put(known, id, [known[id] EXCEPT !.state = "enrolled"])
    BY <1>1 DEF enroll, Shape
  <2>2. DOMAIN enroll(i, c, at).known = (DOMAIN i.known) \cup {id}
    BY <1>2, <2>1 DEF Put
  <2>. QED
    BY <1>1, <2>2 DEF OnlyNew
<1>4. ASSUME NEW s \in DOMAIN i.sensors PROVE OnlyNew(replace_sensor(i, s, c))
  <2>. DEFINE taken == Put(known, id, [known[id] EXCEPT !.state = "enrolled"])
  <2>1. replace_sensor(i, s, c).known = Put(taken, s, [taken[s] EXCEPT !.state = "retired"])
    BY DEF replace_sensor, Shape
  <2>2. DOMAIN replace_sensor(i, s, c).known = (DOMAIN i.known) \cup {id, s}
    BY <1>2, <2>1 DEF Put
  <2>. QED
    BY <1>1, <2>2 DEF OnlyNew, EnrolledAreKnown
<1>5. ASSUME NEW s, NEW at PROVE OnlyNew(move_sensor(i, s, at))
  <2>1. move_sensor(i, s, at).known = i.known
    BY DEF move_sensor, Shape
  <2>. QED
    BY <2>1 DEF OnlyNew
<1>6. OnlyNew(record_observation(i, c))
  BY <1>1, ObserveShape DEF OnlyNew
<1>. QED
  BY <1>3, <1>4, <1>5, <1>6

LEMMA SavedInv ==
  ASSUME NEW after, InventoryType(after), OnlyNew(after), Valid(after),
         inv' = Normalized(after)
  PROVE  InventoryInv'
<1>. DEFINE n == Normalized(after)
<1>1. InventoryType(n)
  BY NormalizedType
<1>2. n.sensors = after.sensors /\ DOMAIN n.known = DOMAIN after.known
  BY TypeParts, NormalizedGet
<1>. HIDE DEF n
<1>3. OnlyNew(n) /\ SensorsDistinct(n) /\ EnrolledAreKnown(n)
  BY <1>2 DEF OnlyNew, Valid, SensorsDistinct, EnrolledAreKnown
<1>. QED
  BY <1>1, <1>3 DEF InventoryInv, n

LEMMA PlugInv ==
  ASSUME InventoryInv, NEW c \in Camera, NEW n, Plug(c, n)
  PROVE  InventoryInv'
<1>1. CASE n = Nowhere
  BY <1>1 DEF Plug, InventoryInv
<1>2. CASE n # Nowhere
  <2>. DEFINE after == record_observation(inv, c)
  <2>1. inv' = after
    BY <1>2 DEF Plug
  <2>2. Shape(inv)
    BY TypeParts DEF InventoryInv
  <2>3. InventoryType(after) /\ OnlyNew(after)
    BY <2>2, ObserveType, OnlyNewKept DEF InventoryInv
  <2>4. after.sensors = inv.sensors /\ DOMAIN inv.known \subseteq DOMAIN after.known
    BY <2>2, ObserveShape
  <2>. HIDE DEF after
  <2>5. SensorsDistinct(after) /\ EnrolledAreKnown(after)
    BY <2>4 DEF InventoryInv, SensorsDistinct, EnrolledAreKnown
  <2>. QED
    BY <2>1, <2>3, <2>5 DEF InventoryInv
<1>. QED
  BY <1>1, <1>2

LEMMA EditsInv ==
  ASSUME InventoryInv,
         \/ \E n \in Network, mode \in Mode : _set_port_mode(n, mode)
         \/ \E s \in SensorId : _forget_sensor(s)
  PROVE  InventoryInv'
<1>0. Shape(inv)
  BY TypeParts DEF InventoryInv
<1>1. CASE \E n \in Network, mode \in Mode : _set_port_mode(n, mode)
  <2>1. PICK n \in Network, mode \in Mode : _set_port_mode(n, mode)
    BY <1>1
  <2>. DEFINE after == set_port_mode(inv, n, mode)
  <2>2. Valid(after) /\ inv' = Normalized(after)
    BY <2>1 DEF _set_port_mode, Edit
  <2>3. InventoryType(after)
    BY OtherTypes DEF InventoryInv
  <2>4. after.known = inv.known
    BY <1>0 DEF set_port_mode, Shape
  <2>. HIDE DEF after
  <2>. QED
    BY <2>2, <2>3, <2>4, SavedInv DEF InventoryInv, OnlyNew
<1>2. CASE \E s \in SensorId : _forget_sensor(s)
  <2>1. PICK s \in SensorId : _forget_sensor(s)
    BY <1>2
  <2>. DEFINE after == forget(inv, s)
  <2>2. Valid(after) /\ inv' = Normalized(after) /\ s \in DOMAIN inv.sensors
    BY <2>1 DEF _forget_sensor, Edit, MayForget
  <2>3. InventoryType(after)
    BY <2>2, ForgetType DEF InventoryInv
  <2>4. after.known = Put(inv.known, s, [inv.known[s] EXCEPT !.state = "archived"])
    BY <1>0 DEF forget, Shape
  <2>5. DOMAIN after.known = DOMAIN inv.known
    BY <2>2, <2>4 DEF Put, InventoryInv, EnrolledAreKnown
  <2>. HIDE DEF after
  <2>. QED
    BY <2>2, <2>3, <2>5, SavedInv DEF InventoryInv, OnlyNew
<1>. QED
  BY <1>1, <1>2

(* What a goal saves is an inventory again, and known by new IDs only.     *)
LEMMA SaveInventory ==
  ASSUME IInv, NEW j \in Job, Save(j)
  PROVE  InventoryInv'
<1>. DEFINE g == job[j]
            after == Saved(g)
<1>1. Valid(after) /\ inv' = Normalized(after) /\ MaySave(g) /\ g # NoJob /\ g.step = "save"
  BY DEF Save, At
<1>2. g \in GoalType
  BY <1>1 DEF IInv, GoalsInv, GoalsType
<1>3. g.camera \in Camera /\ g.kind \in Kind
  BY <1>2 DEF GoalType
<1>4. g.at \in Placement
  BY <1>1 DEF IInv, GoalsInv, PlaceInv
<1>5. InventoryType(inv) /\ OnlyNew(inv) /\ EnrolledAreKnown(inv) /\ Shape(inv)
  BY TypeParts DEF IInv, InventoryInv
<1>. HIDE DEF g
<1>6. CASE g.kind = "enroll"
  <2>1. after = enroll(inv, g.camera, g.at)
    BY <1>6 DEF Saved
  <2>. QED
    BY <1>1, <1>3, <1>4, <1>5, <2>1, EnrollType, OnlyNewKept, SavedInv
<1>7. CASE g.kind = "replace"
  <2>1. after = replace_sensor(inv, g.source, g.camera) /\ g.source \in DOMAIN inv.sensors
    BY <1>1, <1>7 DEF Saved, MaySave, MayReplace
  <2>. QED
    BY <1>1, <1>3, <1>5, <2>1, ReplaceType, OnlyNewKept, SavedInv
<1>8. CASE g.kind = "move"
  <2>1. after = move_sensor(inv, Moved(g), g.at) /\ Moved(g) \in DOMAIN inv.sensors
    BY <1>1, <1>8 DEF Saved, MaySave, MayMove
  <2>. QED
    BY <1>1, <1>3, <1>4, <1>5, <2>1, MoveType, OnlyNewKept, SavedInv
<1>. QED
  BY <1>3, <1>6, <1>7, <1>8 DEF Kind

(***************************************************************************)
(* The goals.  A step changes one slot; what it owes the invariant is that *)
(* the other goals keep their claims and the changed one has its own, which*)
(* no other goal has.                                                      *)
(***************************************************************************)

EnrollClaim(g) == g # NoJob /\ g.kind = "enroll" /\ g.step \in {"provision", "save"}
PlaceClaim(g) ==
  g # NoJob /\ g.kind # "enroll" /\ g.step \in {"reserve", "provision", "save"}

LEMMA ClaimsAre ==
  ASSUME NEW j \in Job
  PROVE  /\ Enrolling(j) /\ Reserved(j) <=> EnrollClaim(job[j])
         /\ Placing(j) <=> PlaceClaim(job[j])
BY DEF Enrolling, Reserved, At, Placing, EnrollClaim, PlaceClaim

Placed(g) ==
  g # NoJob => /\ g.step \in {"sent", "claim", "reserve"} => g.at = NoPlacement
               /\ g.step \in {"provision", "save"} => g.at \in Placement

LEMMA SlotChanges ==
  ASSUME GoalsInv, NEW j \in Job, NEW g \in GoalType \cup {NoJob}, Placed(g),
         job' = [job EXCEPT ![j] = g],
         enrollment_active' \subseteq SensorId, placement_active' \subseteq SensorId,
         enrollment_network_active' \subseteq Network,
         EnrollClaim(g) => g.at.network \in enrollment_network_active',
         PlaceClaim(g) => Held(g) \subseteq placement_active',
         \A k \in Job \ {j} :
           EnrollClaim(job[k]) =>
             /\ job[k].at.network \in enrollment_network_active'
             /\ EnrollClaim(g) => job[k].at.network # g.at.network,
         \A k \in Job \ {j} :
           PlaceClaim(job[k]) =>
             /\ Held(job[k]) \subseteq placement_active'
             /\ PlaceClaim(g) => Held(job[k]) \cap Held(g) = {},
         unanswered' \subseteq [camera: Camera, network: Network, auto: BOOLEAN],
         \A u \in unanswered' :
           /\ u.network \in enrollment_network_active'
           /\ EnrollClaim(g) => g.at.network # u.network
           /\ \A k \in Job \ {j} : EnrollClaim(job[k]) => job[k].at.network # u.network
  PROVE  GoalsInv'
<1>1. /\ job \in [Job -> GoalType \cup {NoJob}]
      /\ job'[j] = g /\ \A k \in Job \ {j} : job'[k] = job[k]
  BY DEF GoalsInv, GoalsType
<1>2. GoalsType'
  BY <1>1 DEF GoalsType
<1>3. PlaceInv'
  BY <1>1 DEF PlaceInv, GoalsInv, Placed
<1>4. NetworkInv'
  <2>1. /\ \A k \in Job : EnrollClaim(job'[k]) => job'[k].at.network \in enrollment_network_active'
        /\ \A k, l \in Job :
             k # l /\ EnrollClaim(job'[k]) /\ EnrollClaim(job'[l]) =>
               job'[k].at.network # job'[l].at.network
        /\ \A k \in Job, u \in unanswered' :
             EnrollClaim(job'[k]) => job'[k].at.network # u.network
    BY <1>1, ClaimsAre DEF GoalsInv, NetworkInv, EnrollmentsExclusive
  <2>2. \A k \in Job : (Enrolling(k) /\ Reserved(k))' <=> EnrollClaim(job'[k])
    BY DEF Enrolling, Reserved, At, EnrollClaim
  <2>. QED
    BY <2>1, <2>2 DEF NetworkInv, EnrollmentsExclusive
<1>5. PlacementInv'
  <2>1. /\ \A k \in Job : PlaceClaim(job'[k]) => Held(job'[k]) \subseteq placement_active'
        /\ \A k, l \in Job :
             k # l /\ PlaceClaim(job'[k]) /\ PlaceClaim(job'[l]) =>
               Held(job'[k]) \cap Held(job'[l]) = {}
    BY <1>1, ClaimsAre DEF GoalsInv, PlacementInv
  <2>2. \A k \in Job : Placing(k)' <=> PlaceClaim(job'[k])
    BY DEF Placing, Enrolling, PlaceClaim
  <2>. QED
    BY <2>1, <2>2 DEF PlacementInv
<1>. QED
  BY <1>2, <1>3, <1>4, <1>5 DEF GoalsInv

(* What was never answered keeps its network from every other goal.        *)
LEMMA UnansweredHolds ==
  ASSUME GoalsInv, NEW u \in unanswered
  PROVE  /\ u.network \in enrollment_network_active
         /\ \A k \in Job : EnrollClaim(job[k]) => job[k].at.network # u.network
BY ClaimsAre DEF GoalsInv, NetworkInv, EnrollmentsExclusive

(* A goal that is free, sent, about to claim or ended has no claim.        *)
LEMMA NoClaim ==
  ASSUME GoalsInv, NEW j \in Job, NEW g \in GoalType \cup {NoJob},
         g # NoJob => g.step \in {"sent", "claim", "ended"} /\ Placed(g),
         job' = [job EXCEPT ![j] = g], UNCHANGED <<claims, unanswered>>
  PROVE  GoalsInv'
<1>1. ~EnrollClaim(g) /\ ~PlaceClaim(g) /\ Placed(g)
  BY DEF EnrollClaim, PlaceClaim, Placed
<1>2. /\ \A k \in Job : EnrollClaim(job[k]) => job[k].at.network \in enrollment_network_active
      /\ \A k \in Job : PlaceClaim(job[k]) => Held(job[k]) \subseteq placement_active
  BY ClaimsAre DEF GoalsInv, NetworkInv, PlacementInv
<1>3. /\ enrollment_active' \subseteq SensorId /\ placement_active' \subseteq SensorId
      /\ enrollment_network_active' \subseteq Network
  BY DEF GoalsInv, GoalsType, claims
<1>4. unanswered' \subseteq [camera: Camera, network: Network, auto: BOOLEAN]
  BY DEF GoalsInv, GoalsType
<1>5. \A u \in unanswered' :
       /\ u.network \in enrollment_network_active'
       /\ EnrollClaim(g) => g.at.network # u.network
       /\ \A k \in Job \ {j} : EnrollClaim(job[k]) => job[k].at.network # u.network
  BY <1>1, UnansweredHolds DEF claims
<1>. QED
  BY <1>1, <1>2, <1>3, <1>4, <1>5, SlotChanges DEF claims

(* The finally clause gives back the goal's own claims and no other's.     *)
LEMMA FinishInv ==
  ASSUME IInv, NEW j \in Job, NEW success \in BOOLEAN, job[j] # NoJob,
         job[j].step \in {"claim", "reserve", "provision", "save"}, Finish(j, success),
         UNCHANGED unanswered
  PROVE  GoalsInv'
<1>. DEFINE g == job[j]
            after == IF g.auto THEN [g EXCEPT !.step = "ended", !.success = success]
                     ELSE NoJob
<1>1. g \in GoalType
  BY DEF IInv, GoalsInv, GoalsType
<1>2. after \in GoalType \cup {NoJob} /\ (after # NoJob => after.step = "ended")
  BY <1>1 DEF GoalType, Step
<1>3. ~EnrollClaim(after) /\ ~PlaceClaim(after) /\ Placed(after)
  BY <1>2 DEF EnrollClaim, PlaceClaim, Placed
<1>4. job' = [job EXCEPT ![j] = after]
  BY DEF Finish
<1>5. /\ enrollment_active' \subseteq SensorId /\ placement_active' \subseteq SensorId
      /\ enrollment_network_active' \subseteq Network
  BY DEF Finish, IInv, GoalsInv, GoalsType
<1>6. ASSUME NEW k \in Job \ {j}, EnrollClaim(job[k])
      PROVE  job[k].at.network \in enrollment_network_active'
  <2>1. job[k].at.network \in enrollment_network_active
    BY <1>6, ClaimsAre DEF IInv, GoalsInv, NetworkInv
  <2>2. ASSUME g.kind = "enroll" PROVE job[k].at.network # g.at.network
    <3>1. CASE EnrollClaim(g)
      BY <1>6, <3>1, ClaimsAre DEF IInv, GoalsInv, NetworkInv, EnrollmentsExclusive
    <3>2. CASE ~EnrollClaim(g)
      <4>1. g.at = NoPlacement
        BY <2>2, <3>2 DEF IInv, GoalsInv, PlaceInv, EnrollClaim
      <4>2. job[k].at.network \in Network
        BY <2>1 DEF IInv, GoalsInv, GoalsType
      <4>. QED
        BY <4>1, <4>2, ApprovedAssumption DEF NoPlacement
    <3>. QED
      BY <3>1, <3>2
  <2>. QED
    BY <2>1, <2>2 DEF Finish
<1>7. ASSUME NEW k \in Job \ {j}, PlaceClaim(job[k])
      PROVE  Held(job[k]) \subseteq placement_active'
  <2>1. Held(job[k]) \subseteq placement_active
    BY <1>7, ClaimsAre DEF IInv, GoalsInv, PlacementInv
  <2>2. Ids(g) = Held(g)
    BY <1>1, IdsHeld DEF IInv
  <2>3. ASSUME g.kind # "enroll", g.step # "claim"
        PROVE  Held(job[k]) \cap Held(g) = {}
    <3>1. PlaceClaim(g)
      BY <2>3 DEF PlaceClaim
    <3>. QED
      BY <1>7, <3>1, ClaimsAre DEF IInv, GoalsInv, PlacementInv
  <2>4. placement_active' = placement_active \
          (IF g.kind # "enroll" /\ g.step # "claim" THEN Ids(g) ELSE {})
    BY DEF Finish
  <2>. HIDE DEF g
  <2>. QED
    BY <2>1, <2>2, <2>3, <2>4
<1>8. ASSUME NEW u \in unanswered
      PROVE  u.network \in enrollment_network_active'
  <2>1. u.network \in enrollment_network_active /\ u.network \in Network
    BY UnansweredHolds DEF IInv, GoalsInv, GoalsType
  <2>2. ASSUME g.kind = "enroll" PROVE u.network # g.at.network
    <3>1. CASE EnrollClaim(g)
      BY <3>1, UnansweredHolds DEF IInv
    <3>2. CASE ~EnrollClaim(g)
      <4>1. g.at = NoPlacement
        BY <2>2, <3>2 DEF IInv, GoalsInv, PlaceInv, EnrollClaim
      <4>. QED
        BY <2>1, <4>1, ApprovedAssumption DEF NoPlacement
    <3>. QED
      BY <3>1, <3>2
  <2>. QED
    BY <2>1, <2>2 DEF Finish
<1>9. unanswered' \subseteq [camera: Camera, network: Network, auto: BOOLEAN]
  BY DEF IInv, GoalsInv, GoalsType
<1>. HIDE DEF after
<1>10. \A u \in unanswered' :
        /\ u.network \in enrollment_network_active'
        /\ EnrollClaim(after) => after.at.network # u.network
        /\ \A k \in Job \ {j} : EnrollClaim(job[k]) => job[k].at.network # u.network
  BY <1>3, <1>8, UnansweredHolds DEF IInv
<1>. QED
  BY <1>2, <1>3, <1>4, <1>5, <1>6, <1>7, <1>9, <1>10, SlotChanges DEF IInv

LEMMA ClaimInv ==
  ASSUME IInv, NEW j \in Job, Claim(j)
  PROVE  GoalsInv'
<1>. DEFINE g == job[j]
            after == [g EXCEPT !.step = "reserve", !.seen = observed[g.camera]]
<1>1. g # NoJob /\ g.step = "claim" /\ g \in GoalType /\ ~Duplicate(g)
  BY DEF Claim, At, IInv, GoalsInv, GoalsType
<1>2. g.camera \in Camera
  BY <1>1 DEF GoalType
<1>3. observed[g.camera] \in Network \cup {Nowhere}
  BY <1>2 DEF IInv, AutomationInv
<1>4. /\ after \in GoalType /\ after.step = "reserve" /\ after.at = g.at
      /\ after.kind = g.kind /\ after.camera = g.camera /\ after.source = g.source
  BY <1>1, <1>3 DEF GoalType, Step
<1>5. job' = [job EXCEPT ![j] = after]
  BY DEF Claim, IInv, GoalsInv, GoalsType
<1>6. Held(after) = Held(g) /\ Ids(g) = Held(g) /\ Held(g) \subseteq SensorId
      /\ IdOf(g.camera) \in Held(g)
  BY <1>1, <1>4, IdsHeld DEF Held, IInv
<1>7. Placed(after) /\ ~EnrollClaim(after)
  BY <1>1, <1>4 DEF Placed, EnrollClaim, IInv, GoalsInv, PlaceInv
<1>8. /\ enrollment_network_active' = enrollment_network_active
      /\ enrollment_active' \subseteq SensorId
      /\ placement_active' = IF g.kind = "enroll" THEN placement_active
                             ELSE placement_active \cup Held(g)
  BY <1>1, <1>6 DEF Claim, Enrolling, IInv, GoalsInv, GoalsType
<1>. HIDE DEF after
<1>9. PlaceClaim(after) => Held(after) \subseteq placement_active'
  BY <1>4, <1>6, <1>8 DEF PlaceClaim
<1>10. ASSUME NEW k \in Job \ {j}, EnrollClaim(job[k])
       PROVE  job[k].at.network \in enrollment_network_active'
  BY <1>8, <1>10, ClaimsAre DEF IInv, GoalsInv, NetworkInv
<1>11. ASSUME NEW k \in Job \ {j}, PlaceClaim(job[k])
       PROVE  /\ Held(job[k]) \subseteq placement_active'
              /\ PlaceClaim(after) => Held(job[k]) \cap Held(after) = {}
  <2>1. Held(job[k]) \subseteq placement_active
    BY <1>11, ClaimsAre DEF IInv, GoalsInv, PlacementInv
  <2>2. g.kind # "enroll" => Held(g) \cap placement_active = {}
    BY <1>1, <1>6 DEF Duplicate
  <2>. QED
    BY <1>4, <1>6, <1>8, <2>1, <2>2 DEF PlaceClaim
<1>12. placement_active' \subseteq SensorId /\ enrollment_network_active' \subseteq Network
  BY <1>6, <1>8 DEF IInv, GoalsInv, GoalsType
<1>13. /\ unanswered' = unanswered
       /\ unanswered' \subseteq [camera: Camera, network: Network, auto: BOOLEAN]
  BY DEF Claim, IInv, GoalsInv, GoalsType
<1>14. \A u \in unanswered' :
        /\ u.network \in enrollment_network_active'
        /\ EnrollClaim(after) => after.at.network # u.network
        /\ \A k \in Job \ {j} : EnrollClaim(job[k]) => job[k].at.network # u.network
  BY <1>7, <1>8, <1>13, UnansweredHolds DEF IInv
<1>. QED
  BY <1>4, <1>5, <1>7, <1>8, <1>9, <1>10, <1>11, <1>12, <1>13, <1>14, SlotChanges DEF IInv

(* A place is one the port's pool has, on an approved network; that of an  *)
(* enrollment is on a network no enrollment holds.                         *)
LEMMA PlacesType ==
  ASSUME IInv, NEW g \in GoalType, NEW at \in Places(g)
  PROVE  /\ at \in Placement
         /\ g.kind = "enroll" => at.network \notin enrollment_network_active
<1>0. /\ InventoryType(inv) /\ Approved \subseteq Network
      /\ g.kind \in Kind /\ g.requested \in Address \cup {0}
  BY ApprovedAssumption DEF IInv, InventoryInv, GoalType
<1>1. CASE g.kind = "enroll"
  <2>1. at \in EnrollPlaces(g)
    BY <1>1 DEF Places
  <2>2. /\ g.seen \in Network /\ g.seen \notin enrollment_network_active
        /\ at \in Allocations(inv, g.seen, g.requested)
    BY <1>0, <2>1 DEF EnrollPlaces
  <2>. QED
    BY <1>0, <2>2, AllocationsType
<1>2. CASE g.kind = "replace"
  <2>1. at \in ReplacePlaces(g)
    BY <1>2 DEF Places
  <2>2. PICK s \in DOMAIN inv.sensors : at = inv.sensors[s].at
    BY <2>1 DEF ReplacePlaces
  <2>. QED
    BY <1>0, <1>2, <2>2 DEF InventoryType, Enrollment
<1>3. CASE g.kind = "move"
  <2>1. at \in MovePlaces(g)
    BY <1>3 DEF Places
  <2>2. g.network \in Network /\ at \in Allocations(inv, g.network, 0)
    BY <1>0, <2>1 DEF MovePlaces
  <2>. QED
    BY <1>0, <1>3, <2>2, AllocationsType
<1>. QED
  BY <1>0, <1>1, <1>2, <1>3 DEF Kind

LEMMA ReserveInv ==
  ASSUME IInv, NEW j \in Job, Reserve(j)
  PROVE  GoalsInv'
<1>. DEFINE g == job[j]
<1>1. g # NoJob /\ g.step = "reserve" /\ g \in GoalType
  BY DEF Reserve, At, IInv, GoalsInv, GoalsType
<1>2. PICK at \in Places(g) :
        /\ job' = [job EXCEPT ![j].step = "provision", ![j].at = at, ![j].seen = Nowhere,
                              ![j].network = Nowhere, ![j].requested = 0]
        /\ enrollment_network_active' = enrollment_network_active \cup
             (IF Enrolling(j) THEN {at.network} ELSE {})
  BY DEF Reserve
<1>. DEFINE after == [g EXCEPT !.step = "provision", !.at = at, !.seen = Nowhere,
                               !.network = Nowhere, !.requested = 0]
<1>3. at \in Placement /\ (g.kind = "enroll" => at.network \notin enrollment_network_active)
  BY <1>1, PlacesType
<1>4. /\ after \in GoalType /\ after.step = "provision" /\ after.at = at
      /\ after.kind = g.kind /\ after.camera = g.camera /\ after.source = g.source
  BY <1>1, <1>3 DEF GoalType, Step
<1>5. job' = [job EXCEPT ![j] = after]
  BY <1>2 DEF IInv, GoalsInv, GoalsType
<1>6. Held(after) = Held(g) /\ Placed(after) /\ (EnrollClaim(after) <=> g.kind = "enroll")
  BY <1>1, <1>3, <1>4, GoalIsNoJob DEF Held, Placed, EnrollClaim
<1>7. /\ enrollment_network_active' =
           enrollment_network_active \cup (IF g.kind = "enroll" THEN {at.network} ELSE {})
      /\ UNCHANGED <<enrollment_active, placement_active>>
  BY <1>1, <1>2 DEF Reserve, Enrolling
<1>8. at.network \in Network
  BY <1>3 DEF Placement
<1>. HIDE DEF after
<1>9. /\ enrollment_active' \subseteq SensorId /\ placement_active' \subseteq SensorId
      /\ enrollment_network_active' \subseteq Network
  BY <1>7, <1>8 DEF IInv, GoalsInv, GoalsType
<1>10. PlaceClaim(after) => PlaceClaim(g)
  BY <1>1, <1>4 DEF PlaceClaim
<1>11. PlaceClaim(after) => Held(after) \subseteq placement_active'
  BY <1>6, <1>7, <1>10, ClaimsAre DEF IInv, GoalsInv, PlacementInv
<1>12. ASSUME NEW k \in Job \ {j}, EnrollClaim(job[k])
       PROVE  /\ job[k].at.network \in enrollment_network_active'
              /\ EnrollClaim(after) => job[k].at.network # after.at.network
  <2>1. job[k].at.network \in enrollment_network_active
    BY <1>12, ClaimsAre DEF IInv, GoalsInv, NetworkInv
  <2>. QED
    BY <1>3, <1>4, <1>6, <1>7, <2>1
<1>13. ASSUME NEW k \in Job \ {j}, PlaceClaim(job[k])
       PROVE  /\ Held(job[k]) \subseteq placement_active'
              /\ PlaceClaim(after) => Held(job[k]) \cap Held(after) = {}
  BY <1>6, <1>7, <1>10, <1>13, ClaimsAre DEF IInv, GoalsInv, PlacementInv
<1>14. EnrollClaim(after) => after.at.network \in enrollment_network_active'
  BY <1>4, <1>6, <1>7
<1>15. ASSUME NEW u \in unanswered
       PROVE  /\ u.network \in enrollment_network_active'
              /\ EnrollClaim(after) => after.at.network # u.network
  <2>1. u.network \in enrollment_network_active
    BY UnansweredHolds DEF IInv
  <2>. QED
    BY <1>3, <1>4, <1>6, <1>7, <2>1
<1>16. /\ unanswered' = unanswered
       /\ unanswered' \subseteq [camera: Camera, network: Network, auto: BOOLEAN]
  BY DEF Reserve, IInv, GoalsInv, GoalsType
<1>17. \A u \in unanswered' :
        /\ u.network \in enrollment_network_active'
        /\ EnrollClaim(after) => after.at.network # u.network
        /\ \A k \in Job \ {j} : EnrollClaim(job[k]) => job[k].at.network # u.network
  BY <1>15, <1>16, UnansweredHolds DEF IInv
<1>. QED
  BY <1>4, <1>5, <1>6, <1>9, <1>11, <1>12, <1>13, <1>14, <1>16, <1>17, SlotChanges DEF IInv

LEMMA ProvisionedInv ==
  ASSUME IInv, NEW j \in Job, Provisioned(j)
  PROVE  GoalsInv'
<1>. DEFINE g == job[j]
            after == [g EXCEPT !.step = "save"]
<1>1. g # NoJob /\ g.step = "provision" /\ g \in GoalType
  BY DEF Provisioned, At, IInv, GoalsInv, GoalsType
<1>2. /\ after \in GoalType /\ after.step = "save" /\ after.at = g.at
      /\ after.kind = g.kind /\ after.camera = g.camera /\ after.source = g.source
  BY <1>1 DEF GoalType, Step
<1>3. job' = [job EXCEPT ![j] = after] /\ UNCHANGED claims
  BY DEF Provisioned, IInv, GoalsInv, GoalsType
<1>. HIDE DEF after
<1>4. /\ Held(after) = Held(g) /\ (EnrollClaim(after) => EnrollClaim(g))
      /\ PlaceClaim(after) => PlaceClaim(g)
  BY <1>1, <1>2 DEF Held, EnrollClaim, PlaceClaim
<1>5. Placed(after)
  BY <1>1, <1>2 DEF Placed, IInv, GoalsInv, PlaceInv
<1>6. ASSUME NEW k \in Job \ {j}, EnrollClaim(job[k])
      PROVE  /\ job[k].at.network \in enrollment_network_active'
             /\ EnrollClaim(after) => job[k].at.network # after.at.network
  BY <1>2, <1>3, <1>4, <1>6, ClaimsAre
     DEF IInv, GoalsInv, NetworkInv, EnrollmentsExclusive, claims
<1>7. ASSUME NEW k \in Job \ {j}, PlaceClaim(job[k])
      PROVE  /\ Held(job[k]) \subseteq placement_active'
             /\ PlaceClaim(after) => Held(job[k]) \cap Held(after) = {}
  BY <1>3, <1>4, <1>7, ClaimsAre DEF IInv, GoalsInv, PlacementInv, claims
<1>8. /\ EnrollClaim(after) => after.at.network \in enrollment_network_active'
      /\ PlaceClaim(after) => Held(after) \subseteq placement_active'
  BY <1>2, <1>3, <1>4, ClaimsAre DEF IInv, GoalsInv, NetworkInv, PlacementInv, claims
<1>9. /\ enrollment_active' \subseteq SensorId /\ placement_active' \subseteq SensorId
      /\ enrollment_network_active' \subseteq Network
  BY <1>3 DEF IInv, GoalsInv, GoalsType, claims
<1>10. ASSUME NEW u \in unanswered
       PROVE  /\ u.network \in enrollment_network_active'
              /\ EnrollClaim(after) => after.at.network # u.network
  BY <1>2, <1>3, <1>4, UnansweredHolds DEF IInv, claims
<1>11. /\ unanswered' = unanswered
       /\ unanswered' \subseteq [camera: Camera, network: Network, auto: BOOLEAN]
  BY DEF Provisioned, IInv, GoalsInv, GoalsType
<1>12. \A u \in unanswered' :
        /\ u.network \in enrollment_network_active'
        /\ EnrollClaim(after) => after.at.network # u.network
        /\ \A k \in Job \ {j} : EnrollClaim(job[k]) => job[k].at.network # u.network
  BY <1>10, <1>11, UnansweredHolds DEF IInv
<1>. QED
  BY <1>2, <1>3, <1>5, <1>6, <1>7, <1>8, <1>9, <1>11, <1>12, SlotChanges DEF IInv

(* A goal that is never answered leaves its network to what it was.        *)
LEMMA NeverAnsweredInv ==
  ASSUME IInv, NEW j \in Job, NeverAnswered(j)
  PROVE  GoalsInv'
<1>. DEFINE g == job[j]
            u0 == [camera |-> g.camera, network |-> g.at.network, auto |-> g.auto]
<1>1. g # NoJob /\ g.step = "provision" /\ g \in GoalType
  BY DEF NeverAnswered, At, IInv, GoalsInv, GoalsType
<1>2. job' = [job EXCEPT ![j] = NoJob] /\ UNCHANGED claims
  BY DEF NeverAnswered
<1>3. unanswered' = unanswered \cup (IF g.kind = "enroll" THEN {u0} ELSE {})
  BY <1>1 DEF NeverAnswered, Enrolling
<1>4. g.at \in Placement
  BY <1>1 DEF IInv, GoalsInv, PlaceInv
<1>5. u0 \in [camera: Camera, network: Network, auto: BOOLEAN]
  BY <1>1, <1>4 DEF GoalType, Placement
<1>6. unanswered' \subseteq [camera: Camera, network: Network, auto: BOOLEAN]
  BY <1>3, <1>5 DEF IInv, GoalsInv, GoalsType
<1>7. ASSUME g.kind = "enroll"
      PROVE  /\ u0.network \in enrollment_network_active
             /\ \A k \in Job \ {j} : EnrollClaim(job[k]) => job[k].at.network # u0.network
  <2>1. EnrollClaim(g)
    BY <1>1, <1>7 DEF EnrollClaim
  <2>. QED
    BY <2>1, ClaimsAre DEF IInv, GoalsInv, NetworkInv, EnrollmentsExclusive
<1>. HIDE DEF u0
<1>8. \A u \in unanswered' :
        /\ u.network \in enrollment_network_active'
        /\ \A k \in Job \ {j} : EnrollClaim(job[k]) => job[k].at.network # u.network
  BY <1>2, <1>3, <1>7, UnansweredHolds DEF IInv, claims
<1>9. ~EnrollClaim(NoJob) /\ ~PlaceClaim(NoJob) /\ Placed(NoJob)
  BY DEF EnrollClaim, PlaceClaim, Placed
<1>10. /\ \A k \in Job : EnrollClaim(job[k]) => job[k].at.network \in enrollment_network_active'
       /\ \A k \in Job : PlaceClaim(job[k]) => Held(job[k]) \subseteq placement_active'
  BY <1>2, ClaimsAre DEF IInv, GoalsInv, NetworkInv, PlacementInv, claims
<1>11. /\ enrollment_active' \subseteq SensorId /\ placement_active' \subseteq SensorId
       /\ enrollment_network_active' \subseteq Network
  BY <1>2 DEF IInv, GoalsInv, GoalsType, claims
<1>12. \A u \in unanswered' :
        /\ u.network \in enrollment_network_active'
        /\ EnrollClaim(NoJob) => NoJob.at.network # u.network
        /\ \A k \in Job \ {j} : EnrollClaim(job[k]) => job[k].at.network # u.network
  BY <1>8, <1>9
<1>. QED
  BY <1>2, <1>6, <1>9, <1>10, <1>11, <1>12, SlotChanges DEF IInv

(***************************************************************************)
(* Every step.                                                             *)
(***************************************************************************)

LEMMA InitInv == Init => IInv
<1>. SUFFICES ASSUME Init PROVE IInv
  OBVIOUS
<1>1. /\ DOMAIN FirstSeen \subseteq Camera
      /\ \A c \in DOMAIN FirstSeen : FirstSeen[c] \in Network
  BY ApprovedAssumption, PartialGet
<1>2. InventoryInv
  <2>. DEFINE ids == {new_sensor_id(c) : c \in DOMAIN FirstSeen}
              known == [k \in ids |->
                          [camera |-> k[2], provider |-> "genicam", state |-> "observed"]]
  <2>1. \A k \in ids : k \in SensorId /\ k[1] = "new" /\ k[2] \in Camera
    BY <1>1 DEF new_sensor_id, SensorId
  <2>2. \A k \in ids : known[k] \in Known /\ known[k].camera = k[2]
    BY <2>1 DEF Known, CatalogState
  <2>3. inv = [sensors |-> <<>>, groups |-> <<>>, modes |-> MachineMode, known |-> known]
    BY DEF Init
  <2>4. DOMAIN known = ids /\ DOMAIN <<>> = {}
    OBVIOUS
  <2>5. <<>> \in [{} -> SUBSET SensorId]
    BY <2>4
  <2>6. <<>> \in Partial(Group, SUBSET SensorId)
    BY <2>5, PartialIntro
  <2>. HIDE DEF known, ids
  <2>7. InventoryType(inv)
    BY <2>1, <2>2, <2>3, <2>4, <2>6, MachineAssumption DEF InventoryType
  <2>8. OnlyNew(inv)
    BY <2>1, <2>3, <2>4 DEF OnlyNew
  <2>9. SensorsDistinct(inv) /\ EnrolledAreKnown(inv)
    BY <2>3, <2>4 DEF SensorsDistinct, EnrolledAreKnown
  <2>. QED
    BY <2>7, <2>8, <2>9 DEF InventoryInv
<1>3. AutomationInv
  <2>1. observed \in [Camera -> Network \cup {Nowhere}]
    BY <1>1 DEF Init
  <2>2. <<>> \in [{} -> Network]
    OBVIOUS
  <2>3. auto_enroll_inflight \in Partial(Camera, Network)
    BY <2>2, PartialIntro DEF Init
  <2>. QED
    BY <2>1, <2>3 DEF Init, AutomationInv
<1>4. \A j \in Job : job[j] = NoJob
  BY DEF Init
<1>5. GoalsType
  BY DEF Init, GoalsType
<1>6. PlaceInv /\ NetworkInv /\ PlacementInv
  <2>1. unanswered = {}
    BY DEF Init
  <2>. QED
    BY <1>4, <2>1 DEF PlaceInv, NetworkInv, EnrollmentsExclusive, PlacementInv, Enrolling, Placing
<1>. QED
  BY <1>2, <1>3, <1>5, <1>6 DEF IInv, GoalsInv

(* What the steps that leave a part of the state alone need.               *)
LEMMA GoalsKept == GoalsInv /\ UNCHANGED <<job, claims, unanswered>> => GoalsInv'
BY DEF GoalsInv, GoalsType, PlaceInv, NetworkInv, EnrollmentsExclusive, PlacementInv,
       Enrolling, Reserved, Placing, At, claims

LEMMA AutomationKept == AutomationInv /\ UNCHANGED <<observed, autoVars>> => AutomationInv'
BY DEF AutomationInv, autoVars

LEMMA InventoryKept == InventoryInv /\ UNCHANGED inv => InventoryInv'
BY DEF InventoryInv

(* A new goal takes a free slot.                                           *)
LEMMA SlotIsFree ==
  ASSUME FreeSlots # {}
  PROVE  Slot \in Job
BY DEF Slot, FreeSlots

LEMMA SendGoalInv ==
  ASSUME IInv, NEW kind \in Kind, NEW c \in Camera, NEW s \in SensorId \cup {NoSource},
         NEW n \in Network \cup {Nowhere}, NEW r \in Address \cup {0},
         SendGoal(kind, c, s, n, r)
  PROVE  IInv'
<1>. DEFINE g == [Goal(kind, c, s, n, r, FALSE) EXCEPT !.step = "claim"]
<1>1. g \in GoalType /\ g.step = "claim" /\ g.at = NoPlacement
  BY DEF Goal, GoalType, Step
<1>2. Slot \in Job /\ job' = [job EXCEPT ![Slot] = g] /\ UNCHANGED <<claims, unanswered>>
      /\ UNCHANGED <<inv, observed, autoVars>>
  BY SlotIsFree DEF SendGoal
<1>. HIDE DEF g
<1>3. GoalsInv'
  BY <1>1, <1>2, NoClaim DEF IInv, Placed
<1>. QED
  BY <1>2, <1>3, InventoryKept, AutomationKept DEF IInv

LEMMA OperatorInv == IInv /\ Operator => IInv'
<1>. SUFFICES ASSUME IInv, Operator PROVE IInv'
  OBVIOUS
<1>0. DOMAIN inv.sensors \subseteq SensorId
  BY DEF IInv, InventoryInv, InventoryType
<1>1. CASE \E c \in Camera, n \in Network \cup {Nowhere}, a \in Requests :
             SendGoal("enroll", c, NoSource, n, a)
  BY <1>1, SendGoalInv, ApprovedAssumption DEF Kind
<1>2. CASE \E c \in Camera, s \in DOMAIN inv.sensors : SendGoal("replace", c, s, Nowhere, 0)
  BY <1>0, <1>2, SendGoalInv DEF Kind
<1>3. CASE \E c \in Camera, s \in DOMAIN inv.sensors \cup {NoSource}, n \in Network :
             SendGoal("move", c, s, n, 0)
  BY <1>0, <1>3, SendGoalInv DEF Kind
<1>4. CASE \/ \E n \in Network, mode \in Mode : _set_port_mode(n, mode)
           \/ \E s \in SensorId : _forget_sensor(s)
  <2>1. InventoryInv'
    BY <1>4, EditsInv DEF IInv
  <2>2. UNCHANGED <<observed, job, claims, autoVars, unanswered>>
    BY <1>4 DEF _set_port_mode, _forget_sensor, Edit
  <2>. QED
    BY <2>1, <2>2, GoalsKept, AutomationKept DEF IInv
<1>. QED
  BY <1>1, <1>2, <1>3, <1>4 DEF Operator

LEMMA PlugStepInv ==
  ASSUME IInv, NEW c \in Camera, NEW n \in Network \cup {Nowhere}, Plug(c, n)
  PROVE  IInv'
<1>1. InventoryInv'
  BY PlugInv DEF IInv
<1>2. AutomationInv'
  BY DEF Plug, IInv, AutomationInv, autoVars
<1>3. GoalsInv'
  BY GoalsKept DEF Plug, IInv
<1>. QED
  BY <1>1, <1>2, <1>3 DEF IInv

LEMMA ReconcileInv ==
  ASSUME IInv, NEW c \in Camera, _reconcile_automation(c)
  PROVE  IInv'
<1>. DEFINE g == Goal("enroll", c, NoSource, observed[c], 0, TRUE)
<1>1. observed[c] \in Network
  BY ApprovedAssumption DEF _reconcile_automation, Eligible
<1>2. g \in GoalType /\ g.step = "sent" /\ g.at = NoPlacement
  BY <1>1 DEF Goal, GoalType, Step, Kind
<1>3. Slot \in Job /\ job' = [job EXCEPT ![Slot] = g] /\ UNCHANGED <<claims, unanswered>>
      /\ UNCHANGED <<inv, observed, retry_after>>
      /\ auto_enroll_inflight' = Put(auto_enroll_inflight, c, observed[c])
  BY SlotIsFree DEF _reconcile_automation
<1>. HIDE DEF g
<1>4. GoalsInv'
  BY <1>2, <1>3, NoClaim DEF IInv, Placed
<1>5. AutomationInv'
  BY <1>1, <1>3, PartialPut DEF IInv, AutomationInv
<1>. QED
  BY <1>3, <1>4, <1>5, InventoryKept DEF IInv

(* A goal that is given back to the automation.                            *)
LEMMA ReleasedInv ==
  ASSUME IInv, NEW j \in Job, job[j] # NoJob, Released(j),
         \/ retry_after' = retry_after \cup {job[j].camera}
         \/ retry_after' = retry_after \ {job[j].camera},
         UNCHANGED <<inv, observed, claims, unanswered>>
  PROVE  IInv'
<1>1. job[j].camera \in Camera
  BY DEF IInv, GoalsInv, GoalsType, GoalType
<1>2. AutomationInv'
  BY <1>1, PartialDrop DEF Released, IInv, AutomationInv
<1>3. GoalsInv'
  BY NoClaim DEF Released, IInv
<1>. QED
  BY <1>2, <1>3, InventoryKept DEF IInv

LEMMA AcceptInv ==
  ASSUME IInv, NEW j \in Job, AcceptGoal(j)
  PROVE  GoalsInv'
<1>. DEFINE g == [job[j] EXCEPT !.step = "claim"]
<1>1. job[j] \in GoalType /\ job[j].step = "sent"
  BY DEF AcceptGoal, At, IInv, GoalsInv, GoalsType
<1>2. job[j].at = NoPlacement
  BY <1>1, GoalIsNoJob DEF IInv, GoalsInv, PlaceInv
<1>3. g \in GoalType /\ g.step = "claim" /\ g.at = NoPlacement
  BY <1>1, <1>2 DEF GoalType, Step
<1>4. job' = [job EXCEPT ![j] = g] /\ UNCHANGED <<claims, unanswered>>
  BY DEF AcceptGoal, IInv, GoalsInv, GoalsType
<1>. HIDE DEF g
<1>. QED
  BY <1>3, <1>4, NoClaim DEF IInv, Placed

LEMMA JobStepInv ==
  ASSUME IInv, NEW j \in Job, JobStep(j)
  PROVE  IInv'
<1>1. CASE \/ AcceptGoal(j) \/ Claim(j) \/ Reserve(j) \/ Provisioned(j) \/ NeverAnswered(j)
  <2>1. GoalsInv'
    BY <1>1, AcceptInv, ClaimInv, ReserveInv, ProvisionedInv, NeverAnsweredInv
  <2>2. UNCHANGED <<inv, observed, autoVars>>
    BY <1>1 DEF AcceptGoal, Claim, Reserve, Provisioned, NeverAnswered
  <2>. QED
    BY <2>1, <2>2, InventoryKept, AutomationKept DEF IInv
<1>2. CASE ClaimRefused(j) \/ ReserveRefused(j) \/ ProvisionFails(j) \/ SaveRefused(j)
  <2>1. job[j] # NoJob /\ job[j].step \in {"claim", "reserve", "provision", "save"}
        /\ Finish(j, FALSE) /\ UNCHANGED <<inv, observed, autoVars, unanswered>>
    BY <1>2 DEF ClaimRefused, ReserveRefused, ProvisionFails, SaveRefused, At
  <2>2. GoalsInv'
    BY <2>1, FinishInv
  <2>. QED
    BY <2>1, <2>2, InventoryKept, AutomationKept DEF IInv
<1>3. CASE Save(j)
  <2>1. job[j] # NoJob /\ job[j].step = "save" /\ Finish(j, TRUE)
        /\ UNCHANGED <<observed, autoVars, unanswered>>
    BY <1>3 DEF Save, At
  <2>2. GoalsInv'
    BY <2>1, FinishInv
  <2>3. InventoryInv'
    BY <1>3, SaveInventory
  <2>. QED
    BY <2>1, <2>2, <2>3, AutomationKept DEF IInv
<1>4. CASE RejectGoal(j)
  BY <1>4, ReleasedInv DEF RejectGoal, At
<1>5. CASE _auto_enroll_finished(j)
  BY <1>5, ReleasedInv DEF _auto_enroll_finished, At
<1>. QED
  BY <1>1, <1>2, <1>3, <1>4, <1>5 DEF JobStep

LEMMA Inductive == IInv /\ [Next]_vars => IInv'
<1>. SUFFICES ASSUME IInv, [Next]_vars PROVE IInv'
  OBVIOUS
<1>1. CASE \E c \in Camera, n \in Network \cup {Nowhere} : Plug(c, n)
  BY <1>1, PlugStepInv
<1>2. CASE Operator
  BY <1>2, OperatorInv
<1>3. CASE \E c \in Camera : _reconcile_automation(c)
  BY <1>3, ReconcileInv
<1>4. CASE \E c \in Camera : RetryExpires(c)
  BY <1>4, GoalsKept, InventoryKept DEF RetryExpires, IInv, AutomationInv
<1>5. CASE \E j \in Job : JobStep(j)
  BY <1>5, JobStepInv
<1>6. CASE UNCHANGED vars
  BY <1>6, GoalsKept, InventoryKept, AutomationKept DEF vars, claims, autoVars, IInv
<1>. QED
  BY <1>1, <1>2, <1>3, <1>4, <1>5, <1>6 DEF Next

LEMMA Invariant == Spec => []IInv
BY InitInv, Inductive, PTL DEF Spec

(***************************************************************************)
(* The theorems.                                                           *)
(***************************************************************************)

(* Every variable stays in its set, whatever is enrolled, placed, edited   *)
(* or plugged elsewhere meanwhile, and a goal past its reservation has an  *)
(* address of some port's pool.                                            *)
THEOREM EnrollmentTypes == Spec => []TypeOK
<1>1. IInv => TypeOK
  <2>. SUFFICES ASSUME IInv PROVE TypeOK
    OBVIOUS
  <2>1. \A j \in Job : Reserved(j) => job[j].at \in Placement
    BY DEF IInv, GoalsInv, PlaceInv, Reserved, At
  <2>. QED
    BY <2>1 DEF IInv, InventoryInv, AutomationInv, GoalsInv, GoalsType, TypeOK
<1>. QED
  BY <1>1, Invariant, PTL

(* No two enrollments hold an address of one network at a time: the finally*)
(* clause of a refused goal never gives up another goal's network, and one  *)
(* that is never answered keeps its network for good.                      *)
THEOREM EnrollmentsKeepApart == Spec => []EnrollmentsExclusive
<1>1. IInv => EnrollmentsExclusive
  BY DEF IInv, GoalsInv, NetworkInv
<1>. QED
  BY <1>1, Invariant, PTL

(* No sensor is replaced or moved by two goals at a time.                  *)
THEOREM PlacementsKeepApart == Spec => []PlacementsExclusive
<1>1. IInv => PlacementsExclusive
  <2>. SUFFICES ASSUME IInv, NEW j \in Job, NEW k \in Job, j # k, Placing(j), Placing(k)
                PROVE  Ids(job[j]) \cap Ids(job[k]) = {}
    BY DEF PlacementsExclusive
  <2>1. job[j] \in GoalType /\ job[k] \in GoalType
    BY DEF Placing, IInv, GoalsInv, GoalsType
  <2>2. Ids(job[j]) = Held(job[j]) /\ Ids(job[k]) = Held(job[k])
    BY <2>1, IdsHeld DEF IInv
  <2>. QED
    BY <2>2 DEF IInv, GoalsInv, PlacementInv
<1>. QED
  BY <1>1, Invariant, PTL

(* However goals, edits and cables interleave, no two enrolled sensors are *)
(* one camera or have one address.                                         *)
THEOREM AddressesStayDistinct == Spec => []AddressesDistinct
<1>1. IInv => AddressesDistinct
  BY DEF IInv, InventoryInv, AddressesDistinct
<1>. QED
  BY <1>1, Invariant, PTL
=============================================================================
