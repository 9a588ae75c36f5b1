--------------------------- MODULE InventoryProofs ---------------------------
(***************************************************************************)
(* What the edits make of an inventory, for every set of cameras,          *)
(* networks, addresses and groups: lemmas the theorems about Registry and  *)
(* Enrollment share.                                                       *)
(***************************************************************************)
EXTENDS Inventory, CommonLemmas, FiniteSetTheorems, TLAPS

(* The part of InventoryType the proofs need.                              *)
Shape(i) ==
  /\ DOMAIN i = {"sensors", "known", "groups", "modes"}
  /\ DOMAIN i.known \subseteq SensorId
  /\ \A k \in DOMAIN i.known : i.known[k] \in Known /\ i.known[k].camera = k[2]

(***************************************************************************)
(* The operators on inventories.                                           *)
(***************************************************************************)

(* Validation changes the catalogue states of a valid inventory only.      *)
LEMMA NormalizedGet ==
  ASSUME NEW i, Shape(i)
  PROVE  LET n == Normalized(i) IN
         /\ Shape(n)
         /\ n.sensors = i.sensors /\ n.groups = i.groups /\ n.modes = i.modes
         /\ DOMAIN n.known = DOMAIN i.known
         /\ \A k \in DOMAIN i.known : /\ n.known[k].camera = i.known[k].camera
                                      /\ n.known[k].provider = i.known[k].provider
<1>. DEFINE K == [k \in DOMAIN i.known |->
                    IF k \in DOMAIN i.sensors
                      THEN [i.known[k] EXCEPT !.state = "enrolled"]
                      ELSE i.known[k]]
<1>1. \A k \in DOMAIN i.known :
        K[k] \in Known /\ K[k].camera = i.known[k].camera
                       /\ K[k].provider = i.known[k].provider
  BY DEF Shape, Known, CatalogState
<1>2. Normalized(i) = [i EXCEPT !.known = K]
  BY DEF Normalized
<1>3. DOMAIN K = DOMAIN i.known
  OBVIOUS
<1>. HIDE DEF K
<1>. QED
  BY <1>1, <1>2, <1>3 DEF Shape

LEMMA NormalizedValid ==
  ASSUME NEW i, Shape(i), Valid(i)
  PROVE  Valid(Normalized(i))
BY NormalizedGet
   DEF Valid, SensorsDistinct, KnownDistinct, EnrolledAreKnown, GroupsAreEnrolled

LEMMA NormalizedTwice ==
  ASSUME NEW i, Shape(i)
  PROVE  Normalized(Normalized(i)) = Normalized(i)
<1>. DEFINE n == Normalized(i)
<1>1. n.sensors = i.sensors /\ DOMAIN n.known = DOMAIN i.known /\ Shape(n)
  BY NormalizedGet
<1>2. n.known = [k \in DOMAIN i.known |->
                   IF k \in DOMAIN i.sensors
                     THEN [i.known[k] EXCEPT !.state = "enrolled"]
                     ELSE i.known[k]]
  BY DEF Normalized, Shape
<1>3. \A k \in DOMAIN n.known \cap DOMAIN n.sensors :
        [n.known[k] EXCEPT !.state = "enrolled"] = n.known[k]
  <2>. SUFFICES ASSUME NEW k \in DOMAIN n.known \cap DOMAIN n.sensors
                PROVE  [n.known[k] EXCEPT !.state = "enrolled"] = n.known[k]
    OBVIOUS
  <2>1. n.known[k] = [i.known[k] EXCEPT !.state = "enrolled"] /\ i.known[k] \in Known
    BY <1>1, <1>2 DEF Shape
  <2>. QED
    BY <2>1 DEF Known
<1>4. n.known = [k \in DOMAIN n.known |->
                   IF k \in DOMAIN n.sensors
                     THEN [n.known[k] EXCEPT !.state = "enrolled"]
                     ELSE n.known[k]]
  BY <1>1, <1>2, <1>3
<1>5. n = [n EXCEPT !.known = n.known]
  <2>1. n = [x \in DOMAIN i |-> n[x]]
    BY DEF Normalized
  <2>2. DOMAIN n = DOMAIN i
    BY DEF Normalized
  <2>. HIDE DEF n
  <2>. QED
    BY <2>1, <2>2
<1>6. Normalized(n) = [n EXCEPT !.known = n.known]
  <2>. HIDE DEF n
  <2>. QED
    BY <1>4 DEF Normalized
<1>. QED
  BY <1>5, <1>6

(* What a record of the catalogue may become.                              *)
LEMMA NewState ==
  ASSUME NEW r \in Known, NEW state \in CatalogState
  PROVE  /\ [r EXCEPT !.state = state] \in Known
         /\ [r EXCEPT !.state = state].camera = r.camera
BY DEF Known

LEMMA IdOfObservation ==
  ASSUME NEW i, NEW c \in Camera
  PROVE  /\ sensor_id_for_observation(i, c) \in SensorId /\ new_sensor_id(c) \in SensorId
         /\ sensor_id_for_observation(i, c)[2] = c
         /\ sensor_id_for_observation(i, c) \in {<<"old", c>>, new_sensor_id(c)}
         /\ new_sensor_id(c)[2] = c
BY DEF sensor_id_for_observation, new_sensor_id, SensorId

LEMMA EnsureKnown ==
  ASSUME NEW i, Shape(i), NEW c \in Camera, NEW id, id[2] = c
  PROVE  \A k \in DOMAIN ensure_known(i, id, c) :
           /\ ensure_known(i, id, c)[k] \in Known
           /\ ensure_known(i, id, c)[k].camera = k[2]
<1>. DEFINE seen == [camera |-> c, provider |-> "genicam", state |-> "observed"]
<1>1. seen \in Known /\ seen.camera = id[2]
  BY DEF Known, CatalogState
<1>. HIDE DEF seen
<1>2. ensure_known(i, id, c) = IF id \in DOMAIN i.known THEN i.known
                               ELSE Put(i.known, id, seen)
  BY DEF ensure_known, seen
<1>. QED
  BY <1>1, <1>2 DEF Shape, Put

LEMMA EnsureKnownKeeps ==
  ASSUME NEW i, NEW c, NEW id
  PROVE  \A k \in DOMAIN i.known : ensure_known(i, id, c)[k] = i.known[k]
BY DEF ensure_known, Put

LEMMA EnsureKnownDomain ==
  ASSUME NEW i, NEW c, NEW id
  PROVE  DOMAIN ensure_known(i, id, c) = (DOMAIN i.known) \cup {id}
BY DEF ensure_known, Put

(* Giving one record of a catalogue another state keeps it a catalogue.    *)
LEMMA PutState ==
  ASSUME NEW known, NEW id \in DOMAIN known, NEW state \in CatalogState,
         \A k \in DOMAIN known : known[k] \in Known /\ known[k].camera = k[2]
  PROVE  LET after == Put(known, id, [known[id] EXCEPT !.state = state]) IN
         /\ DOMAIN after = DOMAIN known
         /\ \A k \in DOMAIN after : after[k] \in Known /\ after[k].camera = k[2]
<1>. DEFINE r == [known[id] EXCEPT !.state = state]
<1>1. r \in Known /\ r.camera = id[2]
  BY NewState
<1>. HIDE DEF r
<1>2. /\ DOMAIN Put(known, id, r) = (DOMAIN known) \cup {id}
      /\ Put(known, id, r)[id] = r
      /\ \A x \in DOMAIN known : x # id => Put(known, id, r)[x] = known[x]
  BY DEF Put
<1>3. /\ DOMAIN Put(known, id, r) = DOMAIN known
      /\ \A k \in DOMAIN known : Put(known, id, r)[k] \in Known
                                 /\ Put(known, id, r)[k].camera = k[2]
  BY <1>1, <1>2
<1>. QED
  BY <1>3 DEF r

(***************************************************************************)
(* Every edit makes an inventory of an inventory.                          *)
(***************************************************************************)

LEMMA EnrollShape ==
  ASSUME NEW i, Shape(i), NEW c \in Camera, NEW at
  PROVE  Shape(enroll(i, c, at))
<1>. DEFINE id == sensor_id_for_observation(i, c)
            known == ensure_known(i, id, c)
            after == Put(known, id, [known[id] EXCEPT !.state = "enrolled"])
<1>1. id[2] = c
  BY IdOfObservation
<1>2. /\ id \in DOMAIN known
      /\ \A k \in DOMAIN known : known[k] \in Known /\ known[k].camera = k[2]
  <2>. HIDE DEF id
  <2>1. DOMAIN known = (DOMAIN i.known) \cup {id}
    BY EnsureKnownDomain
  <2>2. \A k \in DOMAIN known : known[k] \in Known /\ known[k].camera = k[2]
    BY <1>1, EnsureKnown
  <2>. QED
    BY <2>1, <2>2
<1>3. \A k \in DOMAIN after : after[k] \in Known /\ after[k].camera = k[2]
  <2>. HIDE DEF id, known
  <2>1. "enrolled" \in CatalogState
    BY DEF CatalogState
  <2>. QED
    BY <1>2, <2>1, PutState
<1>4. DOMAIN after \subseteq SensorId
  <2>1. DOMAIN known = (DOMAIN i.known) \cup {id}
    BY EnsureKnownDomain
  <2>2. DOMAIN after = (DOMAIN known) \cup {id}
    BY DEF Put
  <2>. QED
    BY <2>1, <2>2, IdOfObservation DEF Shape
<1>5. enroll(i, c, at) = [i EXCEPT !.sensors = Put(i.sensors, id, [camera |-> c, at |-> at]),
                                   !.known = after]
  BY DEF enroll
<1>. HIDE DEF after
<1>. QED
  BY <1>3, <1>4, <1>5 DEF Shape

LEMMA ReplaceShape ==
  ASSUME NEW i, Shape(i), EnrolledAreKnown(i), NEW s \in DOMAIN i.sensors,
         NEW c \in Camera
  PROVE  Shape(replace_sensor(i, s, c))
<1>. DEFINE id == new_sensor_id(c)
            known == ensure_known(i, id, c)
            taken == Put(known, id, [known[id] EXCEPT !.state = "enrolled"])
            after == Put(taken, s, [taken[s] EXCEPT !.state = "retired"])
<1>. "enrolled" \in CatalogState /\ "retired" \in CatalogState
  BY DEF CatalogState
<1>1. id[2] = c
  BY IdOfObservation
<1>2. /\ DOMAIN known = (DOMAIN i.known) \cup {id}
      /\ \A k \in DOMAIN known : known[k] \in Known /\ known[k].camera = k[2]
  <2>. HIDE DEF id
  <2>1. DOMAIN known = (DOMAIN i.known) \cup {id}
    BY EnsureKnownDomain
  <2>2. \A k \in DOMAIN known : known[k] \in Known /\ known[k].camera = k[2]
    BY <1>1, EnsureKnown
  <2>. QED
    BY <2>1, <2>2
<1>3. /\ DOMAIN taken = DOMAIN known
      /\ \A k \in DOMAIN taken : taken[k] \in Known /\ taken[k].camera = k[2]
  <2>. HIDE DEF id, known
  <2>. QED
    BY <1>2, PutState
<1>4. s \in DOMAIN taken
  BY <1>2, <1>3 DEF EnrolledAreKnown
<1>5. \A k \in DOMAIN after : after[k] \in Known /\ after[k].camera = k[2]
  <2>. HIDE DEF taken
  <2>. QED
    BY <1>3, <1>4, PutState
<1>6. DOMAIN after \subseteq SensorId
  <2>1. DOMAIN after = (DOMAIN taken) \cup {s}
    BY DEF Put
  <2>. HIDE DEF taken, after, known
  <2>. QED
    BY <1>2, <1>3, <1>4, <2>1, IdOfObservation DEF Shape
<1>7. \E sensors, groups :
        replace_sensor(i, s, c) =
          [i EXCEPT !.sensors = sensors, !.groups = groups, !.known = after]
  BY DEF replace_sensor
<1>. HIDE DEF after
<1>. QED
  BY <1>5, <1>6, <1>7 DEF Shape

LEMMA ForgetShape ==
  ASSUME NEW i, Shape(i), EnrolledAreKnown(i), NEW s \in DOMAIN i.sensors
  PROVE  Shape(forget(i, s))
<1>. DEFINE after == Put(i.known, s, [i.known[s] EXCEPT !.state = "archived"])
<1>1. s \in DOMAIN i.known /\ "archived" \in CatalogState
  BY DEF EnrolledAreKnown, CatalogState
<1>2. /\ DOMAIN after = DOMAIN i.known
      /\ \A k \in DOMAIN after : after[k] \in Known /\ after[k].camera = k[2]
  BY <1>1, PutState DEF Shape
<1>3. forget(i, s) = [i EXCEPT !.sensors = Drop(i.sensors, s), !.known = after]
  BY DEF forget
<1>. HIDE DEF after
<1>. QED
  BY <1>2, <1>3 DEF Shape

LEMMA PurgeShape ==
  ASSUME NEW i, Shape(i), NEW k
  PROVE  Shape(purge_known_sensor(i, k))
BY DEF Shape, purge_known_sensor, Drop, Restrict

LEMMA OtherShapes ==
  ASSUME NEW i, Shape(i)
  PROVE  /\ \A s, at : Shape(move_sensor(i, s, at))
         /\ \A n, mode : Shape(set_port_mode(i, n, mode))
         /\ \A g, members : Shape(upsert_group(i, g, members))
         /\ \A g : Shape(delete_group(i, g))
BY DEF Shape, move_sensor, set_port_mode, upsert_group, delete_group

(***************************************************************************)
(* The other half of InventoryType.                                        *)
(***************************************************************************)

Rest(i) ==
  /\ DOMAIN i.sensors \subseteq SensorId
  /\ \A s \in DOMAIN i.sensors : i.sensors[s] \in Enrollment /\ i.sensors[s].camera = s[2]
  /\ i.groups \in Partial(Group, SUBSET SensorId)
  /\ i.modes \in [Network -> Mode]

LEMMA TypeParts ==
  ASSUME NEW i
  PROVE  InventoryType(i) <=> Shape(i) /\ Rest(i)
BY DEF InventoryType, Shape, Rest

(* Adding an enrolment of the camera its ID names, and dropping one.       *)
LEMMA PutSensor ==
  ASSUME NEW sensors, DOMAIN sensors \subseteq SensorId,
         \A s \in DOMAIN sensors : sensors[s] \in Enrollment /\ sensors[s].camera = s[2],
         NEW id \in SensorId, NEW at \in Placement
  PROVE  LET after == Put(sensors, id, [camera |-> id[2], at |-> at]) IN
         /\ DOMAIN after \subseteq SensorId
         /\ \A s \in DOMAIN after : after[s] \in Enrollment /\ after[s].camera = s[2]
<1>. DEFINE e == [camera |-> id[2], at |-> at]
<1>1. e \in Enrollment /\ e.camera = id[2]
  BY DEF Enrollment, SensorId
<1>. HIDE DEF e
<1>2. \A s \in DOMAIN Put(sensors, id, e) :
        Put(sensors, id, e)[s] \in Enrollment /\ Put(sensors, id, e)[s].camera = s[2]
  BY <1>1 DEF Put
<1>3. DOMAIN Put(sensors, id, e) \subseteq SensorId
  BY DEF Put
<1>. QED
  BY <1>2, <1>3 DEF e

LEMMA DropSensor ==
  ASSUME NEW sensors, DOMAIN sensors \subseteq SensorId,
         \A s \in DOMAIN sensors : sensors[s] \in Enrollment /\ sensors[s].camera = s[2],
         NEW id
  PROVE  LET after == Drop(sensors, id) IN
         /\ DOMAIN after \subseteq SensorId
         /\ \A s \in DOMAIN after : after[s] \in Enrollment /\ after[s].camera = s[2]
BY DEF Drop, Restrict

LEMMA NormalizedType ==
  ASSUME NEW i, InventoryType(i)
  PROVE  InventoryType(Normalized(i))
BY TypeParts, NormalizedGet DEF Rest

LEMMA EnrollType ==
  ASSUME NEW i, InventoryType(i), NEW c \in Camera, NEW at \in Placement
  PROVE  InventoryType(enroll(i, c, at))
<1>. DEFINE id == sensor_id_for_observation(i, c)
            after == enroll(i, c, at)
<1>1. id \in SensorId /\ id[2] = c /\ Shape(i) /\ Rest(i)
  BY IdOfObservation, TypeParts
<1>2. Shape(after)
  BY <1>1, EnrollShape
<1>3. /\ after.sensors = Put(i.sensors, id, [camera |-> c, at |-> at])
      /\ after.groups = i.groups /\ after.modes = i.modes
  BY <1>1 DEF enroll, Shape
<1>. HIDE DEF id, after
<1>4. Rest(after)
  BY <1>1, <1>3, PutSensor DEF Rest
<1>. QED
  BY <1>2, <1>4, TypeParts DEF after

LEMMA ReplaceType ==
  ASSUME NEW i, InventoryType(i), EnrolledAreKnown(i), NEW s \in DOMAIN i.sensors,
         NEW c \in Camera
  PROVE  InventoryType(replace_sensor(i, s, c))
<1>. DEFINE id == new_sensor_id(c)
            after == replace_sensor(i, s, c)
            groups == [g \in DOMAIN i.groups |->
                         IF s \in i.groups[g]
                           THEN (i.groups[g] \ {s}) \cup {id} ELSE i.groups[g]]
<1>1. id \in SensorId /\ id[2] = c /\ Shape(i) /\ Rest(i)
  BY IdOfObservation, TypeParts
<1>2. Shape(after)
  BY <1>1, ReplaceShape
<1>3. /\ after.sensors = Put(Drop(i.sensors, s), id, [camera |-> c, at |-> i.sensors[s].at])
      /\ after.groups = groups /\ after.modes = i.modes
  BY <1>1 DEF replace_sensor, Shape
<1>4. groups \in Partial(Group, SUBSET SensorId)
  <2>. HIDE DEF id
  <2>1. DOMAIN i.groups \subseteq Group
        /\ \A g \in DOMAIN i.groups : i.groups[g] \in SUBSET SensorId
    BY <1>1, PartialGet DEF Rest
  <2>2. groups \in [DOMAIN i.groups -> SUBSET SensorId]
    BY <1>1, <2>1
  <2>. QED
    BY <2>1, <2>2, PartialIntro
<1>5. i.sensors[s].at \in Placement
  BY <1>1 DEF Rest, Enrollment
<1>. HIDE DEF id, after, groups
<1>6. Rest(after)
  <2>. DEFINE dropped == Drop(i.sensors, s)
  <2>1. /\ DOMAIN dropped \subseteq SensorId
        /\ \A t \in DOMAIN dropped : dropped[t] \in Enrollment /\ dropped[t].camera = t[2]
    BY <1>1, DropSensor DEF Rest
  <2>. HIDE DEF dropped
  <2>2. after.sensors = Put(dropped, id, [camera |-> id[2], at |-> i.sensors[s].at])
    BY <1>1, <1>3 DEF dropped
  <2>3. /\ DOMAIN after.sensors \subseteq SensorId
        /\ \A t \in DOMAIN after.sensors :
             after.sensors[t] \in Enrollment /\ after.sensors[t].camera = t[2]
    BY <1>1, <1>5, <2>1, <2>2, PutSensor
  <2>. QED
    BY <1>1, <1>3, <1>4, <2>3 DEF Rest
<1>. QED
  BY <1>2, <1>6, TypeParts DEF after

LEMMA MoveType ==
  ASSUME NEW i, InventoryType(i), NEW s \in DOMAIN i.sensors, NEW at \in Placement
  PROVE  InventoryType(move_sensor(i, s, at))
<1>. DEFINE after == move_sensor(i, s, at)
            e == [i.sensors[s] EXCEPT !.at = at]
<1>1. Shape(i) /\ Rest(i) /\ Shape(after)
  BY TypeParts, OtherShapes
<1>2. e \in Enrollment /\ e.camera = i.sensors[s].camera
  BY <1>1 DEF Rest, Enrollment
<1>3. /\ after.sensors = [i.sensors EXCEPT ![s] = e]
      /\ after.groups = i.groups /\ after.modes = i.modes
  BY <1>1 DEF move_sensor, Shape
<1>. HIDE DEF e, after
<1>4. Rest(after)
  BY <1>1, <1>2, <1>3 DEF Rest
<1>. QED
  BY <1>1, <1>4, TypeParts DEF after

LEMMA ForgetType ==
  ASSUME NEW i, InventoryType(i), EnrolledAreKnown(i), NEW s \in DOMAIN i.sensors
  PROVE  InventoryType(forget(i, s))
<1>1. Shape(i) /\ Rest(i)
  BY TypeParts
<1>2. Shape(forget(i, s))
  BY <1>1, ForgetShape
<1>3. /\ forget(i, s).sensors = Drop(i.sensors, s)
      /\ forget(i, s).groups = i.groups /\ forget(i, s).modes = i.modes
  BY <1>1 DEF forget, Shape
<1>4. Rest(forget(i, s))
  BY <1>1, <1>3, DropSensor DEF Rest
<1>. QED
  BY <1>2, <1>4, TypeParts

LEMMA OtherTypes ==
  ASSUME NEW i, InventoryType(i)
  PROVE  /\ \A k : InventoryType(purge_known_sensor(i, k))
         /\ \A n \in Network, mode \in Mode : InventoryType(set_port_mode(i, n, mode))
         /\ \A g \in Group, members \in SUBSET SensorId :
              InventoryType(upsert_group(i, g, members))
         /\ \A g : InventoryType(delete_group(i, g))
<1>1. Shape(i) /\ Rest(i)
  BY TypeParts
<1>2. ASSUME NEW k PROVE InventoryType(purge_known_sensor(i, k))
  <2>1. Rest(purge_known_sensor(i, k))
    BY <1>1 DEF Rest, purge_known_sensor, Shape
  <2>. QED
    BY <1>1, <2>1, PurgeShape, TypeParts
<1>3. ASSUME NEW n \in Network, NEW mode \in Mode
      PROVE  InventoryType(set_port_mode(i, n, mode))
  <2>1. /\ set_port_mode(i, n, mode).modes = [i.modes EXCEPT ![n] = mode]
        /\ set_port_mode(i, n, mode).sensors = i.sensors
        /\ set_port_mode(i, n, mode).groups = i.groups
    BY <1>1 DEF set_port_mode, Shape
  <2>2. Rest(set_port_mode(i, n, mode))
    BY <1>1, <2>1 DEF Rest
  <2>. QED
    BY <1>1, <2>2, OtherShapes, TypeParts
<1>4. ASSUME NEW g \in Group, NEW members \in SUBSET SensorId
      PROVE  InventoryType(upsert_group(i, g, members))
  <2>1. Put(i.groups, g, members) \in Partial(Group, SUBSET SensorId)
    BY <1>1, PartialPut DEF Rest
  <2>2. Rest(upsert_group(i, g, members))
    BY <1>1, <2>1 DEF Rest, upsert_group, Shape
  <2>. QED
    BY <1>1, <2>2, OtherShapes, TypeParts
<1>5. ASSUME NEW g PROVE InventoryType(delete_group(i, g))
  <2>1. Drop(i.groups, g) \in Partial(Group, SUBSET SensorId)
    BY <1>1, PartialDrop DEF Rest
  <2>2. Rest(delete_group(i, g))
    BY <1>1, <2>1 DEF Rest, delete_group, Shape
  <2>. QED
    BY <1>1, <2>2, OtherShapes, TypeParts
<1>. QED
  BY <1>2, <1>3, <1>4, <1>5

(* A sighting adds one record at most, and nothing else.                   *)
LEMMA ObserveShape ==
  ASSUME NEW i, Shape(i), NEW c \in Camera
  PROVE  LET after == record_observation(i, c)
             id == sensor_id_for_observation(i, c)
         IN  /\ Shape(after) /\ after.sensors = i.sensors
             /\ after.groups = i.groups /\ after.modes = i.modes
             /\ DOMAIN after.known = (DOMAIN i.known) \cup {id}
             /\ \A k \in DOMAIN i.known : after.known[k] = i.known[k]
<1>. DEFINE id == sensor_id_for_observation(i, c)
            known == ensure_known(i, id, c)
            after == record_observation(i, c)
<1>1. id \in SensorId /\ id[2] = c
  BY IdOfObservation
<1>2. \A k \in DOMAIN known : known[k] \in Known /\ known[k].camera = k[2]
  BY <1>1, EnsureKnown
<1>3. \A k \in DOMAIN i.known : known[k] = i.known[k]
  BY EnsureKnownKeeps
<1>4. DOMAIN known = (DOMAIN i.known) \cup {id}
  BY EnsureKnownDomain
<1>5. after = [i EXCEPT !.known = known]
  BY DEF record_observation
<1>. HIDE DEF known, after
<1>6. /\ DOMAIN after = {"sensors", "known", "groups", "modes"}
      /\ after.known = known /\ after.sensors = i.sensors
      /\ after.groups = i.groups /\ after.modes = i.modes
  BY <1>5 DEF Shape
<1>7. Shape(after)
  BY <1>1, <1>2, <1>4, <1>6 DEF Shape
<1>. QED
  BY <1>3, <1>4, <1>6, <1>7 DEF after

LEMMA ObserveType ==
  ASSUME NEW i, InventoryType(i), NEW c \in Camera
  PROVE  InventoryType(record_observation(i, c))
<1>1. Shape(i) /\ Rest(i)
  BY TypeParts
<1>2. Rest(record_observation(i, c)) /\ Shape(record_observation(i, c))
  BY <1>1, ObserveShape DEF Rest
<1>. QED
  BY <1>2, TypeParts

(***************************************************************************)
(* An allocation is an address of the pool, free and with room on the port.*)
(***************************************************************************)

LEMMA FirstFreeIsFree ==
  ASSUME NEW i, InventoryType(i), NEW n \in Network,
         ~(Cardinality(Used(i, n)) >= port_capacity(i, n))
  PROVE  FirstFree(i, n) \in Address \ Used(i, n)
<1>. DEFINE S == Address \ Used(i, n)
            Least(a) == a \in S /\ \A b \in S : a <= b
<1>1. Used(i, n) \subseteq Address
  BY DEF Used, OnNetwork, InventoryType, Enrollment, Placement
<1>2. port_capacity(i, n) \in 1..Cardinality(Address)
  <2>1. i.modes[n] \in Mode
    BY DEF InventoryType
  <2>. QED
    BY MachineAssumption DEF port_capacity
<1>3. Cardinality(Address) \in Nat
  BY MachineAssumption, FS_CardinalityType
<1>4. S # {}
  <2>1. SUFFICES ASSUME S = {} PROVE FALSE
    OBVIOUS
  <2>2. Used(i, n) = Address
    BY <1>1, <2>1
  <2>3. Cardinality(Used(i, n)) >= port_capacity(i, n)
    BY <1>2, <1>3, <2>2
  <2>. QED
    BY <2>3
<1>5. S \in SUBSET Nat
  BY MachineAssumption
<1>6. \E a \in S : \A b \in S : a <= b
  BY <1>4, <1>5, LeastNatural
<1>. QED
  BY <1>6 DEF FirstFree

LEMMA AllocationsType ==
  ASSUME NEW i, InventoryType(i), NEW n \in Network, NEW r \in Address \cup {0},
         NEW at \in Allocations(i, n, r)
  PROVE  at \in Placement /\ at.network = n
<1>1. ~(Cardinality(Used(i, n)) >= port_capacity(i, n))
  BY DEF Allocations
<1>2. PICK a \in IF r = 0 THEN {FirstFree(i, n)} ELSE {r} \ Used(i, n) :
        at = [network |-> n, address |-> a]
  BY <1>1 DEF Allocations
<1>3. a \in Address
  BY <1>1, <1>2, FirstFreeIsFree
<1>. QED
  BY <1>2, <1>3 DEF Placement
=============================================================================
