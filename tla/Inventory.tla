------------------------------ MODULE Inventory ------------------------------
(***************************************************************************)
(* The inventory of vixel_manager/registry.py as data: the enrolled        *)
(* sensors, the catalogue of every camera ever seen, the capture groups    *)
(* and the port modes; what makes an inventory acceptable to the file, and *)
(* what each edit of the registry makes of it.  Names, models, poses,      *)
(* timestamps and the history list are left out: no edit reads them.       *)
(*                                                                         *)
(* A camera stands for one piece of hardware: one MAC address, one pair    *)
(* of vendor and serial.  Its sensor ID is <<"new", c>> when this release  *)
(* made it up, <<"old", c>> when an older release did (registry.py:69).    *)
(***************************************************************************)
EXTENDS FiniteSets, PartialFunctions, Naturals, TLC

CONSTANTS
  Camera,    \* the hardware
  Serial,    \* [Camera -> serial number]; two vendors may use the same one
  Network,   \* managed networks: the ports of the machine
  Address,   \* the addresses of each network's pool
  Group,     \* the capture groups
  MachineMode,   \* [Network -> Mode] as the machine file has it
  MaxDevices,    \* [Network -> devices on the port in direct mode]
  SwitchedMax    \* [Network -> devices on the port in switched mode]

Mode == {"direct", "switched"}
SensorId == {"new", "old"} \X Camera
CatalogState == {"observed", "enrolled", "archived", "retired"}

\* What validate_machine demands of the ports.  A network configured as
\* switched may have room for several devices in direct mode too.
ASSUME MachineAssumption ==
  /\ Address \subseteq Nat \ {0} /\ IsFiniteSet(Address)
  /\ MachineMode \in [Network -> Mode]
  /\ MaxDevices \in [Network -> 1..Cardinality(Address)]
  /\ SwitchedMax \in [Network -> 1..Cardinality(Address)]
  /\ \A n \in Network : MachineMode[n] = "direct" => MaxDevices[n] = 1

Placement == [network: Network, address: Address]
Enrollment == [camera: Camera, at: Placement]
Known == [camera: Camera, provider: {"genicam", "lucid"}, state: CatalogState]

InventoryType(i) ==
  /\ DOMAIN i = {"sensors", "known", "groups", "modes"}
  /\ DOMAIN i.sensors \subseteq SensorId /\ DOMAIN i.known \subseteq SensorId
  /\ \A s \in DOMAIN i.sensors : i.sensors[s] \in Enrollment /\ i.sensors[s].camera = s[2]
  /\ \A k \in DOMAIN i.known : i.known[k] \in Known /\ i.known[k].camera = k[2]
  /\ i.groups \in Partial(Group, SUBSET SensorId)
  /\ i.modes \in [Network -> Mode]

(***************************************************************************)
(* validate_inventory: what a file must satisfy to be written or read.     *)
(***************************************************************************)

SensorsDistinct(i) ==
  \A s, t \in DOMAIN i.sensors :
    s # t => /\ i.sensors[s].camera # i.sensors[t].camera
             /\ i.sensors[s].at # i.sensors[t].at

\* The catalogue is keyed by the provider's name and the bare serial, not by
\* the hardware key the enrolled sensors are compared by.
KnownDistinct(i) ==
  \A k, l \in DOMAIN i.known :
    k # l => \/ i.known[k].provider # i.known[l].provider
             \/ Serial[i.known[k].camera] # Serial[i.known[l].camera]

EnrolledAreKnown(i) == DOMAIN i.sensors \subseteq DOMAIN i.known

GroupsAreEnrolled(i) ==
  \A g \in DOMAIN i.groups :
    i.groups[g] # {} /\ i.groups[g] \subseteq DOMAIN i.sensors

Valid(i) ==
  /\ SensorsDistinct(i)
  /\ KnownDistinct(i)
  /\ EnrolledAreKnown(i)
  /\ GroupsAreEnrolled(i)

\* What validation writes back: an enrolled sensor's catalogue state.
Normalized(i) ==
  [i EXCEPT !.known = [k \in DOMAIN i.known |->
     IF k \in DOMAIN i.sensors
       THEN [i.known[k] EXCEPT !.state = "enrolled"]
       ELSE i.known[k]]]

(***************************************************************************)
(* Identity.  A known camera keeps the ID it has: by MAC first, by vendor  *)
(* and serial second, the oldest record if there are two.                  *)
(***************************************************************************)

new_sensor_id(c) == <<"new", c>>

sensor_id_for_observation(i, c) ==
  IF <<"old", c>> \in DOMAIN i.known THEN <<"old", c>> ELSE new_sensor_id(c)

ensure_known(i, id, c) ==
  IF id \in DOMAIN i.known THEN i.known
  ELSE Put(i.known, id, [camera |-> c, provider |-> "genicam", state |-> "observed"])

(***************************************************************************)
(* Room on a port, by its mode now.                                        *)
(***************************************************************************)

OnNetwork(i, n) == {s \in DOMAIN i.sensors : i.sensors[s].at.network = n}
Used(i, n) == {i.sensors[s].at.address : s \in OnNetwork(i, n)}
port_capacity(i, n) == IF i.modes[n] = "direct" THEN MaxDevices[n] ELSE SwitchedMax[n]

\* The address allocate picks: the requested one, or the first free one.
FirstFree(i, n) == CHOOSE a \in Address \ Used(i, n) :
                     \A b \in Address \ Used(i, n) : a <= b

Allocations(i, n, requested) ==
  IF Cardinality(Used(i, n)) >= port_capacity(i, n) THEN {}
  ELSE {[network |-> n, address |-> a] :
          a \in IF requested = 0 THEN {FirstFree(i, n)} ELSE {requested} \ Used(i, n)}

(***************************************************************************)
(* The edits: what each one makes of the inventory in memory, and when it  *)
(* refuses before touching it.                                             *)
(***************************************************************************)

MayEnroll(i, c) ==
  LET id == sensor_id_for_observation(i, c)
  IN  /\ id \notin DOMAIN i.sensors
      /\ id \in DOMAIN i.known => i.known[id].state # "retired"

enroll(i, c, at) ==
  LET id == sensor_id_for_observation(i, c)
      known == ensure_known(i, id, c)
  IN  [i EXCEPT !.sensors = Put(i.sensors, id, [camera |-> c, at |-> at]),
                !.known = Put(known, id, [known[id] EXCEPT !.state = "enrolled"])]

\* The ID of a replacement is made up anew, whatever the catalogue calls it.
MayReplace(i, source, c) ==
  source \in DOMAIN i.sensors /\ new_sensor_id(c) \notin DOMAIN i.sensors

replace_sensor(i, source, c) ==
  LET id == new_sensor_id(c)
      known == ensure_known(i, id, c)
      taken == Put(known, id, [known[id] EXCEPT !.state = "enrolled"])
  IN  [i EXCEPT
        !.sensors = Put(Drop(i.sensors, source), id,
                        [camera |-> c, at |-> i.sensors[source].at]),
        !.groups = [g \in DOMAIN i.groups |->
                      IF source \in i.groups[g]
                        THEN (i.groups[g] \ {source}) \cup {id} ELSE i.groups[g]],
        !.known = Put(taken, source, [taken[source] EXCEPT !.state = "retired"])]

MayMove(i, s) == s \in DOMAIN i.sensors
move_sensor(i, s, at) == [i EXCEPT !.sensors[s].at = at]

MayForget(i, s) ==
  s \in DOMAIN i.sensors /\ \A g \in DOMAIN i.groups : s \notin i.groups[g]

forget(i, s) ==
  [i EXCEPT !.sensors = Drop(i.sensors, s),
            !.known = Put(i.known, s, [i.known[s] EXCEPT !.state = "archived"])]

MayPurge(i, k) == k \in DOMAIN i.known \ DOMAIN i.sensors
purge_known_sensor(i, k) == [i EXCEPT !.known = Drop(i.known, k)]

MaySetPortMode(i, n, mode) == mode = "direct" => Cardinality(OnNetwork(i, n)) <= 1
set_port_mode(i, n, mode) == [i EXCEPT !.modes[n] = mode]

upsert_group(i, g, members) == [i EXCEPT !.groups = Put(i.groups, g, members)]

MayDeleteGroup(i, g) == g \in DOMAIN i.groups
delete_group(i, g) == [i EXCEPT !.groups = Drop(i.groups, g)]

\* A sighting only ever adds a record; it is not saved by itself.
record_observation(i, c) ==
  [i EXCEPT !.known = ensure_known(i, sensor_id_for_observation(i, c), c)]
=============================================================================
