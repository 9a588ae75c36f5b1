------------------------------- MODULE Registry -------------------------------
(***************************************************************************)
(* The durable inventory of vixel_manager/registry.py: the copy in memory, *)
(* the file, the steps of one save and the faults that may come between    *)
(* them, the start that reads the file back.                               *)
(*                                                                         *)
(* Every edit holds the registry's lock from its first read to the end of  *)
(* its save, so at most one save is under way.  What a power loss brings   *)
(* back is kept in "stale": until the directory is synced after the        *)
(* rename, the file's previous version may reappear.                       *)
(***************************************************************************)
EXTENDS Inventory

CONSTANTS
  OldFiles,   \* inventories an earlier release left on disk (schema 1)
  Legacy,     \* [camera -> placement] of the pre-inventory file, if any
  Steady,     \* the cameras that stay connected
  MaxFaults,  \* bound: failed saves and crashes
  MaxEdits    \* bound: edits of the inventory

NoFile == [version |-> 0]
NoInventory == [version |-> 0, absent |-> TRUE]

VARIABLES
  memory,   \* registry.inventory, NoInventory while the manager is down
  file,     \* what a start reads: NoFile or [version, inventory, retired]
  stale,    \* what a start reads after a power loss
  save,     \* the save under way: its step and the inventory to fall back to
  unsaved,  \* manager.catalog_dirty
  resets,   \* handlers between their save and catalog_dirty = False
  acked,    \* history: the inventory of the last save that succeeded
  torn,     \* history: a save replaced the file and was not acknowledged
  faults, edits

vars == <<memory, file, stale, save, unsaved, resets, acked, torn, faults, edits>>

Empty == [sensors |-> <<>>, known |-> <<>>, groups |-> <<>>, modes |-> MachineMode]
Document(i) == [version |-> 3, inventory |-> i, retired |-> <<>>]

Idle == [step |-> "none", for |-> "none", before |-> NoInventory]
Saving(for, before) == [step |-> "write", for |-> for, before |-> before]

Up == memory # NoInventory
Free == Up /\ save = Idle

(***************************************************************************)
(* Reading a file: schema 1 kept the retired sensors apart and had no      *)
(* catalogue; the pre-inventory file had only cameras.                     *)
(***************************************************************************)

known_from(sensors, state) ==
  [k \in DOMAIN sensors |->
     [camera |-> sensors[k].camera, provider |-> "lucid", state |-> state]]

migrate_inventory(f) ==
  IF f.version # 1 THEN f.inventory
  ELSE [f.inventory EXCEPT
          !.known = (f.inventory.known @@ known_from(f.inventory.sensors, "enrolled"))
                    @@ known_from(f.retired, "retired")]

migrate_legacy ==
  LET sensors == [s \in {"old"} \X DOMAIN Legacy |->
                    [camera |-> s[2], at |-> Legacy[s[2]]]]
  IN  [Empty EXCEPT !.sensors = sensors, !.known = known_from(sensors, "enrolled")]

Read(f) == IF f = NoFile THEN migrate_legacy ELSE migrate_inventory(f)

FileType(f) ==
  \/ f = NoFile
  \/ /\ f.version \in {1, 3} /\ InventoryType(f.inventory)
     /\ \A s \in DOMAIN f.retired : s \in SensorId /\ f.retired[s] \in Enrollment

\* What an older release wrote, and the pre-inventory file, are acceptable.
ASSUME FilesAssumption ==
  \A f \in OldFiles \cup {NoFile} :
    FileType(f) /\ InventoryType(Read(f)) /\ Valid(Read(f))

ASSUME BoundsAssumption == MaxEdits \in Nat /\ MaxFaults \in Nat

Init ==
  /\ memory = NoInventory
  /\ file \in OldFiles \cup {NoFile}
  /\ stale = file
  /\ save = Idle
  /\ unsaved = FALSE /\ resets = 0
  /\ acked = Normalized(Read(file)) /\ torn = FALSE
  /\ faults = 0 /\ edits = 0

\* Registry.__init__: an inventory that is not valid stops the start; one of
\* an older schema, or none, is written back before the manager goes on.
Start ==
  /\ memory = NoInventory /\ save = Idle
  /\ Valid(Read(file))
  /\ memory' = Normalized(Read(file))
  /\ save' = IF file # NoFile /\ file.version = 3 THEN Idle
             ELSE Saving("start", NoInventory)
  /\ acked' = Normalized(Read(file)) /\ torn' = FALSE
  /\ UNCHANGED <<file, stale, unsaved, resets, faults, edits>>

(***************************************************************************)
(* Edits.  Each changes the memory and starts a save that falls back to    *)
(* the inventory before it.                                                *)
(***************************************************************************)

Edit(for, may, after) ==
  /\ Free /\ edits < MaxEdits
  /\ may
  /\ memory' = after
  /\ save' = Saving(for, memory)
  /\ edits' = edits + 1
  /\ UNCHANGED <<file, stale, unsaved, resets, acked, torn, faults>>

Enroll(c, n, requested) ==
  /\ Free
  /\ \E at \in Allocations(memory, n, requested) :
       Edit("edit", MayEnroll(memory, c), enroll(memory, c, at))

Replace(s, c) == Edit("edit", MayReplace(memory, s, c), replace_sensor(memory, s, c))

Move(s, n) ==
  /\ Free
  /\ \E at \in Allocations(memory, n, 0) :
       Edit("edit", MayMove(memory, s), move_sensor(memory, s, at))

Forget(s) == Edit("edit", MayForget(memory, s), forget(memory, s))

SetPortMode(n, mode) ==
  Edit("edit", MaySetPortMode(memory, n, mode), set_port_mode(memory, n, mode))

UpsertGroup(g, members) == Edit("edit", TRUE, upsert_group(memory, g, members))
DeleteGroup(g) == Edit("edit", MayDeleteGroup(memory, g), delete_group(memory, g))

\* Metadata of an enrolled sensor: saved, though nothing kept here changes.
UpdateSensor(s) == Edit("edit", s \in DOMAIN memory.sensors, memory)

\* These two handlers clear the dirty flag once their save is done.
UpdateKnown(k) == Edit("catalogue", k \in DOMAIN memory.known, memory)
Purge(k) == Edit("catalogue", MayPurge(memory, k), purge_known_sensor(memory, k))

(***************************************************************************)
(* Sightings and the flush.                                                *)
(***************************************************************************)

(* Only a new record asks for a flush.                                      *)
ObserveOnce(c) ==
  /\ Free
  /\ memory' = record_observation(memory, c)
  /\ unsaved' = (unsaved \/ memory' # memory)
  /\ UNCHANGED <<file, stale, save, resets, acked, torn, faults, edits>>

\* A new record, and every camera once a minute, asks for a flush.
Observe(c) ==
  /\ Free
  /\ memory' = record_observation(memory, c)
  /\ unsaved' = TRUE
  /\ UNCHANGED <<file, stale, save, resets, acked, torn, faults, edits>>

Flush ==
  /\ Free /\ unsaved
  /\ save' = Saving("flush", memory)
  /\ UNCHANGED <<memory, file, stale, unsaved, resets, acked, torn, faults, edits>>

\* A handler that saved earlier clears the flag, whatever was seen since.
ResetFlag ==
  /\ Up /\ resets > 0
  /\ resets' = resets - 1
  /\ unsaved' = FALSE
  /\ UNCHANGED <<memory, file, stale, save, acked, torn, faults, edits>>

(***************************************************************************)
(* One save.  The image is validated, written beside the file, renamed     *)
(* over it; then the directory is synced and the memory takes the image.   *)
(* Any failure puts the memory back, also when the file is already new.    *)
(***************************************************************************)

(* A refused edit is left in the memory.                                    *)
SaveRefusedKept ==
  /\ save.step = "write" /\ ~Valid(memory)
  /\ save' = Idle
  /\ UNCHANGED <<memory, file, stale, unsaved, resets, acked, torn, faults, edits>>

SaveRefused ==
  /\ save.step = "write" /\ ~Valid(memory)
  /\ memory' = save.before
  /\ save' = Idle
  /\ UNCHANGED <<file, stale, unsaved, resets, acked, torn, faults, edits>>

(* A failed write leaves the edit in the memory.                            *)
WriteFailsKept ==
  /\ save.step = "write" /\ Valid(memory) /\ faults < MaxFaults
  /\ save' = Idle
  /\ faults' = faults + 1
  /\ UNCHANGED <<memory, file, stale, unsaved, resets, acked, torn, edits>>

WriteFails ==
  /\ save.step = "write" /\ Valid(memory) /\ faults < MaxFaults
  /\ memory' = save.before
  /\ save' = Idle
  /\ faults' = faults + 1
  /\ UNCHANGED <<file, stale, unsaved, resets, acked, torn, edits>>

(* The file is written before the inventory is validated.                   *)
ReplaceFileUnchecked ==
  /\ save.step = "write"
  /\ file' = Document(Normalized(memory))
  /\ save' = [save EXCEPT !.step = "sync"]
  /\ UNCHANGED <<memory, stale, unsaved, resets, acked, torn, faults, edits>>

ReplaceFile ==
  /\ save.step = "write" /\ Valid(memory)
  /\ file' = Document(Normalized(memory))
  /\ save' = [save EXCEPT !.step = "sync"]
  /\ UNCHANGED <<memory, stale, unsaved, resets, acked, torn, faults, edits>>

(* The save returns without syncing the directory.                          *)
NoSync ==
  /\ save.step = "sync"
  /\ memory' = Normalized(memory)
  /\ acked' = Normalized(memory) /\ torn' = FALSE
  /\ save' = Idle
  /\ unsaved' = (unsaved /\ save.for # "flush")
  /\ resets' = resets + (IF save.for = "catalogue" THEN 1 ELSE 0)
  /\ UNCHANGED <<file, stale, faults, edits>>

(* Every save is followed by a reset of the flag.                           *)
SyncAndReset ==
  /\ save.step = "sync"
  /\ stale' = file
  /\ memory' = Normalized(memory)
  /\ acked' = Normalized(memory) /\ torn' = FALSE
  /\ save' = Idle
  /\ resets' = resets + 1
  /\ UNCHANGED <<file, unsaved, faults, edits>>

SyncDirectory ==
  /\ save.step = "sync"
  /\ stale' = file
  /\ memory' = Normalized(memory)
  /\ acked' = Normalized(memory) /\ torn' = FALSE
  /\ save' = Idle
  /\ unsaved' = (unsaved /\ save.for # "flush")
  /\ resets' = resets + (IF save.for = "catalogue" THEN 1 ELSE 0)
  /\ UNCHANGED <<file, faults, edits>>

SyncFails ==
  /\ save.step = "sync" /\ faults < MaxFaults
  /\ memory' = save.before
  /\ save' = Idle
  /\ torn' = TRUE
  /\ faults' = faults + 1
  /\ UNCHANGED <<file, stale, unsaved, resets, acked, edits>>

\* The process dies, or the machine loses power and with it what was not
\* synced.  Nothing of the memory is left.
Crash ==
  /\ Up /\ faults < MaxFaults
  /\ memory' = NoInventory
  /\ save' = Idle
  /\ unsaved' = FALSE /\ resets' = 0
  /\ file' \in {file, stale} /\ stale' = file'
  /\ torn' = (torn \/ save.step = "sync")
  /\ faults' = faults + 1
  /\ UNCHANGED <<acked, edits>>

EditStep ==
  \/ \E c \in Camera, n \in Network, a \in Address \cup {0} : Enroll(c, n, a)
  \/ \E s \in SensorId, c \in Camera : Replace(s, c)
  \/ \E s \in SensorId, n \in Network : Move(s, n)
  \/ \E s \in SensorId : Forget(s)
  \/ \E s \in SensorId : UpdateSensor(s)
  \/ \E s \in SensorId : UpdateKnown(s)
  \/ \E s \in SensorId : Purge(s)
  \/ \E n \in Network, mode \in Mode : SetPortMode(n, mode)
  \/ \E g \in Group : DeleteGroup(g)
  \/ \E g \in Group, members \in SUBSET SensorId : UpsertGroup(g, members)

SaveStep ==
  \/ SaveRefused
  \/ ReplaceFile
  \/ SyncDirectory

Fault ==
  \/ WriteFails
  \/ SyncFails
  \/ Crash

Next ==
  \/ Start
  \/ EditStep
  \/ \E c \in Camera : Observe(c)
  \/ Flush
  \/ ResetFlag
  \/ SaveStep
  \/ Fault

(***************************************************************************)
(* Fairness.  A save runs to its end; the flush timer fires every five     *)
(* seconds; a handler that saved reaches its next line; the provider       *)
(* reports a camera that stays connected again and again (strongly fair:   *)
(* its callback waits for the lock a save holds and gets it in the end).   *)
(* Nothing restarts a manager that died: the launch file does not.         *)
(***************************************************************************)
Fairness ==
  /\ WF_vars(SaveStep)
  /\ WF_vars(Flush) /\ WF_vars(ResetFlag)
  /\ \A c \in Steady : SF_vars(Observe(c))

Spec == Init /\ [][Next]_vars
LiveSpec == Spec /\ Fairness

(***************************************************************************)
(* Properties                                                              *)
(***************************************************************************)

\* Every variable stays in its set; a save falls back to an inventory, or to
\* nothing when it is the one of the start.
TypeOK ==
  /\ Up => InventoryType(memory)
  /\ FileType(file) /\ FileType(stale)
  /\ save.step \in {"none", "write", "sync"}
  /\ save.for \in {"none", "start", "edit", "catalogue", "flush"}
  /\ save.for \in {"edit", "catalogue", "flush"} => InventoryType(save.before)
  /\ InventoryType(acked)
  /\ unsaved \in BOOLEAN /\ torn \in BOOLEAN
  /\ resets \in 0..MaxEdits /\ faults \in 0..MaxFaults /\ edits \in 0..MaxEdits

\* Whatever was edited, refused, torn or lost, the next start finds a file
\* it accepts: Registry.__init__ never refuses the program's own output.
FileLoads == Valid(Read(file)) /\ Valid(Read(stale))

\* An edit the registry acknowledged is what a start reads from then on, a
\* crash or a power loss in between included, until another save replaces
\* the file.
AcknowledgedSurvives ==
  ~torn /\ save.step # "sync" =>
    Normalized(Read(file)) = acked /\ Normalized(Read(stale)) = acked

\* Between two edits the manager acts on the enrolments, groups and port
\* modes that were last saved: a save that fails leaves none of its edit in
\* memory.  Only the catalogue may be ahead of the file.
ActsOnWhatIsSaved ==
  Free => /\ memory.sensors = acked.sensors
          /\ memory.groups = acked.groups /\ memory.modes = acked.modes

\* Between two edits the inventory in memory can be saved, except when the
\* catalogue has met two cameras with one serial number: sightings enter it
\* unchecked, and from then on every edit is refused.
OnlyTwinsPoison ==
  Free => /\ SensorsDistinct(memory) /\ EnrolledAreKnown(memory)
          /\ GroupsAreEnrolled(memory)
          /\ \/ KnownDistinct(memory)
             \/ \E k, l \in DOMAIN memory.known :
                  /\ memory.known[k].camera # memory.known[l].camera
                  /\ Serial[memory.known[k].camera] = Serial[memory.known[l].camera]

Catalogued(c) == \E k \in DOMAIN Read(file).known : Read(file).known[k].camera = c

\* A camera that stays connected ends up in the catalogue on disk, although
\* its sighting is saved by a later flush and another handler may clear the
\* flag that asks for it: unless the manager is down or cannot save at all.
CatalogueReachesDisk ==
  \A c \in Steady : <>[](Catalogued(c) \/ ~Up \/ ~Valid(memory))
=============================================================================
