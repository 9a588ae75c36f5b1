--------------------------- MODULE RegistryProofs ---------------------------
(***************************************************************************)
(* Theorems about Registry, for every set of cameras, networks, addresses  *)
(* and groups, every inventory an older release left, and any number of    *)
(* edits and faults.                                                       *)
(***************************************************************************)
EXTENDS Registry, InventoryProofs, TLAPS

(* A start reads a document as it was written.                             *)
LEMMA ReadDocument ==
  ASSUME NEW i
  PROVE  Read(Document(i)) = i
BY DEF Read, Document, NoFile, migrate_inventory

(***************************************************************************)
(* The inductive invariant.  The four properties speak of moments between  *)
(* edits; to reach them over a save it has to say what the save falls back *)
(* to, what the file holds before the directory is synced, and that the    *)
(* save of a start, which falls back to no inventory at all, writes what   *)
(* the file and its previous version already say.                          *)
(***************************************************************************)

Twins(i) ==
  \E k, l \in DOMAIN i.known :
    /\ i.known[k].camera # i.known[l].camera
    /\ Serial[i.known[k].camera] = Serial[i.known[l].camera]

Sound(i) ==
  /\ SensorsDistinct(i) /\ EnrolledAreKnown(i) /\ GroupsAreEnrolled(i)
  /\ KnownDistinct(i) \/ Twins(i)

(* i holds the enrolments, groups and port modes of the inventory a.       *)
Agrees(i, a) ==
  i.sensors = a.sensors /\ i.groups = a.groups /\ i.modes = a.modes

Content(f) == Normalized(Read(f))

FilesInv ==
  \A f \in {file, stale} : Shape(Read(f)) /\ Valid(Read(f))

AckedInv == Shape(acked) /\ Normalized(acked) = acked

MemoryInv ==
  /\ Up => Shape(memory)
  /\ ~Up => save = Idle /\ Content(stale) = Content(file)
  /\ Free => Sound(memory) /\ Agrees(memory, acked)

SaveInv ==
  save # Idle =>
    /\ save = [step |-> save.step, for |-> save.for, before |-> save.before]
    /\ save.step \in {"write", "sync"}
    /\ \/ save.before = NoInventory /\ ~torn /\ memory = acked
       \/ Shape(save.before) /\ Sound(save.before) /\ Agrees(save.before, acked)

DiskInv ==
  /\ save.step = "sync" => file = Document(Normalized(memory)) /\ Valid(memory)
  /\ ~torn => /\ Content(stale) = acked
              /\ save.step # "sync" => Content(file) = acked

IInv == FilesInv /\ AckedInv /\ MemoryInv /\ SaveInv /\ DiskInv

LEMMA ShapeIsUp == ASSUME NEW i, Shape(i) PROVE i # NoInventory
BY DEF Shape, NoInventory

LEMMA ValidIsSound == ASSUME NEW i, Valid(i) PROVE Sound(i)
BY DEF Valid, Sound

LEMMA NormalizedAgrees ==
  ASSUME NEW i, Shape(i)
  PROVE  Agrees(Normalized(i), i)
BY NormalizedGet DEF Agrees

LEMMA ReadNormalized ==
  ASSUME NEW i, Shape(i), Valid(i)
  PROVE  LET f == Document(Normalized(i)) IN
         Shape(Read(f)) /\ Valid(Read(f)) /\ Content(f) = Normalized(i)
<1>1. Read(Document(Normalized(i))) = Normalized(i)
  BY ReadDocument
<1>2. Shape(Normalized(i))
  BY NormalizedGet
<1>. QED
  BY <1>1, <1>2, NormalizedValid, NormalizedTwice DEF Content

LEMMA InitInv == Init => IInv
<1>. SUFFICES ASSUME Init PROVE IInv
  OBVIOUS
<1>1. Shape(Read(file)) /\ Valid(Read(file)) /\ stale = file
  BY FilesAssumption, TypeParts DEF Init
<1>2. FilesInv
  BY <1>1 DEF FilesInv
<1>3. AckedInv
  <2>1. Shape(Normalized(Read(file)))
    BY <1>1, NormalizedGet
  <2>. QED
    BY <1>1, <2>1, NormalizedTwice DEF Init, AckedInv
<1>4. MemoryInv /\ SaveInv /\ DiskInv
  BY <1>1 DEF Init, MemoryInv, SaveInv, DiskInv, Content, Up, Free, Idle
<1>. QED
  BY <1>2, <1>3, <1>4 DEF IInv

(***************************************************************************)
(* One lemma per action.                                                   *)
(***************************************************************************)

LEMMA StartInv == IInv /\ Start => IInv'
<1>. SUFFICES ASSUME IInv, Start PROVE IInv'
  OBVIOUS
<1>. DEFINE i == Read(file)
            n == Normalized(i)
<1>1. Shape(i) /\ Valid(i)
  BY DEF IInv, FilesInv
<1>2. Shape(n) /\ Valid(n) /\ Normalized(n) = n
  BY <1>1, NormalizedGet, NormalizedValid, NormalizedTwice
<1>3. memory' = n /\ acked' = n /\ torn' = FALSE /\ file' = file /\ stale' = stale
  BY DEF Start
<1>4. n # NoInventory /\ Sound(n)
  BY <1>2, ShapeIsUp, ValidIsSound
<1>5. Content(file) = n /\ Content(stale) = n
  BY DEF Start, IInv, MemoryInv, Content, Up
<1>6. save' = Idle \/ save' = Saving("start", NoInventory)
  BY DEF Start
<1>7. FilesInv'
  BY <1>3 DEF IInv, FilesInv
<1>. HIDE DEF n
<1>8. AckedInv'
  BY <1>2, <1>3 DEF AckedInv
<1>9. MemoryInv'
  BY <1>2, <1>3, <1>4 DEF MemoryInv, Up, Free, Agrees
<1>10. SaveInv'
  BY <1>3, <1>6 DEF SaveInv, Saving
<1>11. DiskInv'
  BY <1>3, <1>5, <1>6 DEF DiskInv, Saving, Idle, Content
<1>. QED
  BY <1>7, <1>8, <1>9, <1>10, <1>11 DEF IInv

(* An edit starts a save that falls back to a sound inventory.             *)
LEMMA EditInv ==
  ASSUME IInv, NEW for, NEW may, NEW after, Edit(for, may, after), Shape(after)
  PROVE  IInv'
<1>1. Shape(memory) /\ Sound(memory) /\ Agrees(memory, acked)
  BY DEF Edit, IInv, MemoryInv, Free
<1>2. memory' = after /\ save' = Saving(for, memory) /\ save = Idle
      /\ UNCHANGED <<file, stale, acked, torn>>
  BY DEF Edit, Free
<1>3. after # NoInventory /\ save' # Idle /\ save'.step = "write"
  BY <1>2, ShapeIsUp DEF Saving, Idle
<1>4. FilesInv' /\ AckedInv'
  BY <1>2 DEF IInv, FilesInv, AckedInv
<1>5. MemoryInv'
  BY <1>2, <1>3 DEF MemoryInv, Up, Free
<1>6. SaveInv'
  BY <1>1, <1>2 DEF SaveInv, Saving, Agrees
<1>7. DiskInv'
  BY <1>2, <1>3 DEF IInv, DiskInv, Content, Idle
<1>. QED
  BY <1>4, <1>5, <1>6, <1>7 DEF IInv

LEMMA EditStepInv == IInv /\ EditStep => IInv'
<1>. SUFFICES ASSUME IInv, EditStep PROVE IInv'
  OBVIOUS
<1>1. Free
  BY DEF EditStep, Enroll, Replace, Move, Forget, UpdateSensor, UpdateKnown, Purge,
         SetPortMode, UpsertGroup, DeleteGroup, Edit
<1>2. Shape(memory) /\ EnrolledAreKnown(memory)
  BY <1>1 DEF IInv, MemoryInv, Free, Sound
<1>3. CASE \E c \in Camera, n \in Network, a \in Address \cup {0} : Enroll(c, n, a)
  BY <1>2, <1>3, EnrollShape, EditInv DEF Enroll
<1>4. CASE \E s \in SensorId, c \in Camera : Replace(s, c)
  <2>1. PICK s \in SensorId, c \in Camera : Replace(s, c)
    BY <1>4
  <2>2. s \in DOMAIN memory.sensors
    BY <2>1 DEF Replace, Edit, MayReplace
  <2>. QED
    BY <1>2, <2>1, <2>2, ReplaceShape, EditInv DEF Replace
<1>5. CASE \E s \in SensorId, n \in Network : Move(s, n)
  BY <1>2, <1>5, OtherShapes, EditInv DEF Move
<1>6. CASE \E s \in SensorId : Forget(s)
  <2>1. PICK s \in SensorId : Forget(s)
    BY <1>6
  <2>2. s \in DOMAIN memory.sensors
    BY <2>1 DEF Forget, Edit, MayForget
  <2>. QED
    BY <1>2, <2>1, <2>2, ForgetShape, EditInv DEF Forget
<1>7. CASE \E s \in SensorId : UpdateSensor(s) \/ UpdateKnown(s)
  BY <1>2, <1>7, EditInv DEF UpdateSensor, UpdateKnown
<1>8. CASE \E s \in SensorId : Purge(s)
  BY <1>2, <1>8, PurgeShape, EditInv DEF Purge
<1>9. CASE \E n \in Network, mode \in Mode : SetPortMode(n, mode)
  BY <1>2, <1>9, OtherShapes, EditInv DEF SetPortMode
<1>10. CASE \/ \E g \in Group : DeleteGroup(g)
            \/ \E g \in Group, members \in SUBSET SensorId : UpsertGroup(g, members)
  BY <1>2, <1>10, OtherShapes, EditInv DEF DeleteGroup, UpsertGroup
<1>. QED
  BY <1>3, <1>4, <1>5, <1>6, <1>7, <1>8, <1>9, <1>10 DEF EditStep

(* A sighting adds a record of its own camera: two records then share a    *)
(* provider and a serial only if they are of two cameras.                  *)
LEMMA ObserveSound ==
  ASSUME NEW i, Shape(i), Sound(i), NEW c \in Camera
  PROVE  /\ Shape(record_observation(i, c)) /\ Sound(record_observation(i, c))
         /\ Agrees(record_observation(i, c), i)
<1>. DEFINE id == sensor_id_for_observation(i, c)
            after == record_observation(i, c)
            known == after.known
<1>1. id \in SensorId /\ id[2] = c
  BY IdOfObservation
<1>2. /\ Shape(after) /\ after.sensors = i.sensors
      /\ after.groups = i.groups /\ after.modes = i.modes
      /\ DOMAIN known = (DOMAIN i.known) \cup {id}
      /\ \A k \in DOMAIN i.known : known[k] = i.known[k]
  BY ObserveShape
<1>. HIDE DEF id, after
<1>3. Agrees(after, i) /\ \A k \in DOMAIN known : known[k].camera = k[2]
  BY <1>2 DEF Shape, Agrees
<1>4. SensorsDistinct(after) /\ EnrolledAreKnown(after) /\ GroupsAreEnrolled(after)
  BY <1>2 DEF Sound, SensorsDistinct, EnrolledAreKnown, GroupsAreEnrolled
<1>5. Twins(i) => Twins(after)
  BY <1>2 DEF Twins
<1>6. KnownDistinct(i) => KnownDistinct(after) \/ Twins(after)
  <2>. SUFFICES ASSUME KnownDistinct(i), ~Twins(after) PROVE KnownDistinct(after)
    OBVIOUS
  <2>. SUFFICES ASSUME NEW k \in DOMAIN known, NEW l \in DOMAIN known, k # l
                PROVE  \/ known[k].provider # known[l].provider
                       \/ Serial[known[k].camera] # Serial[known[l].camera]
    BY DEF KnownDistinct
  <2>1. CASE k \in DOMAIN i.known /\ l \in DOMAIN i.known
    BY <1>2, <2>1 DEF KnownDistinct
  <2>2. CASE id \in {k, l} /\ id \notin DOMAIN i.known
    <3>. SUFFICES ASSUME known[k].camera = known[l].camera PROVE FALSE
      BY DEF Twins
    <3>1. k[2] = c /\ l[2] = c
      BY <1>1, <1>2, <1>3, <2>2
    <3>2. PICK m \in DOMAIN i.known : m[2] = c
      BY <1>2, <2>2, <3>1
    <3>3. m \in SensorId /\ m \in {<<"old", c>>, <<"new", c>>}
      BY <3>2 DEF Shape, SensorId
    <3>4. id \in DOMAIN i.known
      BY <3>2, <3>3 DEF id, sensor_id_for_observation, new_sensor_id
    <3>. QED
      BY <2>2, <3>4
  <2>. QED
    BY <1>2, <2>1, <2>2
<1>. QED
  BY <1>2, <1>3, <1>4, <1>5, <1>6 DEF Sound, after

LEMMA ObserveInv ==
  ASSUME IInv, NEW c \in Camera, Observe(c)
  PROVE  IInv'
<1>. DEFINE after == record_observation(memory, c)
<1>1. Shape(memory) /\ Sound(memory) /\ Agrees(memory, acked)
  BY DEF Observe, IInv, MemoryInv, Free
<1>2. memory' = after /\ save = Idle /\ UNCHANGED <<file, stale, save, acked, torn>>
  BY DEF Observe, Free
<1>3. Shape(after) /\ Sound(after) /\ Agrees(after, memory)
  BY <1>1, ObserveSound
<1>4. after # NoInventory
  BY <1>3, ShapeIsUp
<1>. HIDE DEF after
<1>5. MemoryInv'
  BY <1>1, <1>2, <1>3, <1>4 DEF MemoryInv, Up, Free, Agrees
<1>6. FilesInv' /\ AckedInv' /\ SaveInv' /\ DiskInv'
  BY <1>2 DEF IInv, FilesInv, AckedInv, SaveInv, DiskInv, Content, Idle
<1>. QED
  BY <1>5, <1>6 DEF IInv

LEMMA FlushInv == IInv /\ Flush => IInv'
<1>. SUFFICES ASSUME IInv, Flush PROVE IInv'
  OBVIOUS
<1>1. Shape(memory) /\ Sound(memory) /\ Agrees(memory, acked)
  BY DEF Flush, IInv, MemoryInv, Free
<1>2. save' = Saving("flush", memory) /\ save = Idle
      /\ UNCHANGED <<memory, file, stale, acked, torn>>
  BY DEF Flush, Free
<1>3. save' # Idle /\ save'.step = "write" /\ save.step = "none"
  BY <1>2 DEF Saving, Idle
<1>4. MemoryInv'
  BY <1>1, <1>2, <1>3, ShapeIsUp DEF MemoryInv, Up, Free
<1>5. SaveInv'
  BY <1>1, <1>2 DEF SaveInv, Saving, Agrees
<1>6. FilesInv' /\ AckedInv' /\ DiskInv'
  BY <1>2, <1>3 DEF IInv, FilesInv, AckedInv, DiskInv, Content
<1>. QED
  BY <1>4, <1>5, <1>6 DEF IInv

(* What an action that touches none of these variables leaves alone.       *)
LEMMA OthersInv ==
  ASSUME IInv, UNCHANGED <<memory, file, stale, save, acked, torn>>
  PROVE  IInv'
BY DEF IInv, FilesInv, AckedInv, MemoryInv, SaveInv, DiskInv, Agrees,
       Sound, Shape, Content, Up, Free

(* A save under way: the manager is up and has something to save.          *)
LEMMA DuringSave ==
  ASSUME IInv, save.step \in {"write", "sync"}
  PROVE  /\ save # Idle /\ Up /\ Shape(memory) /\ SaveInv
         /\ save = [step |-> save.step, for |-> save.for, before |-> save.before]
BY DEF IInv, MemoryInv, SaveInv, Idle

(* A save that fails before the rename puts things back as they were; the  *)
(* save of a start that fails leaves the manager down.                     *)
LEMMA PutBackInv ==
  ASSUME IInv, save.step = "write", memory' = save.before, save' = Idle,
         UNCHANGED <<file, stale, acked, torn>>
  PROVE  IInv'
<1>1. save # Idle /\ SaveInv
  BY DuringSave
<1>2. FilesInv' /\ AckedInv'
  BY DEF IInv, FilesInv, AckedInv
<1>3. SaveInv' /\ DiskInv'
  BY DEF IInv, SaveInv, DiskInv, Content, Idle
<1>4. MemoryInv'
  <2>1. CASE save.before = NoInventory /\ ~torn
    BY <2>1 DEF IInv, DiskInv, MemoryInv, Up, Free, Content
  <2>2. CASE Shape(save.before) /\ Sound(save.before) /\ Agrees(save.before, acked)
    BY <2>2, ShapeIsUp DEF MemoryInv, Up, Free
  <2>. QED
    BY <1>1, <2>1, <2>2 DEF SaveInv
<1>. QED
  BY <1>2, <1>3, <1>4 DEF IInv

LEMMA ReplaceFileInv == IInv /\ ReplaceFile => IInv'
<1>. SUFFICES ASSUME IInv, ReplaceFile PROVE IInv'
  OBVIOUS
<1>1. /\ save # Idle /\ Up /\ Shape(memory) /\ SaveInv
      /\ save = [step |-> save.step, for |-> save.for, before |-> save.before]
  BY DuringSave DEF ReplaceFile
<1>2. /\ file' = Document(Normalized(memory)) /\ Valid(memory)
      /\ UNCHANGED <<memory, stale, acked, torn>>
  BY DEF ReplaceFile
<1>3. save' = [step |-> "sync", for |-> save.for, before |-> save.before]
  BY <1>1 DEF ReplaceFile
<1>4. FilesInv'
  BY <1>1, <1>2, ReadNormalized DEF IInv, FilesInv
<1>5. save' # Idle
  BY <1>3 DEF Idle
<1>6. AckedInv' /\ MemoryInv'
  BY <1>1, <1>2, <1>5 DEF IInv, AckedInv, MemoryInv, Up, Free
<1>7. SaveInv'
  BY <1>1, <1>2, <1>3 DEF SaveInv, Agrees, Sound, Shape
<1>8. DiskInv'
  BY <1>2, <1>3 DEF IInv, DiskInv, Content
<1>. QED
  BY <1>4, <1>6, <1>7, <1>8 DEF IInv

LEMMA SyncDirectoryInv == IInv /\ SyncDirectory => IInv'
<1>. SUFFICES ASSUME IInv, SyncDirectory PROVE IInv'
  OBVIOUS
<1>. DEFINE n == Normalized(memory)
<1>1. Shape(memory) /\ Valid(memory) /\ file = Document(n)
  BY DuringSave DEF SyncDirectory, IInv, DiskInv
<1>2. Shape(n) /\ Valid(n) /\ Normalized(n) = n
  BY <1>1, NormalizedGet, NormalizedValid, NormalizedTwice
<1>3. Content(file) = n /\ n # NoInventory /\ Sound(n)
  BY <1>1, <1>2, ReadNormalized, ShapeIsUp, ValidIsSound
<1>4. /\ memory' = n /\ acked' = n /\ stale' = file /\ file' = file
      /\ torn' = FALSE /\ save' = Idle
  BY DEF SyncDirectory
<1>. HIDE DEF n
<1>5. FilesInv' /\ AckedInv' /\ MemoryInv'
  BY <1>2, <1>3, <1>4 DEF IInv, FilesInv, AckedInv, MemoryInv, Up, Free, Agrees
<1>6. SaveInv' /\ DiskInv'
  BY <1>3, <1>4 DEF SaveInv, DiskInv, Content, Idle
<1>. QED
  BY <1>5, <1>6 DEF IInv

(* The file is new and the memory goes back: all that is promised then is  *)
(* that the file loads.  At a start the two do not differ.                 *)
LEMMA SyncFailsInv == IInv /\ SyncFails => IInv'
<1>. SUFFICES ASSUME IInv, SyncFails PROVE IInv'
  OBVIOUS
<1>1. save # Idle /\ SaveInv /\ Shape(memory)
  BY DuringSave DEF SyncFails
<1>2. /\ memory' = save.before /\ save' = Idle /\ torn' = TRUE
      /\ UNCHANGED <<file, stale, acked>>
  BY DEF SyncFails
<1>3. FilesInv' /\ AckedInv' /\ SaveInv' /\ DiskInv'
  BY <1>2 DEF IInv, FilesInv, AckedInv, SaveInv, DiskInv, Idle
<1>4. MemoryInv'
  <2>1. CASE save.before = NoInventory /\ ~torn /\ memory = acked
    <3>1. Valid(memory) /\ file = Document(Normalized(memory)) /\ Content(stale) = acked
      BY <2>1 DEF SyncFails, IInv, DiskInv
    <3>2. Content(file) = acked
      BY <1>1, <2>1, <3>1, ReadNormalized DEF IInv, AckedInv
    <3>. QED
      BY <1>2, <2>1, <3>1, <3>2 DEF MemoryInv, Up, Free, Content
  <2>2. CASE Shape(save.before) /\ Sound(save.before) /\ Agrees(save.before, acked)
    BY <1>2, <2>2, ShapeIsUp DEF MemoryInv, Up, Free
  <2>. QED
    BY <1>1, <2>1, <2>2 DEF SaveInv
<1>. QED
  BY <1>3, <1>4 DEF IInv

LEMMA CrashInv == IInv /\ Crash => IInv'
<1>. SUFFICES ASSUME IInv, Crash PROVE IInv'
  OBVIOUS
<1>1. /\ memory' = NoInventory /\ save' = Idle /\ acked' = acked
      /\ file' \in {file, stale} /\ stale' = file'
      /\ torn' = (torn \/ save.step = "sync")
  BY DEF Crash
<1>2. FilesInv' /\ AckedInv' /\ MemoryInv' /\ SaveInv'
  BY <1>1 DEF IInv, FilesInv, AckedInv, MemoryInv, SaveInv, Up, Free, Content
<1>3. DiskInv'
  BY <1>1 DEF IInv, DiskInv, Content, Idle
<1>. QED
  BY <1>2, <1>3 DEF IInv

(***************************************************************************)
(* The theorems.                                                           *)
(***************************************************************************)

LEMMA Inductive == IInv /\ [Next]_vars => IInv'
<1>. SUFFICES ASSUME IInv, [Next]_vars PROVE IInv'
  OBVIOUS
<1>1. CASE Start
  BY <1>1, StartInv
<1>2. CASE EditStep
  BY <1>2, EditStepInv
<1>3. CASE \E c \in Camera : Observe(c)
  BY <1>3, ObserveInv
<1>4. CASE Flush
  BY <1>4, FlushInv
<1>5. CASE ResetFlag
  BY <1>5, OthersInv DEF ResetFlag
<1>6. CASE SaveRefused \/ WriteFails
  BY <1>6, PutBackInv DEF SaveRefused, WriteFails
<1>7. CASE ReplaceFile
  BY <1>7, ReplaceFileInv
<1>8. CASE SyncDirectory
  BY <1>8, SyncDirectoryInv
<1>9. CASE SyncFails
  BY <1>9, SyncFailsInv
<1>10. CASE Crash
  BY <1>10, CrashInv
<1>11. CASE UNCHANGED vars
  BY <1>11, OthersInv DEF vars
<1>. QED
  BY <1>1, <1>2, <1>3, <1>4, <1>5, <1>6, <1>7, <1>8, <1>9, <1>10, <1>11
     DEF Next, SaveStep, Fault

LEMMA Invariant == Spec => []IInv
BY InitInv, Inductive, PTL DEF Spec

(* Whatever was edited, refused, torn by a failure or lost in a crash, the *)
(* next start accepts the file it finds.                                   *)
THEOREM FileAlwaysLoads == Spec => []FileLoads
<1>1. IInv => FileLoads
  BY DEF IInv, FilesInv, FileLoads
<1>. QED
  BY <1>1, Invariant, PTL

(* An edit the registry acknowledged is what a start reads until another   *)
(* save replaces the file, whatever crash or power loss comes between.     *)
THEOREM AcknowledgedEditsSurvive == Spec => []AcknowledgedSurvives
<1>1. IInv => AcknowledgedSurvives
  BY DEF IInv, DiskInv, AcknowledgedSurvives, Content
<1>. QED
  BY <1>1, Invariant, PTL

(* A save that fails leaves none of its edit in what the manager acts on.  *)
THEOREM ManagerActsOnSaved == Spec => []ActsOnWhatIsSaved
<1>1. IInv => ActsOnWhatIsSaved
  BY DEF IInv, MemoryInv, Agrees, ActsOnWhatIsSaved
<1>. QED
  BY <1>1, Invariant, PTL

(* Between two edits, only two cameras of one serial number can make the   *)
(* inventory in memory one that no save accepts.                           *)
THEOREM OnlyTwinsRefuseEdits == Spec => []OnlyTwinsPoison
<1>1. IInv => OnlyTwinsPoison
  BY DEF IInv, MemoryInv, Sound, Twins, OnlyTwinsPoison
<1>. QED
  BY <1>1, Invariant, PTL

(***************************************************************************)
(* Types.  What a failed save puts back is an inventory unless the save is *)
(* the start's; a handler that is to clear the flag has made one edit.     *)
(***************************************************************************)

Owed == resets + (IF save.for = "catalogue" THEN 1 ELSE 0)

SaveType ==
  \/ save = Idle
  \/ \E step \in {"write", "sync"}, for \in {"start", "edit", "catalogue", "flush"} : \E before :
       /\ save = [step |-> step, for |-> for, before |-> before]
       /\ IF for = "start" THEN before = NoInventory ELSE InventoryType(before)

FlagsInv == unsaved \in BOOLEAN /\ torn \in BOOLEAN

CountsInv ==
  /\ resets \in Nat /\ faults \in 0..MaxFaults /\ edits \in 0..MaxEdits
  /\ Owed <= edits

FileInv(f) == FileType(f) /\ InventoryType(Read(f))

TypeInv ==
  /\ Up => InventoryType(memory)
  /\ FileInv(file) /\ FileInv(stale)
  /\ SaveType /\ InventoryType(acked) /\ FlagsInv /\ CountsInv

LEMMA DocumentType ==
  ASSUME NEW i, InventoryType(i)
  PROVE  FileInv(Document(i))
<1>1. DOMAIN <<>> = {}
  OBVIOUS
<1>2. /\ Document(i).version = 3 /\ Document(i).inventory = i
      /\ Document(i).retired = <<>>
  BY DEF Document
<1>3. FileType(Document(i))
  BY <1>1, <1>2 DEF FileType
<1>. QED
  BY <1>3, ReadDocument DEF FileInv

LEMMA TypeIsUp == ASSUME NEW i, InventoryType(i) PROVE i # NoInventory
BY TypeParts, ShapeIsUp

LEMMA InitType == Init => TypeInv
<1>. SUFFICES ASSUME Init PROVE TypeInv
  OBVIOUS
<1>1. FileInv(file)
  BY FilesAssumption DEF Init, FileInv, FileType
<1>2. InventoryType(acked)
  BY <1>1, NormalizedType DEF Init, FileInv
<1>3. Owed = 0
  BY DEF Init, Owed, Idle
<1>4. CountsInv
  BY <1>3, BoundsAssumption DEF Init, CountsInv
<1>. QED
  BY <1>1, <1>2, <1>4 DEF Init, TypeInv, FlagsInv, SaveType, Up

LEMMA StartType == TypeInv /\ Start => TypeInv'
<1>. SUFFICES ASSUME TypeInv, Start PROVE TypeInv'
  OBVIOUS
<1>. DEFINE n == Normalized(Read(file))
<1>1. InventoryType(n)
  BY NormalizedType DEF TypeInv, FileInv
<1>2. memory' = n /\ acked' = n /\ torn' = FALSE
      /\ UNCHANGED <<file, stale, unsaved, resets, faults, edits>>
  BY DEF Start
<1>3. save = Idle /\ save' \in {Idle, Saving("start", NoInventory)}
  BY DEF Start
<1>. HIDE DEF n
<1>4. SaveType'
  BY <1>3 DEF SaveType, Saving
<1>5. save.for # "catalogue" /\ save'.for # "catalogue"
  BY <1>3 DEF Idle, Saving
<1>6. CountsInv'
  BY <1>2, <1>5 DEF TypeInv, CountsInv, Owed
<1>. QED
  BY <1>1, <1>2, <1>4, <1>6 DEF TypeInv, FlagsInv, FileInv

LEMMA EditType ==
  ASSUME TypeInv, NEW for \in {"edit", "catalogue"}, NEW may, NEW after,
         Edit(for, may, after), InventoryType(after)
  PROVE  TypeInv'
<1>1. /\ Up /\ save = Idle /\ edits < MaxEdits
      /\ memory' = after /\ save' = Saving(for, memory) /\ edits' = edits + 1
      /\ UNCHANGED <<file, stale, unsaved, resets, acked, torn, faults>>
  BY DEF Edit, Free
<1>2. InventoryType(memory)
  BY <1>1 DEF TypeInv
<1>3. SaveType'
  BY <1>1, <1>2 DEF SaveType, Saving
<1>4. save.for = "none" /\ save'.for = for
  BY <1>1 DEF Idle, Saving
<1>5. CountsInv'
  BY <1>1, <1>4, BoundsAssumption DEF TypeInv, CountsInv, Owed
<1>. QED
  BY <1>1, <1>3, <1>5 DEF TypeInv, FlagsInv, FileInv

LEMMA EditStepType == IInv /\ TypeInv /\ EditStep => TypeInv'
<1>. SUFFICES ASSUME IInv, TypeInv, EditStep PROVE TypeInv'
  OBVIOUS
<1>1. Free
  BY DEF EditStep, Enroll, Replace, Move, Forget, UpdateSensor, UpdateKnown, Purge,
         SetPortMode, UpsertGroup, DeleteGroup, Edit
<1>2. InventoryType(memory) /\ EnrolledAreKnown(memory)
  BY <1>1 DEF TypeInv, IInv, MemoryInv, Free, Sound
<1>3. CASE \E c \in Camera, n \in Network, a \in Address \cup {0} : Enroll(c, n, a)
  <2>1. PICK c \in Camera, n \in Network, a \in Address \cup {0} : Enroll(c, n, a)
    BY <1>3
  <2>2. PICK at \in Allocations(memory, n, a) :
          Edit("edit", MayEnroll(memory, c), enroll(memory, c, at))
    BY <2>1 DEF Enroll
  <2>3. at \in Placement
    BY <1>2, AllocationsType
  <2>. QED
    BY <1>2, <2>2, <2>3, EnrollType, EditType
<1>4. CASE \E s \in SensorId, c \in Camera : Replace(s, c)
  <2>1. PICK s \in SensorId, c \in Camera : Replace(s, c)
    BY <1>4
  <2>2. s \in DOMAIN memory.sensors
    BY <2>1 DEF Replace, Edit, MayReplace
  <2>. QED
    BY <1>2, <2>1, <2>2, ReplaceType, EditType DEF Replace
<1>5. CASE \E s \in SensorId, n \in Network : Move(s, n)
  <2>1. PICK s \in SensorId, n \in Network : Move(s, n)
    BY <1>5
  <2>2. PICK at \in Allocations(memory, n, 0) :
          Edit("edit", MayMove(memory, s), move_sensor(memory, s, at))
    BY <2>1 DEF Move
  <2>3. at \in Placement /\ s \in DOMAIN memory.sensors
    BY <1>2, <2>2, AllocationsType DEF Edit, MayMove
  <2>. QED
    BY <1>2, <2>2, <2>3, MoveType, EditType
<1>6. CASE \E s \in SensorId : Forget(s)
  <2>1. PICK s \in SensorId : Forget(s)
    BY <1>6
  <2>2. s \in DOMAIN memory.sensors
    BY <2>1 DEF Forget, Edit, MayForget
  <2>. QED
    BY <1>2, <2>1, <2>2, ForgetType, EditType DEF Forget
<1>7. CASE \E s \in SensorId : UpdateSensor(s) \/ UpdateKnown(s)
  BY <1>2, <1>7, EditType DEF UpdateSensor, UpdateKnown
<1>8. CASE \E s \in SensorId : Purge(s)
  BY <1>2, <1>8, OtherTypes, EditType DEF Purge
<1>9. CASE \E n \in Network, mode \in Mode : SetPortMode(n, mode)
  BY <1>2, <1>9, OtherTypes, EditType DEF SetPortMode
<1>10. CASE \/ \E g \in Group : DeleteGroup(g)
            \/ \E g \in Group, members \in SUBSET SensorId : UpsertGroup(g, members)
  BY <1>2, <1>10, OtherTypes, EditType DEF DeleteGroup, UpsertGroup
<1>. QED
  BY <1>3, <1>4, <1>5, <1>6, <1>7, <1>8, <1>9, <1>10 DEF EditStep

(* The save under way, as its step finds it.                               *)
LEMMA SaveIs ==
  ASSUME TypeInv, save.step \in {"write", "sync"}
  PROVE  /\ save = [step |-> save.step, for |-> save.for, before |-> save.before]
         /\ save.for \in {"start", "edit", "catalogue", "flush"}
         /\ save.before = NoInventory \/ InventoryType(save.before)
         /\ save.for # "start" => InventoryType(save.before)
         /\ save.for = "start" => save.before = NoInventory
BY DEF TypeInv, SaveType, Idle

(* Observe, Flush and ResetFlag.                                           *)
LEMMA CatalogueType ==
  ASSUME TypeInv, (\E c \in Camera : Observe(c)) \/ Flush \/ ResetFlag
  PROVE  TypeInv'
<1>1. CASE \E c \in Camera : Observe(c)
  <2>1. PICK c \in Camera : Observe(c)
    BY <1>1
  <2>2. /\ Up /\ save = Idle /\ memory' = record_observation(memory, c) /\ unsaved' = TRUE
        /\ UNCHANGED <<file, stale, save, resets, acked, torn, faults, edits>>
    BY <2>1 DEF Observe, Free
  <2>3. InventoryType(memory')
    BY <2>2, ObserveType DEF TypeInv
  <2>4. SaveType' /\ CountsInv'
    BY <2>2 DEF TypeInv, SaveType, CountsInv, Owed
  <2>. QED
    BY <2>2, <2>3, <2>4 DEF TypeInv, FlagsInv, FileInv
<1>2. CASE Flush
  <2>1. /\ Up /\ save = Idle /\ save' = Saving("flush", memory)
        /\ UNCHANGED <<memory, file, stale, unsaved, resets, acked, torn, faults, edits>>
    BY <1>2 DEF Flush, Free
  <2>2. InventoryType(memory)
    BY <2>1 DEF TypeInv
  <2>3. SaveType'
    BY <2>1, <2>2 DEF SaveType, Saving
  <2>4. save.for = "none" /\ save'.for = "flush"
    BY <2>1 DEF Idle, Saving
  <2>5. CountsInv'
    BY <2>1, <2>4 DEF TypeInv, CountsInv, Owed
  <2>. QED
    BY <2>1, <2>3, <2>5 DEF TypeInv, FlagsInv, FileInv, Up
<1>3. CASE ResetFlag
  <2>1. /\ resets > 0 /\ resets' = resets - 1 /\ unsaved' = FALSE
        /\ UNCHANGED <<memory, file, stale, save, acked, torn, faults, edits>>
    BY <1>3 DEF ResetFlag
  <2>2. CountsInv'
    <3>1. Owed' = Owed - 1
      BY <2>1 DEF Owed, TypeInv, CountsInv
    <3>2. Owed \in Nat
      BY DEF Owed, TypeInv, CountsInv
    <3>. QED
      BY <2>1, <3>1, <3>2 DEF TypeInv, CountsInv
  <2>. QED
    BY <2>1, <2>2 DEF TypeInv, FlagsInv, FileInv, Up, SaveType
<1>. QED
  BY <1>1, <1>2, <1>3

(* A save that fails puts back what it kept, and is nobody's any more.     *)
LEMMA FailType ==
  ASSUME TypeInv, SaveRefused \/ WriteFails \/ SyncFails
  PROVE  TypeInv'
<1>1. /\ save.step \in {"write", "sync"} /\ memory' = save.before /\ save' = Idle
      /\ UNCHANGED <<file, stale, unsaved, resets, acked, edits>>
      /\ torn' \in {torn, TRUE}
      /\ faults' = faults \/ (faults < MaxFaults /\ faults' = faults + 1)
  BY DEF SaveRefused, WriteFails, SyncFails
<1>2. save.for \in {"start", "edit", "catalogue", "flush"}
      /\ (save.before = NoInventory \/ InventoryType(save.before))
  BY <1>1, SaveIs
<1>3. Up' => InventoryType(memory')
  BY <1>1, <1>2 DEF Up
<1>4. SaveType' /\ save'.for # "catalogue"
  BY <1>1 DEF SaveType, Idle
<1>5. Owed' = resets /\ resets <= Owed /\ Owed \in Nat
  BY <1>1, <1>4 DEF Owed, TypeInv, CountsInv
<1>6. faults' \in 0..MaxFaults
  BY <1>1, BoundsAssumption DEF TypeInv, CountsInv
<1>7. CountsInv'
  BY <1>1, <1>5, <1>6 DEF TypeInv, CountsInv
<1>8. FlagsInv'
  BY <1>1 DEF TypeInv, FlagsInv
<1>. QED
  BY <1>1, <1>3, <1>4, <1>7, <1>8 DEF TypeInv, FileInv

LEMMA SaveStepType ==
  ASSUME IInv, TypeInv, ReplaceFile \/ SyncDirectory
  PROVE  TypeInv'
<1>. DEFINE n == Normalized(memory)
<1>1. save.step \in {"write", "sync"} /\ Up
  BY DuringSave DEF ReplaceFile, SyncDirectory
<1>2. InventoryType(n)
  BY <1>1, NormalizedType DEF TypeInv
<1>3. FileInv(Document(n))
  BY <1>2, DocumentType
<1>4. CASE ReplaceFile
  <2>1. /\ file' = Document(n) /\ save' = [save EXCEPT !.step = "sync"]
        /\ UNCHANGED <<memory, stale, unsaved, resets, acked, torn, faults, edits>>
    BY <1>4 DEF ReplaceFile
  <2>. HIDE DEF n
  <2>2. save' = [step |-> "sync", for |-> save.for, before |-> save.before]
    BY <1>1, <2>1, SaveIs
  <2>3. SaveType' /\ save'.for = save.for
    <3>1. /\ save.for \in {"start", "edit", "catalogue", "flush"}
          /\ IF save.for = "start" THEN save.before = NoInventory
             ELSE InventoryType(save.before)
      BY <1>1, SaveIs
    <3>. QED
      BY <2>2, <3>1 DEF SaveType
  <2>4. CountsInv'
    BY <2>1, <2>3 DEF TypeInv, CountsInv, Owed
  <2>. QED
    BY <1>3, <2>1, <2>3, <2>4 DEF TypeInv, FlagsInv, FileInv, Up
<1>5. CASE SyncDirectory
  <2>1. /\ memory' = n /\ acked' = n /\ torn' = FALSE /\ save' = Idle
        /\ file' = file /\ stale' = file
        /\ unsaved' = (unsaved /\ save.for # "flush")
        /\ resets' = Owed
        /\ UNCHANGED <<faults, edits>>
    BY <1>5 DEF SyncDirectory, Owed
  <2>. HIDE DEF n
  <2>2. SaveType' /\ save'.for # "catalogue"
    BY <2>1 DEF SaveType, Idle
  <2>3. Owed' = Owed /\ Owed \in Nat
    BY <2>1, <2>2 DEF TypeInv, CountsInv, Owed
  <2>4. CountsInv'
    BY <2>1, <2>3 DEF TypeInv, CountsInv
  <2>5. FlagsInv'
    BY <2>1 DEF TypeInv, FlagsInv
  <2>. QED
    BY <1>2, <2>1, <2>2, <2>4, <2>5 DEF TypeInv, FileInv
<1>. QED
  BY <1>4, <1>5

LEMMA CrashType == TypeInv /\ Crash => TypeInv'
<1>. SUFFICES ASSUME TypeInv, Crash PROVE TypeInv'
  OBVIOUS
<1>1. /\ memory' = NoInventory /\ save' = Idle /\ unsaved' = FALSE /\ resets' = 0
      /\ file' \in {file, stale} /\ stale' = file' /\ UNCHANGED <<acked, edits>>
      /\ torn' = (torn \/ save.step = "sync") /\ faults < MaxFaults /\ faults' = faults + 1
  BY DEF Crash
<1>2. SaveType' /\ save'.for # "catalogue"
  BY <1>1 DEF SaveType, Idle
<1>3. Owed' = 0
  BY <1>1, <1>2 DEF Owed
<1>4. faults' \in 0..MaxFaults
  BY <1>1, BoundsAssumption DEF TypeInv, CountsInv
<1>5. CountsInv'
  BY <1>1, <1>3, <1>4, BoundsAssumption DEF TypeInv, CountsInv
<1>6. FlagsInv'
  BY <1>1 DEF TypeInv, FlagsInv
<1>. QED
  BY <1>1, <1>2, <1>5, <1>6 DEF TypeInv, FileInv, Up

LEMMA TypeStep == IInv /\ TypeInv /\ [Next]_vars => TypeInv'
<1>. SUFFICES ASSUME IInv, TypeInv, [Next]_vars PROVE TypeInv'
  OBVIOUS
<1>1. CASE Start
  BY <1>1, StartType
<1>2. CASE EditStep
  BY <1>2, EditStepType
<1>3. CASE (\E c \in Camera : Observe(c)) \/ Flush \/ ResetFlag
  BY <1>3, CatalogueType
<1>4. CASE SaveRefused \/ WriteFails \/ SyncFails
  BY <1>4, FailType
<1>5. CASE ReplaceFile \/ SyncDirectory
  BY <1>5, SaveStepType
<1>6. CASE Crash
  BY <1>6, CrashType
<1>7. CASE UNCHANGED vars
  BY <1>7 DEF vars, TypeInv, FlagsInv, FileInv, SaveType, CountsInv, Owed, Up
<1>. QED
  BY <1>1, <1>2, <1>3, <1>4, <1>5, <1>6, <1>7 DEF Next, SaveStep, Fault

(* Every variable stays in its set: memory, file and what a power loss     *)
(* would bring back are inventories of this release or older ones, and     *)
(* what a save falls back to is one too, unless it is the start's.         *)
THEOREM RegistryTypes == Spec => []TypeOK
<1>1. TypeInv => TypeOK
  <2>. SUFFICES ASSUME TypeInv PROVE TypeOK
    OBVIOUS
  <2>1. /\ save.step \in {"none", "write", "sync"}
        /\ save.for \in {"none", "start", "edit", "catalogue", "flush"}
        /\ save.for \in {"edit", "catalogue", "flush"} => InventoryType(save.before)
    <3>1. CASE save = Idle
      BY <3>1 DEF Idle
    <3>2. CASE save # Idle
      BY <3>2 DEF TypeInv, SaveType
    <3>. QED
      BY <3>1, <3>2
  <2>2. resets \in 0..MaxEdits
    BY BoundsAssumption DEF TypeInv, CountsInv, Owed
  <2>. QED
    BY <2>1, <2>2 DEF TypeInv, FlagsInv, FileInv, CountsInv, TypeOK
<1>2. Spec => []TypeInv
  BY InitType, TypeStep, Invariant, PTL DEF Spec
<1>. QED
  BY <1>1, <1>2, PTL
=============================================================================
