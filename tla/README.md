# A TLA+ model of vixel

vixel is a set of ROS 2 nodes that runs a synchronized multi-camera rig: an
inventory manager, a recorder, a GenICam provider and a web gateway. This
directory holds TLA+ modules of its core logic, TLC configurations that
model-check them on small instances, and proofs checked by TLAPS.

    tlc -workers 2 -config MCLeases.cfg MCCaptureSessions    (any .cfg below)
    tlapm CaptureSessionsProofs.tla

## The system and its parts

| Component | State it keeps | Operations | Talks to |
| --- | --- | --- | --- |
| Manager, sessions and modes (`manager_node.py`) | `capture_sessions`, `group_modes`, `sensor_modes`, last published assignments | acquire, renew, release, expire, prepare groups, one-shot captures, set mode, group edits, archive | recorder, gateway and controllers call it; it publishes assignments to the provider |
| Manager, registry (`registry.py`) | inventory in memory and on disk, under a lock of its own | enroll, replace, move, forget, purge, groups, atomic save with rollback | every handler of the manager |
| Manager, enrollment and placement | observations, claims on candidates and networks | automatic enrollment, enroll and placement actions | provider (provisioning), registry |
| Manager, camera profiles and settings | profile catalogue, settings pending verification | apply, verify, save, reload, delete | provider (applied settings), registry, the administrator's files |
| Recorder, operations (`CaptureRecorder.cpp`) | operation records, history, counters | batch, sequence, test shot, cancel | manager (sessions), its own RecordCapture action |
| Recorder, RecordCapture | capture slots, chunk assemblies, files | admit, wait, reassemble, write, rename, rescan | manager (capture), provider (frames) |
| GenICam provider (`GenicamProvider.cpp`) | device sessions, schedules, recovery back-off | assign, capture, recover | cameras, manager |
| Gateway (`gateway.py`) | operations it started, connections, preview subscriptions and frames | asynchronous enroll and placement, polls, streams, events, forwarded service calls | manager, recorder, providers' previews |
| Network set-up, PTP supervisor | configuration files, one child process | render, restart | operating system |

What makes each one correct, and what makes it hard:

* **Sessions and modes.** The node's callbacks run on several executor threads.
  Leases are kept under the node's lock, the inventory under the registry's, and
  an edit reads its group without a lock, checks the leases, lets the lock go, and
  writes. Leases must exclude each other, must be honoured by the assignments the
  provider sees, must end when their owner dies, and an edit must not change a group
  under a lease.
* **Operations.** A worker thread, the executor's result callbacks and the
  cancel service meet in one record. No answer may be lost or counted twice,
  "complete" must mean saved, the end must be recorded once and stay, the
  session must not be given back early, and every operation must end.
* **Registry.** An acknowledged edit must survive crashes and power losses, a
  failed save must leave nothing in memory, the file must always load, and
  sightings, saved later by a timer, must reach it.
* **Enrollment, placement.** Goals await the provider between the allocation of
  an address and the save, while other goals, edits and cables move on. No
  address or camera may be handed out twice, and the automation must not give a
  camera up.
* **Profiles and settings.** Requests on four threads, some without the lock,
  change files and catalogue while changes are staged, verified and taken back.
  The administrator edits and removes files of his own under it. A selected profile
  must stay, and nothing may stay staged.
* **Gateway.** Threads, feedback and browsers come and go: limits must count the
  right things, slots and subscriptions must be given back, operations must end.
* **RecordCapture.** After a crash the disk holds whole captures, or failed ones
  marked as such; a slot taken is always freed.
* **Provider.** Captures leave in timestamp order; recovery never runs into a
  capture; back-off is bounded.

`PROJECT.json` lists the hazards line by line, with the property that covers each
or the reason none does yet.

## Modules

| Module | Models |
| --- | --- |
| `CameraLease` | abstract: what the manager promises about leases, without groups, clocks or threads |
| `CaptureSessions` | the manager's leases, modes, assignments, operator edits and one-shots; implements `CameraLease` |
| `CaptureOperations` | the recorder's operations |
| `PartialFunctions` | the dictionaries the code keeps things in |
| `Inventory` | the inventory as data: what makes it valid, what each edit makes of it |
| `Registry` | the durable inventory: memory, file, the steps of a save, faults, restart |
| `Enrollment` | the enroll and placement goals, their claims, and the automation |
| `CameraSettings` | profiles, selections, apply and save, assignments, restarts |
| `Gateway` | the web gateway's operations, previews and connections |
| `MCCaptureSessions`, `MCCaptureOperations`, `MCRegistry`, `MCEnrollment`, `MCCameraSettings`, `MCGateway` | the instances TLC checks |
| `CaptureSessionsProofs`, `CaptureOperationsProofs`, `RegistryProofs`, `EnrollmentProofs`, `CameraSettingsProofs`, `GatewayProofs` | theorems about them |
| `InventoryProofs`, `CommonLemmas` | lemmas those share: what each edit makes of an inventory; dictionaries, least numbers |

`Registry` and `Enrollment` compose with `Inventory`: both EXTEND it and use its edits,
the one with the steps and failures of a save, the other with one atomic save and
the goals around it. `CaptureSessions` keeps the parts of the inventory that leases
touch, `CameraSettings` the selections.

### CaptureSessions

`sessions` is `capture_sessions`. uuid4 names become a finite set of names, each
used once, and `told` says whether the acquiring handler has published and
answered. `catalog` and `members` are the parts of the inventory the leases touch; a group
without members is not in the inventory. `groupMode` and `sensorMode` are
the dictionaries of the same names, with `"unset"` for a missing key. `published` is the
last `ProviderAssignment` of each camera, `edit` what each executor thread that
serves an operator has done so far, `shot` the one-shots being served, `alive`
the clients.

Every critical section is one action. `Acquire` is also `prepare_capture_groups`,
which creates a shared group lease through the same function. Each edit is a
`...Read` (the cameras its group has, read from the inventory without a lock),
`CheckLeases` (the lease test on those cameras, under the lock), a `...Save` (the
registry's part) and a `...Finish` (what follows the save). Setting the mode of a
camera reads its groups after the test, a step of its own (`SetSensorModeGroups`). An
edit remembers the leases on its group that were intact when it read it: those it
must not break. `Publish` is `_publish_state`; it computes and
sends under the node's lock, and stands for the timer and for the call at the end
of every handler. The publication of the acquiring handler is a step of its own
(`AcquireReturns`) because the caller may count on it.

Time is a number of ticks each lease has left. A lease at zero may still be
renewed until the timer sweeps it, as in the code.

Abstractions: `group_capture_intervals` is only ever set to zero, so the cadence
comes from the leases alone. A lease on a camera by name asks for a cadence that no
assignment carries, as in the code. The code does not ask who renews or releases;
the model lets only the owner do so. Whether a target is ready is the provider's
business: the wait of a one-shot ends whenever it likes, or gives up. A save
succeeds or is refused. A handler's reads of one group in a row, without a lock
(`_set_mode` asks whether it exists and then for its members), are one step: a group
deleted in between ends the request with an error and no effect. A forgotten camera is `"known"` again. Two settings
handlers that also look at the leases (`update_metadata`,
`apply_camera_settings`) change nothing a lease depends on and are left out here.

### CaptureOperations

`op` is the `OperationState` of each operation and `pc` the place its worker
thread has reached between critical sections. `goal` follows each capture: counted in
`pending_saves`, sent to the action server, running, answered, and the answer
seen by `capture_finished`. `slots` is `active_capture_ids_`, `present` the keys
of `operations_`, `history` is `terminal_operation_ids_`, and `session` is where the
operation's session is. `RecordTerminal`, `Settle` and `Counted` are the
functions called with the mutex held, as operators on the record.

`dispatch_cycle` is split where the code gives the mutex up: `CountCycle` under
it, then the test of `stop_scheduling` without it (line 1214). That read races
with writers, so a value written since `CountCycle` may be seen
(`DispatchStopped`) or not (`DispatchGoes`).

Abstractions: a test shot of a camera is a test shot of a group of its own;
times, offsets and capture ids are left out; an unsafe id is a choice; the action
server may refuse any goal (no slot, a busy camera, a group that is gone).
A session release that finds the manager absent leaves the session `"orphan"` for
the manager's time-to-live. Shutdown of the recorder is not modelled.

### Inventory

A camera is one piece of hardware, with one MAC address and one pair of vendor and
serial. Its sensor ID is `<<"new", c>>` when this release makes it up and
`<<"old", c>>` when an older one did; `sensor_id_for_observation` finds the old one,
`replace_sensor` makes up a new one whatever the catalogue says, as in the code.
`Valid` is `validate_inventory`, with the two notions of identity it really has:
enrolled sensors are compared by hardware key, known ones by the provider's name
and the bare serial. `Normalized` is what validation writes back.

Abstractions: IDs with a suffix (a stable ID that collides with another vendor's),
sensors without a network, addresses outside the pool, and everything no edit
reads (names, poses, notes, timestamps, sightings, the history list).

### Registry

`memory` is `registry.inventory`, `file` what a start would read, `stale` what it would
read after a power loss: until the directory is synced, the rename may be lost. An
edit changes the memory and starts a `save`, whose steps are `ReplaceFile`
(validate, write beside, rename) and `SyncDirectory` (sync, take the image), with
`SaveRefused`, `WriteFails` and `SyncFails` in between; each of them puts the memory
back. A failed directory sync leaves the new file in place all the same (`torn`).
The lock is held from an edit to the end of its save, which `Free` says. `Observe`,
`Flush` and `ResetFlag` are the catalogue: a sighting enters the memory, a timer
saves it, and two other handlers clear the flag that asks for it after a save of
their own. `Start` reads, migrates and validates; an old or missing file is written
back first.

Abstractions: the `.yaml.bak` copy, which no code reads; a torn write of the
temporary file, which is never renamed. An `OSError` is caught by no handler, so a
failed write may also end the manager: a fault followed by another, `Crash`. Nothing
restarts a manager that died, the launch file does not; `Start` may happen.

### Enrollment

A goal is a record in `job` with its step: `"sent"` to the manager's own action server
(the automation's goals only), to `"claim"` its camera or sensors, to `"reserve"` a
place, to `"provision"`, to `"save"`. `enrollment_active`, `enrollment_network_active`,
`placement_active`, `auto_enroll_inflight` and `retry_after` are the node's sets of
these names. The checks between the camera's claim and the allocation read state
nobody locks; they, the network's claim and the allocation are one step (`Reserve`).
The claim tests only what the code tests, and `Finish` is the finally clause, which
gives up the camera's claim even of an enrollment refused because another holds it.
The provider's answer is awaited without a timeout: when the provider dies during the
call (`NeverAnswered`), the goal never goes on and its claims are never given back;
`unanswered` keeps what such an enrollment holds. Its slot in `job`, a bound of the
model, is free again.

Abstractions: one operator edit besides goals is a port mode or an archiving (forced
or not); `_auto_enroll_failed` and the release in the finally clause are one step; a
source sensor is online when its camera is seen on the network it is enrolled
on; a goal of an operator that is rejected leaves nothing. An inventory that
validation refuses fails the goal.

### CameraSettings

`catalog` is `camera_profiles`, `managed` and `admin` are the files behind it, `saved` is what the
inventory selects for each camera, `pending` and `settings_applying` what is staged,
`assigned` the last assignment published, `camera` the provider's session and `runtime` the last
status of it. Handlers that do not hold the lock throughout have a step for each
part: a reload reads, checks and installs, and several may be under way; an update of a
known sensor checks and saves. The administrator writes and removes files of his directory
at any time (`AdminWrites`, `AdminRemoves`), also while the manager is down; what he does
takes effect with the next reload or start. `TakeBack` is the exception branch of apply, which runs for every refused request
and takes back whatever is staged on the camera, also by another request. A publication fails
as a whole when a selected profile is missing; in a handler that is reported, in
the timer or in the exception branch it ends the manager's executor.

`raced` is a history variable: one request overtook another between its check and its
use of what it checked. A profile was saved or deleted while a request that relies on
it, or any reload, was under way; or one was selected that a reload, after its look at
the selections, is about to take away (its file was removed); or a reload took one away
from a request that relies on it. The code has each of these races, and the properties
fail when any of them is not counted; they say that there are no others.

`kept` is the profile as it was when a camera selected it. A reload looks at the names of
the selected profiles and at nothing else: an administrator's profile changes its content
under the cameras that have it selected, which is what a reload is for, while one of the
dashboard's may not change as long as it is selected.

Abstractions: a profile's settings are one value, which an edit changes, and an assignment
names its profile; reading all files is one step (`load_camera_profiles`); overrides are the names of what is
overridden; the wait of an application and its save are one step, its timeout and
the provider's error another; a refusal other than "already being applied" changes
nothing unless something is staged, when it does the same.

### Gateway

`operations` is the dictionary of the same name, in the order of the ids, which is
that of age; `worker` the thread of each
operation, which may also fail to start (`OperationNotStarted`), after the operation was
registered; `goal` the goal it sent, `feedback` the feedback under way. `connection` is what each
connection's thread does, `slots` the semaphore. `preview_demand` is `"recent"` until five
seconds have passed. An `"ended"` operation succeeded, failed or was cancelled. `frames` are the cameras with a
frame, and `last` compares the number of the frame a stream wrote last with that of its
camera's: older, the same, or ahead when the camera was dropped and counts from one
again, until it has caught up after some frames. So frames arrive for ever in the model.
A request for the events names no camera and asks for no preview.

Abstractions: sending a goal and its acceptance are one step; a client that leaves
during a poll is ignored; a frame that arrives after its subscription was destroyed
is dropped (the code would keep it, under a new generation count). Handlers that forward
one request to one service are not modelled: they keep no state but a cache.

## Runs

| Run | What it shows | Distinct states |
| --- | --- | --- |
| `leases` | exclusiveness, one-shots' leases, crashed clients, return to the baseline | 24,644 |
| `lease_edits` | assignments honour the leases while operators edit; which edit can break a lease; refinement of `CameraLease` | 1.14 million |
| `exclusive_camera_shared` | violation: see Findings | stops early |
| `operations` | the books of one operation, its final state, and that it ends | 181,980 |
| `operation_limits` | active limit and history with three operations | 2.35 million |
| `stopped_operation_stuck` | violation: see Findings | stops early |
| `registry` | acknowledged edits survive, the file loads, memory keeps no failed edit, sightings reach the disk | 183,657 |
| `enrollment` | goals keep apart, addresses are given once, automation does not give up | 704,923 |
| `direct_port_shared` | violation: see Findings | stops early |
| `camera_settings` | selected profiles stay, memory and file agree, staged changes settle | 1.05 million |
| `settings_unverified` | violation: see Findings | stops early |
| `gateway` | limits, history, slots, previews, and that operations end | 383,032 |

`leases` has two clients, a one-shot, two lease names and two cameras in two
overlapping groups, and no operator, because it checks liveness. Two leases are
enough: every property relates at most two, and the one-shot competes for the
same names. `lease_edits` has the operator instead: one editor with one edit of each kind,
a third camera that can be enrolled, archived or replace another, and two leases
of different cadence that overlap in a camera, next to an exclusive one on
a single camera. The time-to-live is one tick: fresh and expired are all the
properties tell apart. One editor is enough to put a lease between a read, a check and a
write, and a replacement changes a group between an edit's read and its check (counting
from the check instead of the read, `LeaseBrokenOnlyByOlderEdit` fails in this run). The
theorems cover any number of editors.

`operations` has a sequence of two cycles of two groups, so that both cycles are
half answered at once; an endless sequence; a batch of two groups; and a test shot.
The recorder has room for three captures, so the capacity check fails with
four. `MaxCycle` is the model's only artificial bound: an endless sequence waits
for its stop after cycle two. `operation_limits` has three operations of
one capture each, two of which may be active, and a history of one. The limits are checked
before a deadlock check makes sense: once all operation ids are used up, the recorder
idles, so the runs of `CaptureOperations` check no deadlock.

`registry` starts from a schema 1 file, or none, of a camera an older release enrolled, and adds
two cameras of two vendors with the same serial, two ports of two addresses, one of
them direct, and a group. `MaxEdits` is two: one edit may be acknowledged and the
other torn. `MaxFaults` is two: a failed save and a crash after it. Sightings and
flushes are not bounded. A manager that is down and whose file is refused stops, so
no deadlock is checked.

`enrollment` has two cameras on two ports, one of them with automation, room for two
cameras on a switched port and one on a direct one; two goals in flight (`Job`),
two operator goals, and two events (cables, port modes, archiving, failed
provisionings). Any provisioning may never be answered. Three goals are needed to see a claim wrongly given up: one that holds it, one
refused, and one that takes it next; slots are used again. `direct_port_shared` has
the same bounds without fairness.

`camera_settings` has two cameras, one profile name the administrator or the dashboard
may own with two contents, one override the cameras refuse, two threads, four
requests or edits of the administrator's file, and one crash. He has the file at first or not.
Four are a profile, its selection, and two that race for it: a reload and the removal of
the file, two reloads. `settings_unverified` lets the cameras take the override.

`gateway` has two operations, of which one may run and one is kept, so that the second
evicts the first; two connections and one camera, which sends any number of frames, or none
any more, so that a stream can wait for ever. It checks deadlock.

### Fairness

`CaptureSessions`: the clock, the expiry timer and the publication timer go on,
an acquiring handler runs to its end, and a one-shot gives up after its 60 s
deadline. Nothing is assumed of clients, operators or providers.
`CaptureOperations`: worker threads run on, for each of their waits has a deadline;
a goal that was sent is answered and its callback run, for `execute` bounds each
of its waits. Clients need not cancel, and sessions need not expire.
`Registry`: a save runs on, the flush timer fires, a handler reaches its next line, and
a camera in `Steady` is reported again and again (strongly: its callback waits for
the lock). Faults need not happen and nothing restarts the manager.
`Enrollment`: goals run on up to the provider's call and from its answer; whether the
provider answers is left open, for nothing bounds the wait (`NeverAnswered` is one way on).
The automation's timer and its thirty seconds pass. Cables, operators and providers owe nothing.
`CameraSettings`: an application ends within twenty-five seconds and the publication timer
fires. Nothing is assumed of the provider.
`Gateway`: threads run on or fail to start, every wait for the manager has a timeout, five seconds pass.
Nothing is assumed of the manager, cameras or browsers.

## Findings

* `exclusive_camera_shared`: confirming a replacement does not look at the leases
  (`manager_node.py:1795`). A lease on a group keeps its old list of cameras, so
  the new camera is driven by the leased group and yet is in no lease, and an
  exclusive session on it is granted. `docs/operations.md:234-236` says such a
  request is rejected.
* `stopped_operation_stuck`: `dispatch_cycle` counts a cycle's captures in
  `pending_saves` and then, when a stop has arrived in between, returns without
  sending them (`CaptureRecorder.cpp:1214`). The operation never ends, and counts
  against `max_active_operations` until the recorder restarts.
  `docs/operations.md:196-198` says it finishes what it accepted.
  `OperationEnds`, in the run `operations`, shows that this is the only way an
  operation can hang.
* `direct_port_shared`: a port the machine file configures switched keeps the room
  of its address pool when an operator sets it direct, because `allocate` compares
  with `max_devices` (`registry.py:580`). The automation refuses a second camera there,
  the enroll action does not. `docs/networking.md:76-77` says the port is reserved
  for one camera.
* `settings_unverified`: a request that only removes overrides is matched by the
  status from before it (`manager_node.py:705`), and saved as verified.
  `docs/configuration.md:113-116` says it is saved only after the provider reported the
  accepted assignment.

Other behaviours the models show, for which code and docs promise nothing, are in the
properties' exceptions: `OnlyTwinsPoison` (two cameras with one serial make every edit
fail), `SelectionLostOnlyByRace` (a profile deleted while an application has it staged is
saved as a selection the next start refuses; a profile whose file was removed is taken away
by a reload although a camera has selected it since), `LeaseBrokenOnlyByOlderEdit` (an edit
that read its group before a lease was granted changes the group under the lease),
`NoCameraLeftOut` (a provider that dies during the call of an enrollment leaves the port, or
the camera, to no automation until the manager restarts), `OperationsEnd` (feedback after the
end sets a gateway operation running for good; one whose thread does not start stays queued and
counts towards the limit) and `LeavingFreesSlot` (a stream without
frames never notices that its client left). The gateway's history keeps the newest operations
by when they began: one that outlasts as many later ones as the history keeps
is forgotten the moment it ends, its result unread. `docs/configuration.md:57` leaves open
which ones are kept; `OutcomeKept` says what is. The instance of `gateway` is too
small for that case, the theorem covers it.

## Proofs

`CaptureSessionsProofs` proves, for every value of the constants that satisfies
`ConstantsAssumption` and `IdleAssumption`:

* `TypeCorrect`: `Spec => []TypeOK`. The other proofs rest on it.
* `ExclusiveLeases`: `[]ExclusiveLease`. It is inductive once it is known that a
  lease is written by nothing but a grant, an end, an answer or a clock step. The
  lemma `LeaseSteps` says so of every action, and the theorems below use it
  rather than go through the actions again.
* `TemporaryLeases`: `[]TemporaryLeaseHasShot`. An action that ends a one-shot
  also drops its lease; a lease a client holds is never a one-shot's.
* `LeasesHonoured`: `[]LeaseHonoured`. Inductive as it stands: an assignment
  computed from the current leases honours each of them (`AssignmentHonours`,
  which needs `LeastPositiveIsLeast`), and when nothing is published a lease
  only becomes answerable by `AcquireReturns`, which publishes.
* `LeasesBrokenOnlyByOlderEdits`. Its invariant (`TestedEdits`) says of an upsert or
  deletion: a lease on its group that was intact when it read the members and still is live
  holds a camera the edit will test, and once the test is passed there is no such
  lease. Lease names are used once and a lease's cameras and groups do not change, so
  this outlives both locks. A lease granted after the read is not in the edit's
  `intact` set, which is what the property allows for: whether it comes before the test,
  on members the edit did not read, or after it.
* `KeepsPromise`: `Spec => KeepsLeasePromise`. Initial states map to initial
  states, and each step is a `Grant`, an `End`, a `Show` or a stutter.

The constants' assumptions are those of the code: a positive time-to-live, a
default mode that is idle or preview, an owner's name the one-shots share with
no client, and requests and edits of the right type.

`CaptureOperationsProofs` proves, for any finite sets of operations and groups,
any requests and any positive limits (`ConstantsAssumption`):

* `OperationTypes`: `Spec => []TypeOK`, with `Control`, which says what the place
  of a worker tells about its operation's record: nothing is pending before the
  first cycle is counted, and scheduling is only done when the worker has left
  the loop. A counter's type already needs this: a cycle is only scheduled when
  fewer than `cycle[o]` were.
* `PendingCountsCaptures`: `[]PendingIsUnanswered`. Needs `Placed` (no capture of
  the worker's cycle is counted before the worker is there), or a cycle could be
  counted onto captures that are already pending. Every step counts the captures
  of one cycle, moves one capture on, answers one, or leaves them (`GoalEffect`).
* `SessionOutlivesCaptures`: `[]SessionCoversCaptures`. A session is only given back
  when the end is recorded, nothing is pending then, and by the theorem before
  no capture is unanswered.
* `RecordsAreFinal`: `Spec => RecordedIsFinal`. A late result needs an unanswered
  capture, a cancellation an operation that is not finished, and the worker of an
  ended operation is past the steps that write its record.
* `CyclesAreAccounted`: `[]CyclesAccounted`. For each cycle that is not whole the
  record counts its answers and the failed ones among them (`Tally`); it is whole when
  the answers are as many as the groups, so an answer settles its cycle exactly
  when it is the last (`BooksAnswer`), also when several cycles wait for answers at
  once. `Totals` says that the three counters of cycles are the sizes of three sets
  of cycles: those scheduled, those saved, those failed. When the end is recorded
  nothing is unanswered, and the second and third make up the first.
* `CompleteIsSaved`: `[]CompleteMeansSaved`. Unless something stopped it, an operation has
  scheduled each cycle up to its worker's (`Undisturbed`), and its worker stops
  right after the last requested one (`OnTime`). A complete operation was not
  stopped and no cycle of it failed (`Verdict`), which the theorem before turns into
  captures on disk.
* `RunningOperationsStay` and `RunningOperationsLimited`: `[]ActiveRetained` and
  `[]ActiveLimit`. The history only names ended operations (`HistoryRecorded`,
  which needs `RecordsAreFinal`), so only those are forgotten; then counting the
  map's active operations counts all of them.

`RegistryProofs` proves, for any cameras, serials, ports, addresses, groups, old files,
and any number of edits and faults, from `FilesAssumption` (what an older release
left on disk is readable, and acceptable once migrated):

* `RegistryTypes`: `[]TypeOK`. The model's counters bound the edits made, and of those the
  save under way and the flags owe at most as many resets of the catalogue's flag; what
  each edit makes of an inventory is an inventory (`InventoryProofs`).
* `FileAlwaysLoads`: `[]FileLoads`. A file is only replaced by the normal form of a valid
  inventory, and the normal form is valid (`NormalizedValid`).
* `AcknowledgedEditsSurvive`: `[]AcknowledgedSurvives`.
* `ManagerActsOnSaved`: `[]ActsOnWhatIsSaved`.
* `OnlyTwinsRefuseEdits`: `[]OnlyTwinsPoison`. A sighting adds a record of a camera that has
  none, so it clashes only with another camera's serial; every edit that leaves the
  memory otherwise has been validated.

They share one inductive invariant, `IInv`. Its parts say that the file and its
previous version can be read (`FilesInv`), that both hold what was acknowledged, unless
a save was torn or waits to be synced, when the file is the memory's (`DiskInv`), that
what was acknowledged is in normal form (`AckedInv`), that the memory between edits can be
saved but for twins and agrees with it (`MemoryInv`), and that a save falls back to an
inventory of that kind, or is a start's, which falls back to none and writes what the
file says (`SaveInv`). The property about the memory needs the one about the fallback: a
failed save is only harmless because what it restores was itself in order.

`EnrollmentProofs` proves, for any cameras, ports, addresses, any number of goals in
flight and of events, from `ApprovedAssumption` (automation runs on approved ports, and
requests ask for the pool's addresses or none):

* `EnrollmentTypes`: `[]TypeOK`.
* `EnrollmentsKeepApart`: `[]EnrollmentsExclusive`. An enrollment between its allocation and
  its save has its network in `enrollment_network_active` (`NetworkInv`), and gives back
  what it allocated and nothing else: a goal that has allocated nothing has no placement
  (`PlaceInv`), so its finally clause cannot free another goal's network.
* `PlacementsKeepApart`: `[]PlacementsExclusive`. A placement past its claim holds the IDs of its
  camera and its source, and no two hold one ID (`PlacementInv`). The IDs themselves must not
  change under it: no edit makes up an ID of an older release, so `OnlyNew` holds for ever
  and the ID of a camera is a constant.
* `AddressesStayDistinct`: `[]AddressesDistinct`. Nothing is saved that has not been validated, a
  sighting touches no enrolled sensor, and normalization keeps them as they are.

`CameraSettingsProofs` proves, for any cameras, profile names, settings, threads, and any
number of requests and crashes:

* `SettingsTypes`: `[]TypeOK`, which says also that exactly the cameras with something staged are
  locked.
* `CatalogMatchesDisk`: `[]CatalogIsOnDisk`, and `SelectionsKept`: `[]SelectionLostOnlyByRace`. One
  invariant, `DiskInv`: unless there was a race, the catalogue of a running manager agrees with
  the dashboard's file (`Agrees`), has each selected profile with its source
  (`SelectedInMemory`) and every profile a request has checked and not yet used
  (`CheckedInMemory`), and each reload under way has read what agrees with the file, and has
  all that is selected once it has looked (`ReloadHolds`). The dashboard's file alone must say
  enough for the next start (`SelectedInFile`): it has the profiles selected from it as they
  were selected, and none of the names selected from the administrator's directory, so that
  neither his edits nor his removals, while the manager runs or while it is down, change the
  source of a selected profile. `Start` and reloads refuse when a name is in both places, and
  `Start` when a selected one is in neither.

`GatewayProofs` proves, for any operations, connections, cameras, and positive limits
(`LimitAssumption`):

* `GatewayTypes`: `[]TypeOK`.
* `ActiveOperationsLimited`: `[]ActiveLimit`. Only feedback sets an operation running whose
  thread has ended (`EndedByWorker`), and `revived` names it then.
* `ConnectionSlotsConserved`: `[]SlotsConserved`. Each way out of a connection gives back the
  slot that accepting it took.
* `OutcomesKept`: `Spec => OutcomeKept`. An update forgets an operation that ended, and leaves
  as many newer ones that ended as the history keeps (`PrunedForgets`).

Only model-checked: the liveness properties (`CrashedClientLosesLeases`,
`BaselineRestored`, `OperationEnds`, `CatalogueReachesDisk`, `NoCameraLeftOut`,
`ChangesSettle`, `OperationsEnd`, `LeavingFreesSlot`, `PreviewReleased`), which the prover does
not handle. Every safety property of a passing run is the conclusion of a theorem.

## Plan

1. `CaptureSessions` with `CameraLease`: model-checked, safety and the refinement proved.
2. `CaptureOperations`: model-checked, safety proved.
3. `Inventory`, `Registry`: model-checked, safety proved.
4. `Enrollment`: model-checked, safety proved.
5. `CameraSettings`: model-checked, safety proved.
6. `Gateway`: model-checked, safety proved.

## Not modelled

* The recorder's `RecordCapture` action (admission, reassembly of chunks, staging,
  rename, rescan) and its shutdown, and the GenICam provider. Both are C++ components
  as large as what is modelled; `CaptureOperations` and `CameraSettings` have what the others see
  of them. They come next.
* The readiness of groups, which the manager computes from provider status.
* The gateway's forwarding handlers and the page in the browser; the message caches.
* Port counters, the command line, `network_setup` (run once, renders files) and the
  PTP supervisor (a sequential restart loop around one child process): input and
  output with no state another part depends on.
* Message definitions, launch files, the vendored Aravis build, examples.
