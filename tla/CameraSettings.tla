---------------------------- MODULE CameraSettings ----------------------------
(***************************************************************************)
(* Camera profiles and camera settings (vixel_manager/manager_node.py and  *)
(* camera_profiles.py): the catalogue in memory and the files behind it,   *)
(* the selection saved for each camera, the changes staged on online       *)
(* cameras, the assignments published to the provider and what it reports. *)
(*                                                                         *)
(* Handlers run on four threads.  A step is what one does while it holds   *)
(* the manager's lock; those that read or write without it (the reload,    *)
(* the update of a known sensor) have a step of their own for each part.   *)
(* A handler's trailing _publish_state is part of its last step.           *)
(*                                                                         *)
(* A profile's settings are one value, its content; overrides are the      *)
(* names of the settings a camera overrides.  The administrator edits his  *)
(* directory whenever he likes; the manager sees it when it loads the      *)
(* files, which is one step.                                               *)
(***************************************************************************)
EXTENDS PartialFunctions, Naturals

CONSTANTS
  Camera,      \* enrolled cameras
  Name,        \* profile names
  Key,         \* settings that may be overridden
  Worker,      \* threads that apply settings and reload profiles
  Impossible,  \* the sets of overrides a camera cannot take
  MaxEdits,    \* bound: requests and files that change something
  MaxCrashes   \* bound: times the manager is killed

ASSUME BoundsAssumption == MaxEdits \in Nat /\ MaxCrashes \in Nat

None == "none"
Content == {1, 2}
Settings == [profile: Name \cup {None}, overrides: SUBSET Key]
Default == [profile |-> None, overrides |-> {}]
NoProfile == [source |-> None]
NotPending == [profile |-> "not pending"]

VARIABLES
  up,         \* the manager runs
  catalog,    \* manager.camera_profiles: [name -> [source, content]]
  managed,    \* the managed file: [name -> content]
  admin,      \* the administrator's directory: [name -> content]
  saved,      \* the settings the inventory has for each camera
  kept,       \* history: the profile as it was when it was selected
  pending,    \* manager.pending_camera_settings
  settings_applying,
  work,       \* the applications in flight, one per worker
  update,     \* [camera -> settings] checked by update_known_sensor
  reload,     \* the catalogue a reload has read, and how far it is, per worker
  assigned,   \* the last assignment published for each camera
  camera,     \* the provider's session: online, what it applied
  runtime,    \* the provider's last status, as the manager has it
  raced,      \* history: a request overtook one that relied on what it changes
  unverified, \* history: cameras whose change was saved without a report of it
  edits, crashes

files == <<managed, admin>>
settings == <<saved, kept>>
applies == <<pending, settings_applying, work>>
provider == <<camera, runtime>>
history == <<raced, unverified>>
vars == <<up, catalog, files, settings, applies, update, reload, assigned,
          provider, history, edits, crashes>>

NoWork == [camera |-> None]
NoReload == [step |-> "none"]
Offline == [online |-> FALSE, applied |-> Default]

(***************************************************************************)
(* Profiles and files                                                      *)
(***************************************************************************)

load_camera_profiles ==
  [n \in DOMAIN admin \cup DOMAIN managed |->
     IF n \in DOMAIN admin THEN [source |-> "admin", content |-> admin[n]]
     ELSE [source |-> "managed", content |-> managed[n]]]

DuplicateProfile == DOMAIN admin \cap DOMAIN managed # {}

ManagedPart(profiles) ==
  LET names == {n \in DOMAIN profiles : profiles[n].source = "managed"}
  IN  [n \in names |-> profiles[n].content]

ReadOnly(n) == n \in DOMAIN catalog /\ catalog[n].source = "admin"
Users(n) == {c \in Camera : saved[c].profile = n}
Selected == {saved[c].profile : c \in Camera} \ {None}

_validate_profile_for_sensor(n) == n = None \/ n \in DOMAIN catalog

(***************************************************************************)
(* Assignments: the staged settings, or else the saved ones.  A profile    *)
(* that is not in the catalogue makes the whole publication fail.          *)
(***************************************************************************)

Wanted == [c \in Camera |-> IF pending[c] # NotPending THEN pending[c] ELSE saved[c]]
Resolves == \A c \in Camera : _validate_profile_for_sensor(Wanted[c].profile)

\* The trailing publication of a handler, which reports a failure of it.
_publish_assignments ==
  assigned' = IF Resolves' THEN Wanted' ELSE assigned

Init ==
  /\ admin \in Partial(Name, {1})
  /\ managed = <<>>
  /\ catalog = load_camera_profiles
  /\ up = TRUE
  /\ saved = [c \in Camera |-> Default] /\ kept = [c \in Camera |-> NoProfile]
  /\ pending = [c \in Camera |-> NotPending]
  /\ settings_applying = {} /\ work = [w \in Worker |-> NoWork]
  /\ update = <<>> /\ reload = [w \in Worker |-> NoReload]
  /\ assigned = [c \in Camera |-> Default]
  /\ camera \in [Camera -> {[Offline EXCEPT !.online = on] : on \in BOOLEAN}]
  /\ runtime = camera
  /\ raced = FALSE /\ unverified = {}
  /\ edits = 0 /\ crashes = 0

Request == up /\ edits < MaxEdits /\ edits' = edits + 1

\* Requests under way that have checked profile n and not yet used it.
Relies(n) ==
  \/ \E c \in Camera : pending[c] # NotPending /\ pending[c].profile = n
  \/ \E c \in DOMAIN update : update[c].profile = n
  \/ \E w \in Worker : work[w] # NoWork /\ work[w].settings.profile = n

Reloading == \E w \in Worker : reload[w] # NoReload

\* A reload has looked at the selections and is about to take profile n away.
AboutToGo(n) ==
  \E w \in Worker : reload[w].step = "checked" /\ n \notin DOMAIN reload[w].loaded

(***************************************************************************)
(* The catalogue                                                           *)
(***************************************************************************)

(* The catalogue changes though the file could not be written.              *)
ChangesCatalogInMemory(n, profiles) ==
  /\ catalog' = profiles
  /\ managed' \in {managed, ManagedPart(profiles)}
  /\ raced' = (raced \/ Reloading \/ (n \in DOMAIN catalog /\ Relies(n)))
  /\ UNCHANGED <<up, admin, settings, applies, update, reload, provider,
                 unverified, crashes>>
  /\ _publish_assignments

ChangesCatalog(n, profiles) ==
  /\ catalog' = profiles
  /\ managed' = ManagedPart(profiles)
  /\ raced' = (raced \/ Reloading \/ (n \in DOMAIN catalog /\ Relies(n)))
  /\ UNCHANGED <<up, admin, settings, applies, update, reload, provider,
                 unverified, crashes>>
  /\ _publish_assignments

_upsert_camera_profile(n, content) ==
  /\ Request
  /\ ~ReadOnly(n) /\ (n \in DOMAIN catalog => Users(n) = {})
  /\ ChangesCatalog(n, Put(catalog, n, [source |-> "managed", content |-> content]))

_delete_camera_profile(n) ==
  /\ Request
  /\ n \in DOMAIN catalog /\ ~ReadOnly(n) /\ Users(n) = {}
  /\ ChangesCatalog(n, Drop(catalog, n))

\* The administrator adds or edits a file of his directory, or removes one.
AdminEdits(directory) ==
  /\ edits < MaxEdits /\ edits' = edits + 1
  /\ directory # admin /\ admin' = directory
  /\ UNCHANGED <<up, catalog, managed, settings, applies, update, reload, assigned,
                 provider, history, crashes>>

AdminWrites(n, content) == AdminEdits(Put(admin, n, content))
AdminRemoves(n) == AdminEdits(Drop(admin, n))

\* A reload reads the files, looks at the selections and installs what it
\* read, holding no lock.  It looks at no content: an edited profile reaches
\* the cameras that have it selected.
ReloadReads(w) ==
  /\ Request
  /\ work[w] = NoWork /\ reload[w] = NoReload
  /\ ~DuplicateProfile
  /\ reload' = [reload EXCEPT ![w] = [step |-> "read", loaded |-> load_camera_profiles]]
  /\ UNCHANGED <<up, catalog, files, settings, applies, update, assigned,
                 provider, history, crashes>>

(* The reload looks at no selection.                                        *)
ReloadUnchecked(w) ==
  /\ up /\ reload[w].step = "read"
  /\ reload' = [reload EXCEPT ![w].step = "checked"]
  /\ UNCHANGED <<up, catalog, files, settings, applies, update, assigned,
                 provider, history, edits, crashes>>

ReloadChecks(w) ==
  /\ up /\ reload[w].step = "read"
  /\ reload' = IF Selected \subseteq DOMAIN reload[w].loaded
                 THEN [reload EXCEPT ![w].step = "checked"]
                 ELSE [reload EXCEPT ![w] = NoReload]
  /\ UNCHANGED <<up, catalog, files, settings, applies, update, assigned,
                 provider, history, edits, crashes>>

ReloadInstalls(w) ==
  /\ up /\ reload[w].step = "checked"
  /\ catalog' = reload[w].loaded
  /\ raced' = (raced \/ \E n \in DOMAIN catalog \ DOMAIN reload[w].loaded : Relies(n))
  /\ reload' = [reload EXCEPT ![w] = NoReload]
  /\ UNCHANGED <<up, files, settings, applies, update, provider, unverified,
                 edits, crashes>>
  /\ _publish_assignments

(***************************************************************************)
(* The selection of a camera                                               *)
(***************************************************************************)

\* registry.update_known_sensor, which does not look at the profiles.
Select(c, s) ==
  /\ saved' = [saved EXCEPT ![c] = s]
  /\ kept' = [kept EXCEPT ![c] = IF s.profile \in DOMAIN catalog
                                   THEN catalog[s.profile] ELSE NoProfile]
  /\ raced' = (raced \/ (s.profile # None /\ AboutToGo(s.profile)))

\* An online camera's settings are changed by applying them only.
UpdateKnownChecks(c, s) ==
  /\ Request
  /\ c \notin DOMAIN update
  /\ _validate_profile_for_sensor(s.profile)
  /\ s # saved[c] => ~runtime[c].online
  /\ update' = Put(update, c, s)
  /\ UNCHANGED <<up, catalog, files, settings, applies, reload, assigned,
                 provider, history, crashes>>

UpdateKnownSaves(c) ==
  /\ up /\ c \in DOMAIN update
  /\ Select(c, update[c])
  /\ update' = Drop(update, c)
  /\ UNCHANGED <<up, catalog, files, applies, reload, provider, unverified,
                 edits, crashes>>
  /\ _publish_assignments

(***************************************************************************)
(* Apply and save                                                          *)
(***************************************************************************)

Appliable(c, s) ==
  /\ Request
  /\ c \notin settings_applying
  /\ _validate_profile_for_sensor(s.profile)

ApplySavesOffline(c, s) ==
  /\ Appliable(c, s) /\ ~runtime[c].online
  /\ Select(c, s)
  /\ UNCHANGED <<up, catalog, files, applies, update, reload, provider,
                 unverified, crashes>>
  /\ _publish_assignments

ApplyStages(w, c, s) ==
  /\ Appliable(c, s) /\ runtime[c].online
  /\ work[w] = NoWork /\ reload[w] = NoReload
  /\ work' = [work EXCEPT ![w] = [camera |-> c, settings |-> s]]
  /\ settings_applying' = settings_applying \cup {c}
  /\ pending' = [pending EXCEPT ![c] = s]
  /\ UNCHANGED <<up, catalog, files, settings, update, reload, provider,
                 history, crashes>>
  /\ _publish_assignments

\* The status names the profile and has every override asked for.
Accepted(c, s) ==
  /\ runtime[c].online
  /\ runtime[c].applied.profile = s.profile
  /\ s.overrides \subseteq runtime[c].applied.overrides

(* What was staged is left there.                                           *)
UnstageCamera(c) ==
  /\ settings_applying' = settings_applying \ {c}
  /\ UNCHANGED pending

(* The camera stays locked for the next application.                        *)
UnstagePending(c) ==
  /\ pending' = [pending EXCEPT ![c] = NotPending]
  /\ UNCHANGED settings_applying

Unstage(c) ==
  /\ pending' = [pending EXCEPT ![c] = NotPending]
  /\ settings_applying' = settings_applying \ {c}

ApplySucceeds(w) ==
  LET c == work[w].camera
      s == work[w].settings
  IN  /\ up /\ work[w] # NoWork /\ Accepted(c, s)
      /\ Select(c, s)
      /\ unverified' = unverified \cup (IF runtime[c].applied = s THEN {} ELSE {c})
      /\ Unstage(c)
      /\ work' = [work EXCEPT ![w] = NoWork]
      /\ UNCHANGED <<up, catalog, files, update, reload, provider, edits, crashes>>
      /\ _publish_assignments

\* The exception branch: it takes back whatever is staged on the camera, and
\* a publication that fails here ends the manager.
TakeBack(c) ==
  /\ Unstage(c)
  /\ UNCHANGED <<catalog, files, settings, update, reload, provider, history, crashes>>
  /\ up' = (pending[c] # NotPending => Resolves')
  /\ assigned' = IF pending[c] # NotPending /\ Resolves' THEN Wanted' ELSE assigned

\* Twenty-five seconds passed, or the provider reported an error before: what
\* happens next is the same.
ApplyFails(w) ==
  LET c == work[w].camera
  IN  /\ up /\ work[w] # NoWork
      /\ work' = [work EXCEPT ![w] = NoWork]
      /\ TakeBack(c)
      /\ UNCHANGED edits

\* A request that is refused: the camera is being configured or captures, the
\* profile is unknown, the document is no object.
ApplyRefused(c) ==
  /\ Request
  /\ c \in settings_applying
  /\ TakeBack(c)
  /\ UNCHANGED work

(***************************************************************************)
(* The timer's publication, the end and the start of the manager           *)
(***************************************************************************)

\* Every handler has published what it changed, so that the timer has nothing
\* new to publish; but when it cannot, its exception ends the executor.
PublishFails ==
  /\ up /\ ~Resolves
  /\ up' = FALSE
  /\ UNCHANGED <<catalog, files, settings, applies, update, reload, assigned,
                 provider, history, edits, crashes>>

Crash ==
  /\ up /\ crashes < MaxCrashes
  /\ up' = FALSE
  /\ crashes' = crashes + 1
  /\ UNCHANGED <<catalog, files, settings, applies, update, reload, assigned,
                 provider, history, edits>>

\* Nothing of the memory is left; the start refuses files that disagree.
Start ==
  /\ ~up /\ ~DuplicateProfile /\ Selected \subseteq DOMAIN load_camera_profiles
  /\ up' = TRUE
  /\ catalog' = load_camera_profiles
  /\ pending' = [c \in Camera |-> NotPending] /\ settings_applying' = {}
  /\ work' = [w \in Worker |-> NoWork]
  /\ update' = <<>> /\ reload' = [w \in Worker |-> NoReload]
  /\ runtime' = [c \in Camera |-> Offline]
  /\ UNCHANGED <<files, settings, camera, history, edits, crashes>>
  /\ _publish_assignments

(***************************************************************************)
(* The provider: it restarts a camera whose assignment changed, unless the *)
(* camera refuses the settings, and reports the assignment it applied.     *)
(***************************************************************************)

ProviderConfigures(c) ==
  /\ camera[c].online /\ camera[c].applied # assigned[c]
  /\ assigned[c].overrides \notin Impossible
  /\ camera' = [camera EXCEPT ![c].applied = assigned[c]]
  /\ UNCHANGED <<up, catalog, files, settings, applies, update, reload, assigned,
                 runtime, history, edits, crashes>>

_provider_status(c) ==
  /\ up /\ runtime' = [runtime EXCEPT ![c] = camera[c]]
  /\ UNCHANGED <<up, catalog, files, settings, applies, update, reload, assigned,
                 camera, history, edits, crashes>>

CameraReplugged(c) ==
  /\ edits < MaxEdits /\ edits' = edits + 1
  /\ camera' = [camera EXCEPT ![c].online = ~camera[c].online]
  /\ UNCHANGED <<up, catalog, files, settings, applies, update, reload, assigned,
                 runtime, history, crashes>>

Next ==
  \/ \E n \in Name, content \in Content : _upsert_camera_profile(n, content)
  \/ \E n \in Name : _delete_camera_profile(n)
  \/ \E n \in Name, content \in Content : AdminWrites(n, content)
  \/ \E n \in Name : AdminRemoves(n)
  \/ \E w \in Worker : ReloadReads(w)
  \/ \E w \in Worker : ReloadChecks(w)
  \/ \E w \in Worker : ReloadInstalls(w)
  \/ \E c \in Camera, s \in Settings : UpdateKnownChecks(c, s)
  \/ \E c \in Camera : UpdateKnownSaves(c)
  \/ \E c \in Camera, s \in Settings : ApplySavesOffline(c, s)
  \/ \E w \in Worker, c \in Camera, s \in Settings : ApplyStages(w, c, s)
  \/ \E w \in Worker : ApplySucceeds(w)
  \/ \E w \in Worker : ApplyFails(w)
  \/ \E c \in Camera : ApplyRefused(c)
  \/ PublishFails
  \/ Crash
  \/ Start
  \/ \E c \in Camera : ProviderConfigures(c)
  \/ \E c \in Camera : _provider_status(c)
  \/ \E c \in Camera : CameraReplugged(c)

(***************************************************************************)
(* Fairness.  An application ends after twenty-five seconds at the latest; *)
(* the publication's timer fires every two seconds.  Nothing is assumed of *)
(* the provider, and nothing restarts the manager.                         *)
(***************************************************************************)
Fairness ==
  /\ \A w \in Worker : WF_vars(ApplySucceeds(w) \/ ApplyFails(w))
  /\ WF_vars(PublishFails)

Spec == Init /\ [][Next]_vars
LiveSpec == Spec /\ Fairness

(***************************************************************************)
(* Properties                                                              *)
(***************************************************************************)

ProfileType == [source: {"admin", "managed"}, content: Content]
CatalogType == Partial(Name, ProfileType)
SessionType == [online: BOOLEAN, applied: Settings]

\* Every variable stays in its set, and a camera is locked as long as
\* something is staged on it.
TypeOK ==
  /\ up \in BOOLEAN /\ raced \in BOOLEAN /\ unverified \subseteq Camera
  /\ catalog \in CatalogType /\ managed \in Partial(Name, Content)
  /\ admin \in Partial(Name, Content)
  /\ saved \in [Camera -> Settings] /\ kept \in [Camera -> ProfileType \cup {NoProfile}]
  /\ pending \in [Camera -> Settings \cup {NotPending}]
  /\ settings_applying = {c \in Camera : pending[c] # NotPending}
  /\ work \in [Worker -> [camera: Camera, settings: Settings] \cup {NoWork}]
  /\ update \in Partial(Camera, Settings)
  /\ reload \in [Worker -> [step: {"read", "checked"}, loaded: CatalogType] \cup {NoReload}]
  /\ assigned \in [Camera -> Settings]
  /\ camera \in [Camera -> SessionType] /\ runtime \in [Camera -> SessionType]
  /\ edits \in 0..MaxEdits /\ crashes \in 0..MaxCrashes

\* A profile a camera has selected is never lost to the running manager, and
\* stays the dashboard's or the administrator's, whatever the administrator
\* does to his files; and the dashboard's is neither deleted nor replaced: it
\* is in the file and in memory as it was selected.  Unless a request overtook
\* another between its check and its use: a profile was saved or deleted under
\* a reload or a request that relied on it, selected when a reload had looked
\* at the selections already, or taken by a reload from a request that relied
\* on it.  An administrator's profile has, with the next reload or start, the
\* content of his file, selected or not.
SelectionLostOnlyByRace ==
  ~raced => \A c \in Camera :
    saved[c].profile # None =>
      LET n == saved[c].profile
      IN  /\ up => n \in DOMAIN catalog /\ catalog[n].source = kept[c].source
          /\ kept[c].source = "managed" =>
               /\ n \in DOMAIN managed /\ managed[n] = kept[c].content
               /\ up => catalog[n] = kept[c]

\* The managed profiles in memory are those of the file, failed or refused
\* requests and restarts included; unless a request overtook another one.
CatalogIsOnDisk == up /\ ~raced => ManagedPart(catalog) = managed

\* Whatever was staged, refused, timed out or raced, each camera is assigned
\* its saved settings again and again: no change stays staged for ever.
ChangesSettle == \A c \in Camera : []<>(up => assigned[c] = saved[c])

\* docs/configuration.md: Apply and save waits for the provider to report the
\* accepted assignment, and persists it only after success.
SavedWasReported == unverified = {}
=============================================================================
