------------------------ MODULE CameraSettingsProofs ------------------------
(***************************************************************************)
(* Theorems about CameraSettings, for any cameras, profile names, settings *)
(* to override, threads, and any number of requests and crashes.           *)
(***************************************************************************)
EXTENDS CameraSettings, CommonLemmas, TLAPS

(***************************************************************************)
(* Types.  The parts of TypeOK, each of which few actions change.          *)
(***************************************************************************)

FlagsType == up \in BOOLEAN /\ raced \in BOOLEAN /\ unverified \subseteq Camera
FilesType ==
  /\ catalog \in CatalogType /\ managed \in Partial(Name, Content)
  /\ admin \in Partial(Name, Content)
SelectionType ==
  saved \in [Camera -> Settings] /\ kept \in [Camera -> ProfileType \cup {NoProfile}]
StagedType ==
  /\ pending \in [Camera -> Settings \cup {NotPending}]
  /\ settings_applying = {c \in Camera : pending[c] # NotPending}
  /\ work \in [Worker -> [camera: Camera, settings: Settings] \cup {NoWork}]
RequestType ==
  /\ update \in Partial(Camera, Settings)
  /\ reload \in [Worker -> [step: {"read", "checked"}, loaded: CatalogType] \cup {NoReload}]
ProviderType ==
  /\ assigned \in [Camera -> Settings]
  /\ camera \in [Camera -> SessionType] /\ runtime \in [Camera -> SessionType]
CountsType == edits \in 0..MaxEdits /\ crashes \in 0..MaxCrashes

LEMMA TypeParts ==
  TypeOK <=> /\ FlagsType /\ FilesType /\ SelectionType /\ StagedType
             /\ RequestType /\ ProviderType /\ CountsType
BY DEF TypeOK, FlagsType, FilesType, SelectionType, StagedType, RequestType,
       ProviderType, CountsType

LEMMA TypePartsNext ==
  ASSUME FlagsType', FilesType', SelectionType', StagedType', RequestType',
         ProviderType', CountsType'
  PROVE  TypeOK'
BY DEF TypeOK, FlagsType, FilesType, SelectionType, StagedType, RequestType,
       ProviderType, CountsType

(* What is published is typed as what it is computed from.                 *)
LEMMA PublishType ==
  ASSUME ProviderType, SelectionType', StagedType', _publish_assignments,
         UNCHANGED provider
  PROVE  ProviderType'
<1>1. Wanted' \in [Camera -> Settings]
  BY DEF SelectionType, StagedType, Wanted
<1>2. assigned' \in {assigned, Wanted'}
  BY DEF _publish_assignments
<1>. QED
  BY <1>1, <1>2 DEF ProviderType, provider

LEMMA LoadType ==
  ASSUME managed \in Partial(Name, Content), admin \in Partial(Name, Content)
  PROVE  load_camera_profiles \in CatalogType
<1>1. DOMAIN managed \subseteq Name /\ \A n \in DOMAIN managed : managed[n] \in Content
  BY PartialGet
<1>2. DOMAIN admin \subseteq Name /\ \A n \in DOMAIN admin : admin[n] \in Content
  BY PartialGet
<1>3. ASSUME NEW n \in DOMAIN admin \cup DOMAIN managed
      PROVE  (IF n \in DOMAIN admin THEN [source |-> "admin", content |-> admin[n]]
              ELSE [source |-> "managed", content |-> managed[n]]) \in ProfileType
  BY <1>1, <1>2, <1>3 DEF ProfileType
<1>4. load_camera_profiles \in [DOMAIN admin \cup DOMAIN managed -> ProfileType]
  BY <1>3 DEF load_camera_profiles
<1>. QED
  BY <1>1, <1>2, <1>4, PartialIntro DEF CatalogType

LEMMA ManagedPartIs ==
  ASSUME NEW f \in CatalogType
  PROVE  /\ DOMAIN ManagedPart(f) = {n \in DOMAIN f : f[n].source = "managed"}
         /\ \A n \in DOMAIN ManagedPart(f) : ManagedPart(f)[n] = f[n].content
         /\ ManagedPart(f) \in Partial(Name, Content)
<1>. DEFINE names == {n \in DOMAIN f : f[n].source = "managed"}
<1>1. DOMAIN f \subseteq Name /\ \A n \in DOMAIN f : f[n] \in ProfileType
  BY PartialGet DEF CatalogType
<1>2. ManagedPart(f) = [n \in names |-> f[n].content]
  BY DEF ManagedPart
<1>3. names \in SUBSET Name /\ \A n \in names : f[n].content \in Content
  BY <1>1 DEF ProfileType
<1>. HIDE DEF names
<1>4. ManagedPart(f) \in [names -> Content]
  BY <1>2, <1>3
<1>5. ManagedPart(f) \in Partial(Name, Content)
  BY <1>3, <1>4, PartialIntro
<1>6. DOMAIN ManagedPart(f) = names /\ \A n \in names : ManagedPart(f)[n] = f[n].content
  BY <1>2
<1>. QED
  BY <1>5, <1>6 DEF names

LEMMA InitType == Init => TypeOK
<1>. SUFFICES ASSUME Init PROVE TypeOK
  OBVIOUS
<1>1. Default \in Settings
  BY DEF Default, Settings
<1>2. FilesType
  <2>1. <<>> \in [{} -> Content]
    OBVIOUS
  <2>2. managed \in Partial(Name, Content)
    BY <2>1, PartialIntro DEF Init
  <2>3. admin \in Partial(Name, Content)
    <3>1. DOMAIN admin \in SUBSET Name /\ admin = [n \in DOMAIN admin |-> admin[n]]
          /\ \A n \in DOMAIN admin : admin[n] \in Content
      BY PartialGet DEF Init, Content
    <3>2. admin \in [DOMAIN admin -> Content]
      BY <3>1
    <3>. QED
      BY <3>1, <3>2, PartialIntro
  <2>. QED
    BY <2>2, <2>3, LoadType DEF FilesType, Init
<1>3. SelectionType
  BY <1>1 DEF Init, SelectionType, Content
<1>4. StagedType
  BY DEF Init, StagedType
<1>5. RequestType
  <2>1. <<>> \in [{} -> Settings]
    OBVIOUS
  <2>. QED
    BY <2>1, PartialIntro DEF Init, RequestType
<1>6. ProviderType
  <2>1. \A on \in BOOLEAN : [Offline EXCEPT !.online = on] \in SessionType
    BY <1>1 DEF Offline, SessionType
  <2>. QED
    BY <1>1, <2>1 DEF Init, ProviderType
<1>7. FlagsType
  BY DEF Init, FlagsType
<1>8. CountsType
  BY BoundsAssumption DEF Init, CountsType
<1>. QED
  BY <1>2, <1>3, <1>4, <1>5, <1>6, <1>7, <1>8, TypeParts

(* One more request, within the bound.                                     *)
LEMMA OneMore ==
  ASSUME CountsType, edits < MaxEdits, edits' = edits + 1, UNCHANGED crashes
  PROVE  CountsType'
BY BoundsAssumption DEF CountsType

LEMMA PutProfile ==
  ASSUME FilesType, NEW n \in Name, NEW content \in Content
  PROVE  Put(catalog, n, [source |-> "managed", content |-> content]) \in CatalogType
<1>1. [source |-> "managed", content |-> content] \in ProfileType
  BY DEF ProfileType
<1>. QED
  BY <1>1, PartialPut DEF FilesType, CatalogType

LEMMA DropProfile ==
  ASSUME FilesType, NEW n
  PROVE  Drop(catalog, n) \in CatalogType
BY PartialDrop DEF FilesType, CatalogType

(***************************************************************************)
(* Types, action by action.                                                *)
(***************************************************************************)

LEMMA ChangesCatalogType ==
  ASSUME TypeOK, NEW n, NEW profiles \in CatalogType, Request, ChangesCatalog(n, profiles)
  PROVE  TypeOK'
<1>1. FilesType'
  BY ManagedPartIs, TypeParts DEF ChangesCatalog, FilesType
<1>2. SelectionType' /\ StagedType' /\ RequestType'
  BY TypeParts DEF ChangesCatalog, SelectionType, StagedType, RequestType, settings, applies
<1>3. ProviderType'
  BY <1>2, PublishType, TypeParts DEF ChangesCatalog
<1>4. FlagsType'
  <2>1. raced' \in BOOLEAN
    BY DEF ChangesCatalog
  <2>. QED
    BY <2>1, TypeParts DEF ChangesCatalog, FlagsType
<1>5. CountsType'
  BY OneMore, TypeParts DEF ChangesCatalog, Request
<1>. QED
  BY <1>1, <1>2, <1>3, <1>4, <1>5, TypePartsNext

LEMMA AdminType ==
  ASSUME TypeOK, NEW directory \in Partial(Name, Content), AdminEdits(directory)
  PROVE  TypeOK'
<1>1. FilesType'
  BY TypeParts DEF AdminEdits, FilesType
<1>2. SelectionType' /\ StagedType' /\ RequestType' /\ ProviderType' /\ FlagsType'
  BY TypeParts DEF AdminEdits, SelectionType, StagedType, RequestType, ProviderType,
                   FlagsType, settings, applies, provider, history
<1>3. CountsType'
  BY OneMore, TypeParts DEF AdminEdits
<1>. QED
  BY <1>1, <1>2, <1>3, TypePartsNext

(* What a worker has loaded.                                               *)
LEMMA LoadedType ==
  ASSUME RequestType, NEW w \in Worker, reload[w].step \in {"read", "checked"}
  PROVE  /\ reload[w] # NoReload
         /\ reload[w] \in [step: {"read", "checked"}, loaded: CatalogType]
<1>1. reload[w] # NoReload
  BY DEF NoReload
<1>. QED
  BY <1>1 DEF RequestType

LEMMA ReloadType ==
  ASSUME TypeOK, NEW w \in Worker, ReloadReads(w) \/ ReloadChecks(w) \/ ReloadInstalls(w)
  PROVE  TypeOK'
<1>1. RequestType' /\ FilesType'
  <2>1. CASE ReloadReads(w)
    <3>1. [step |-> "read", loaded |-> load_camera_profiles]
            \in [step: {"read", "checked"}, loaded: CatalogType]
      BY LoadType, TypeParts DEF FilesType
    <3>. QED
      BY <2>1, <3>1, TypeParts DEF ReloadReads, RequestType, FilesType, files
  <2>2. CASE ReloadChecks(w)
    <3>1. reload[w] \in [step: {"read", "checked"}, loaded: CatalogType]
      BY <2>2, LoadedType, TypeParts DEF ReloadChecks
    <3>2. [reload[w] EXCEPT !.step = "checked"] \in [step: {"read", "checked"}, loaded: CatalogType]
      BY <3>1
    <3>3. RequestType'
      <4>1. reload' \in {[reload EXCEPT ![w] = [reload[w] EXCEPT !.step = "checked"]],
                         [reload EXCEPT ![w] = NoReload]}
        BY <2>2 DEF ReloadChecks
      <4>. QED
        BY <2>2, <3>2, <4>1, TypeParts DEF ReloadChecks, RequestType
    <3>. QED
      BY <2>2, <3>3, TypeParts DEF ReloadChecks, FilesType, files
  <2>3. CASE ReloadInstalls(w)
    <3>1. reload[w] \in [step: {"read", "checked"}, loaded: CatalogType]
      BY <2>3, LoadedType, TypeParts DEF ReloadInstalls
    <3>. QED
      BY <2>3, <3>1, TypeParts DEF ReloadInstalls, RequestType, FilesType, files
  <2>. QED
    BY <2>1, <2>2, <2>3
<1>2. SelectionType' /\ StagedType'
  BY TypeParts DEF ReloadReads, ReloadChecks, ReloadInstalls, SelectionType, StagedType,
                   settings, applies
<1>3. FlagsType'
  <2>1. raced' \in BOOLEAN /\ UNCHANGED <<up, unverified>>
    BY TypeParts DEF ReloadReads, ReloadChecks, ReloadInstalls, FlagsType, history
  <2>. QED
    BY <2>1, TypeParts DEF FlagsType
<1>4. ProviderType'
  <2>1. CASE ReloadInstalls(w)
    BY <1>2, <2>1, PublishType, TypeParts DEF ReloadInstalls
  <2>2. CASE ReloadReads(w) \/ ReloadChecks(w)
    BY <2>2, TypeParts DEF ReloadReads, ReloadChecks, ProviderType, provider
  <2>. QED
    BY <2>1, <2>2
<1>5. CountsType'
  <2>1. CASE ReloadReads(w)
    BY <2>1, OneMore, TypeParts DEF ReloadReads, Request
  <2>2. CASE ReloadChecks(w) \/ ReloadInstalls(w)
    BY <2>2, TypeParts DEF ReloadChecks, ReloadInstalls, CountsType
  <2>. QED
    BY <2>1, <2>2
<1>. QED
  BY <1>1, <1>2, <1>3, <1>4, <1>5, TypePartsNext

LEMMA SelectType ==
  ASSUME SelectionType, FilesType, NEW c \in Camera, NEW s \in Settings, Select(c, s)
  PROVE  SelectionType' /\ raced' \in BOOLEAN
<1>1. \A n \in DOMAIN catalog : catalog[n] \in ProfileType
  BY PartialGet DEF FilesType, CatalogType
<1>2. (IF s.profile \in DOMAIN catalog THEN catalog[s.profile] ELSE NoProfile)
        \in ProfileType \cup {NoProfile}
  BY <1>1
<1>. QED
  BY <1>2 DEF Select, SelectionType

LEMMA UpdateType ==
  ASSUME TypeOK, NEW c \in Camera,
         (\E s \in Settings : UpdateKnownChecks(c, s)) \/ UpdateKnownSaves(c)
  PROVE  TypeOK'
<1>1. CASE \E s \in Settings : UpdateKnownChecks(c, s)
  <2>1. RequestType'
    BY <1>1, PartialPut, TypeParts DEF UpdateKnownChecks, RequestType
  <2>2. /\ FilesType' /\ SelectionType' /\ StagedType' /\ ProviderType' /\ FlagsType'
    BY <1>1, TypeParts DEF UpdateKnownChecks, FilesType, SelectionType, StagedType,
         ProviderType, FlagsType, files, settings, applies, provider, history
  <2>3. CountsType'
    BY <1>1, OneMore, TypeParts DEF UpdateKnownChecks, Request
  <2>. QED
    BY <2>1, <2>2, <2>3, TypePartsNext
<1>2. CASE UpdateKnownSaves(c)
  <2>1. update[c] \in Settings
    BY <1>2, PartialGet, TypeParts DEF UpdateKnownSaves, RequestType
  <2>2. SelectionType' /\ raced' \in BOOLEAN
    BY <1>2, <2>1, SelectType, TypeParts DEF UpdateKnownSaves
  <2>3. RequestType'
    BY <1>2, PartialDrop, TypeParts DEF UpdateKnownSaves, RequestType
  <2>4. FilesType' /\ StagedType' /\ FlagsType' /\ CountsType'
    BY <1>2, <2>2, TypeParts DEF UpdateKnownSaves, FilesType, StagedType, FlagsType,
         CountsType, files, applies
  <2>5. ProviderType'
    BY <1>2, <2>2, <2>4, PublishType, TypeParts DEF UpdateKnownSaves
  <2>. QED
    BY <2>2, <2>3, <2>4, <2>5, TypePartsNext
<1>. QED
  BY <1>1, <1>2

LEMMA SettingsAreStaged == NotPending \notin Settings
<1>1. "overrides" \notin DOMAIN NotPending
  BY DEF NotPending
<1>2. ASSUME NEW s \in Settings PROVE "overrides" \in DOMAIN s
  BY DEF Settings
<1>. QED
  BY <1>1, <1>2

LEMMA UnstageType ==
  ASSUME StagedType, NEW c, Unstage(c),
         work' = work \/ \E w \in Worker : work' = [work EXCEPT ![w] = NoWork]
  PROVE  StagedType'
BY DEF StagedType, Unstage

LEMMA ApplySavesOfflineType ==
  ASSUME TypeOK, NEW c \in Camera, NEW s \in Settings, ApplySavesOffline(c, s)
  PROVE  TypeOK'
<1>1. SelectionType' /\ raced' \in BOOLEAN
  BY SelectType, TypeParts DEF ApplySavesOffline
<1>2. FilesType' /\ StagedType' /\ RequestType' /\ FlagsType'
  BY <1>1, TypeParts DEF ApplySavesOffline, FilesType, StagedType, RequestType,
       FlagsType, files, applies
<1>3. ProviderType'
  BY <1>1, <1>2, PublishType, TypeParts DEF ApplySavesOffline
<1>4. CountsType'
  BY OneMore, TypeParts DEF ApplySavesOffline, Appliable, Request
<1>. QED
  BY <1>1, <1>2, <1>3, <1>4, TypePartsNext

LEMMA ApplyStagesType ==
  ASSUME TypeOK, NEW w \in Worker, NEW c \in Camera, NEW s \in Settings,
         ApplyStages(w, c, s)
  PROVE  TypeOK'
<1>1. StagedType'
  <2>1. [camera |-> c, settings |-> s] \in [camera: Camera, settings: Settings]
    OBVIOUS
  <2>2. s # NotPending
    BY SettingsAreStaged
  <2>. QED
    BY <2>1, <2>2, TypeParts DEF ApplyStages, StagedType
<1>2. FilesType' /\ SelectionType' /\ RequestType' /\ FlagsType'
  BY TypeParts DEF ApplyStages, FilesType, SelectionType, RequestType, FlagsType,
       files, settings, history
<1>3. ProviderType'
  BY <1>1, <1>2, PublishType, TypeParts DEF ApplyStages
<1>4. CountsType'
  BY OneMore, TypeParts DEF ApplyStages, Appliable, Request
<1>. QED
  BY <1>1, <1>2, <1>3, <1>4, TypePartsNext

LEMMA ApplySucceedsType ==
  ASSUME TypeOK, NEW w \in Worker, ApplySucceeds(w)
  PROVE  TypeOK'
<1>. DEFINE c == work[w].camera
            s == work[w].settings
<1>1. work[w] \in [camera: Camera, settings: Settings]
  BY TypeParts DEF ApplySucceeds, StagedType
<1>2. c \in Camera /\ s \in Settings
  BY <1>1
<1>3. Select(c, s) /\ Unstage(c)
  BY DEF ApplySucceeds
<1>. HIDE DEF c, s
<1>4. SelectionType' /\ raced' \in BOOLEAN
  BY <1>2, <1>3, SelectType, TypeParts
<1>5. StagedType'
  BY <1>3, UnstageType, TypeParts DEF ApplySucceeds
<1>6. FilesType' /\ RequestType' /\ CountsType'
  BY TypeParts DEF ApplySucceeds, FilesType, RequestType, CountsType, files
<1>7. FlagsType'
  <2>1. unverified' \subseteq Camera /\ UNCHANGED up
    BY <1>2, TypeParts DEF ApplySucceeds, FlagsType, c
  <2>. QED
    BY <1>4, <2>1, TypeParts DEF FlagsType
<1>8. ProviderType'
  BY <1>4, <1>5, PublishType, TypeParts DEF ApplySucceeds
<1>. QED
  BY <1>4, <1>5, <1>6, <1>7, <1>8, TypePartsNext

LEMMA TakeBackType ==
  ASSUME TypeOK, NEW c, TakeBack(c), CountsType',
         work' = work \/ \E w \in Worker : work' = [work EXCEPT ![w] = NoWork]
  PROVE  TypeOK'
<1>1. StagedType'
  BY UnstageType, TypeParts DEF TakeBack
<1>2. FilesType' /\ SelectionType' /\ RequestType'
  BY TypeParts DEF TakeBack, FilesType, SelectionType, RequestType, files, settings
<1>3. Wanted' \in [Camera -> Settings]
  BY <1>1, <1>2 DEF SelectionType, StagedType, Wanted
<1>4. ProviderType'
  BY <1>3, TypeParts DEF TakeBack, ProviderType, provider
<1>5. FlagsType'
  <2>1. up' \in BOOLEAN
    BY DEF TakeBack
  <2>. QED
    BY <2>1, TypeParts DEF TakeBack, FlagsType, history
<1>. QED
  BY <1>1, <1>2, <1>4, <1>5, TypePartsNext

LEMMA StopType ==
  ASSUME TypeOK, PublishFails \/ Crash
  PROVE  TypeOK'
<1>1. /\ FilesType' /\ SelectionType' /\ StagedType' /\ RequestType' /\ ProviderType'
      /\ FlagsType'
  BY TypeParts DEF PublishFails, Crash, FilesType, SelectionType, StagedType, RequestType,
       ProviderType, FlagsType, files, settings, applies, provider, history
<1>2. CountsType'
  BY BoundsAssumption, TypeParts DEF PublishFails, Crash, CountsType
<1>. QED
  BY <1>1, <1>2, TypePartsNext

LEMMA StartType == TypeOK /\ Start => TypeOK'
<1>. SUFFICES ASSUME TypeOK, Start PROVE TypeOK'
  OBVIOUS
<1>1. FilesType'
  BY LoadType, TypeParts DEF Start, FilesType, files
<1>2. SelectionType' /\ FlagsType' /\ CountsType'
  BY TypeParts DEF Start, SelectionType, FlagsType, CountsType, settings, history
<1>3. StagedType'
  BY DEF Start, StagedType
<1>4. RequestType'
  <2>1. <<>> \in [{} -> Settings]
    OBVIOUS
  <2>. QED
    BY <2>1, PartialIntro DEF Start, RequestType
<1>5. ProviderType'
  <2>1. Wanted' \in [Camera -> Settings]
    BY <1>2, <1>3 DEF SelectionType, StagedType, Wanted
  <2>2. assigned' \in {assigned, Wanted'}
    BY DEF Start, _publish_assignments
  <2>3. Offline \in SessionType
    BY DEF Offline, SessionType, Default, Settings
  <2>. QED
    BY <2>1, <2>2, <2>3, TypeParts DEF Start, ProviderType
<1>. QED
  BY <1>1, <1>2, <1>3, <1>4, <1>5, TypePartsNext

LEMMA ProviderStepType ==
  ASSUME TypeOK, NEW c \in Camera,
         ProviderConfigures(c) \/ _provider_status(c) \/ CameraReplugged(c)
  PROVE  TypeOK'
<1>1. /\ FilesType' /\ SelectionType' /\ StagedType' /\ RequestType' /\ FlagsType'
  BY TypeParts DEF ProviderConfigures, _provider_status, CameraReplugged, FilesType,
       SelectionType, StagedType, RequestType, FlagsType, files, settings, applies, history
<1>2. ProviderType'
  <2>1. camera[c] \in SessionType /\ assigned[c] \in Settings
    BY TypeParts DEF ProviderType
  <2>2. [camera[c] EXCEPT !.applied = assigned[c]] \in SessionType
    BY <2>1 DEF SessionType
  <2>3. [camera[c] EXCEPT !.online = ~camera[c].online] \in SessionType
    BY <2>1 DEF SessionType
  <2>4. CASE ProviderConfigures(c)
    BY <2>2, <2>4, TypeParts DEF ProviderConfigures, ProviderType
  <2>5. CASE _provider_status(c)
    BY <2>1, <2>5, TypeParts DEF _provider_status, ProviderType
  <2>6. CASE CameraReplugged(c)
    BY <2>3, <2>6, TypeParts DEF CameraReplugged, ProviderType
  <2>. QED
    BY <2>4, <2>5, <2>6
<1>3. CountsType'
  <2>1. CASE CameraReplugged(c)
    BY <2>1, OneMore, TypeParts DEF CameraReplugged
  <2>2. CASE ProviderConfigures(c) \/ _provider_status(c)
    BY <2>2, TypeParts DEF ProviderConfigures, _provider_status, CountsType
  <2>. QED
    BY <2>1, <2>2
<1>. QED
  BY <1>1, <1>2, <1>3, TypePartsNext

LEMMA TypeStep == TypeOK /\ [Next]_vars => TypeOK'
<1>. SUFFICES ASSUME TypeOK, [Next]_vars PROVE TypeOK'
  OBVIOUS
<1>1. CASE \E n \in Name, content \in Content : _upsert_camera_profile(n, content)
  BY <1>1, ChangesCatalogType, PutProfile, TypeParts DEF _upsert_camera_profile
<1>2. CASE \E n \in Name : _delete_camera_profile(n)
  BY <1>2, ChangesCatalogType, DropProfile, TypeParts DEF _delete_camera_profile
<1>3. CASE \E n \in Name : (\E content \in Content : AdminWrites(n, content)) \/ AdminRemoves(n)
  <2>1. PICK directory \in Partial(Name, Content) : AdminEdits(directory)
    BY <1>3, PartialPut, PartialDrop, TypeParts DEF AdminWrites, AdminRemoves, FilesType
  <2>. QED
    BY <2>1, AdminType
<1>4. CASE \E w \in Worker : ReloadReads(w) \/ ReloadChecks(w) \/ ReloadInstalls(w)
  BY <1>4, ReloadType
<1>5. CASE \/ \E c \in Camera, s \in Settings : UpdateKnownChecks(c, s)
           \/ \E c \in Camera : UpdateKnownSaves(c)
  BY <1>5, UpdateType
<1>6. CASE \E c \in Camera, s \in Settings : ApplySavesOffline(c, s)
  BY <1>6, ApplySavesOfflineType
<1>7. CASE \E w \in Worker, c \in Camera, s \in Settings : ApplyStages(w, c, s)
  BY <1>7, ApplyStagesType
<1>8. CASE \E w \in Worker : ApplySucceeds(w)
  BY <1>8, ApplySucceedsType
<1>9. CASE \E w \in Worker : ApplyFails(w)
  <2>1. PICK w \in Worker : ApplyFails(w)
    BY <1>9
  <2>2. CountsType'
    BY <2>1, TypeParts DEF ApplyFails, TakeBack, CountsType
  <2>. QED
    BY <2>1, <2>2, TakeBackType DEF ApplyFails
<1>10. CASE \E c \in Camera : ApplyRefused(c)
  <2>1. PICK c \in Camera : ApplyRefused(c)
    BY <1>10
  <2>2. CountsType'
    BY <2>1, OneMore, TypeParts DEF ApplyRefused, Request, TakeBack
  <2>. QED
    BY <2>1, <2>2, TakeBackType DEF ApplyRefused
<1>11. CASE PublishFails \/ Crash
  BY <1>11, StopType
<1>12. CASE Start
  BY <1>12, StartType
<1>13. CASE \E c \in Camera : ProviderConfigures(c) \/ _provider_status(c) \/ CameraReplugged(c)
  BY <1>13, ProviderStepType
<1>14. CASE UNCHANGED vars
  BY <1>14 DEF vars, TypeOK, files, settings, applies, provider, history
<1>. QED
  BY <1>1, <1>2, <1>3, <1>4, <1>5, <1>6, <1>7, <1>8, <1>9, <1>10, <1>11, <1>12, <1>13,
     <1>14 DEF Next

(* Every variable of CameraSettings stays in its set and within its bound,  *)
(* and a camera is locked exactly while a change is staged on it.          *)
THEOREM SettingsTypes == Spec => []TypeOK
<1>. QED
  BY InitType, TypeStep, PTL DEF Spec

(***************************************************************************)
(* The profiles.  A catalogue agrees with the file when the managed        *)
(* profiles of the two are the same.  The catalogue in memory agrees, and  *)
(* so does what a reload has read; once that reload has looked at the      *)
(* selections, all of them are in it.  What a request has checked is there *)
(* until it uses it.  Whether a selected profile is the dashboard's or the *)
(* administrator's tells the managed file alone, and it keeps the former   *)
(* as they were selected: that is what a start finds.                      *)
(***************************************************************************)

Agrees(f) == ManagedPart(f) = managed

SelectedInMemory ==
  \A c \in Camera : saved[c].profile # None =>
    LET n == saved[c].profile
    IN  /\ n \in DOMAIN catalog /\ catalog[n].source = kept[c].source
        /\ kept[c].source = "managed" => catalog[n] = kept[c]
SelectedInFile ==
  \A c \in Camera : saved[c].profile # None =>
    LET n == saved[c].profile
    IN  \/ /\ kept[c].source = "managed"
           /\ n \in DOMAIN managed /\ kept[c] = [source |-> "managed", content |-> managed[n]]
        \/ kept[c].source = "admin" /\ n \notin DOMAIN managed
CheckedInMemory == \A n \in Name : Relies(n) => _validate_profile_for_sensor(n)
ReloadHolds ==
  \A w \in Worker :
    /\ reload[w] # NoReload => Agrees(reload[w].loaded)
    /\ reload[w].step = "checked" => Selected \subseteq DOMAIN reload[w].loaded

MemoryHolds == Agrees(catalog) /\ SelectedInMemory /\ CheckedInMemory /\ ReloadHolds
DiskInv == ~raced => SelectedInFile /\ (up => MemoryHolds)
IInv == TypeOK /\ DiskInv

(* What the profiles of a catalogue that agrees with the file are.         *)
LEMMA AgreeingProfiles ==
  ASSUME NEW f \in CatalogType, Agrees(f)
  PROVE  /\ \A n \in DOMAIN f : n \in DOMAIN managed =>
              f[n] = [source |-> "managed", content |-> managed[n]]
         /\ \A n \in DOMAIN f : n \notin DOMAIN managed => f[n].source = "admin"
<1>1. \A n \in DOMAIN f : f[n] \in ProfileType
  BY PartialGet DEF CatalogType
<1>2. /\ DOMAIN managed = {n \in DOMAIN f : f[n].source = "managed"}
      /\ \A n \in DOMAIN managed : managed[n] = f[n].content
  BY ManagedPartIs DEF Agrees
<1>3. ASSUME NEW n \in DOMAIN f, n \in DOMAIN managed
      PROVE  f[n] = [source |-> "managed", content |-> managed[n]]
  <2>1. f[n] \in ProfileType /\ f[n].source = "managed" /\ f[n].content = managed[n]
    BY <1>1, <1>2, <1>3
  <2>. QED
    BY <2>1 DEF ProfileType
<1>4. ASSUME NEW n \in DOMAIN f, n \notin DOMAIN managed
      PROVE  f[n].source = "admin"
  <2>1. f[n] \in ProfileType /\ f[n].source # "managed"
    BY <1>1, <1>2, <1>4
  <2>. QED
    BY <2>1 DEF ProfileType
<1>. QED
  BY <1>3, <1>4

LEMMA MemoryIsInFile ==
  ASSUME TypeOK, Agrees(catalog), SelectedInMemory
  PROVE  SelectedInFile
<1>. SUFFICES ASSUME NEW c \in Camera, saved[c].profile # None,
                     NEW n, n = saved[c].profile
              PROVE  \/ /\ kept[c].source = "managed"
                        /\ n \in DOMAIN managed
                        /\ kept[c] = [source |-> "managed", content |-> managed[n]]
                     \/ kept[c].source = "admin" /\ n \notin DOMAIN managed
  BY DEF SelectedInFile
<1>1. catalog \in CatalogType
  BY TypeParts DEF FilesType
<1>2. /\ n \in DOMAIN catalog /\ catalog[n].source = kept[c].source
      /\ kept[c].source = "managed" => catalog[n] = kept[c]
  BY DEF SelectedInMemory
<1>3. CASE n \in DOMAIN managed
  <2>1. catalog[n] = [source |-> "managed", content |-> managed[n]]
    BY <1>1, <1>2, <1>3, AgreeingProfiles
  <2>. QED
    BY <1>2, <1>3, <2>1
<1>4. CASE n \notin DOMAIN managed
  BY <1>1, <1>2, <1>4, AgreeingProfiles
<1>. QED
  BY <1>3, <1>4

(* A catalogue that agrees with the file and lacks no selected profile has  *)
(* each of them as it was selected, as far as the dashboard owns it.        *)
LEMMA FileIsInMemory ==
  ASSUME SelectedInFile, NEW f \in CatalogType, Agrees(f), Selected \subseteq DOMAIN f,
         NEW c \in Camera, saved[c].profile # None
  PROVE  /\ saved[c].profile \in DOMAIN f /\ f[saved[c].profile].source = kept[c].source
         /\ kept[c].source = "managed" => f[saved[c].profile] = kept[c]
<1>. DEFINE n == saved[c].profile
<1>1. n \in DOMAIN f
  BY DEF Selected
<1>2. \/ /\ kept[c].source = "managed"
         /\ n \in DOMAIN managed /\ kept[c] = [source |-> "managed", content |-> managed[n]]
      \/ kept[c].source = "admin" /\ n \notin DOMAIN managed
  BY DEF SelectedInFile
<1>. HIDE DEF n
<1>3. f[n].source = kept[c].source /\ (kept[c].source = "managed" => f[n] = kept[c])
  <2>1. CASE n \in DOMAIN managed
    <3>1. f[n] = [source |-> "managed", content |-> managed[n]]
      BY <1>1, <2>1, AgreeingProfiles
    <3>2. f[n] = kept[c]
      BY <1>2, <2>1, <3>1
    <3>. QED
      BY <3>2
  <2>2. CASE n \notin DOMAIN managed
    <3>1. f[n].source = "admin"
      BY <1>1, <2>2, AgreeingProfiles
    <3>. QED
      BY <1>2, <2>2, <3>1
  <2>. QED
    BY <2>1, <2>2
<1>. QED
  BY <1>1, <1>3 DEF n

LEMMA MemoryIsInFileNext ==
  TypeOK' /\ Agrees(catalog)' /\ SelectedInMemory' => SelectedInFile'
BY MemoryIsInFile, PTL

(***************************************************************************)
(* The profiles, action by action.  A step that leaves the manager running *)
(* has to leave the memory right: the files are right then as well.        *)
(***************************************************************************)

(* A step that changes neither profiles nor selections, and takes up no    *)
(* profile unchecked.                                                      *)
LEMMA MemoryStays ==
  ASSUME MemoryHolds, UNCHANGED <<catalog, managed, settings, reload>>,
         \A n \in Name : Relies(n)' => Relies(n) \/ _validate_profile_for_sensor(n)
  PROVE  MemoryHolds'
<1>1. Agrees(catalog)' /\ SelectedInMemory' /\ ReloadHolds'
  BY DEF MemoryHolds, Agrees, SelectedInMemory, ReloadHolds, Selected, settings
<1>2. CheckedInMemory'
  BY DEF MemoryHolds, CheckedInMemory, _validate_profile_for_sensor
<1>. QED
  BY <1>1, <1>2 DEF MemoryHolds

(* A camera gets a profile that has been checked and that no reload is      *)
(* about to take away.                                                      *)
LEMMA MemorySelects ==
  ASSUME TypeOK, MemoryHolds, NEW c \in Camera, NEW s \in Settings, Select(c, s), ~raced',
         _validate_profile_for_sensor(s.profile), UNCHANGED <<catalog, managed, reload>>,
         \A n \in Name : Relies(n)' => Relies(n)
  PROVE  MemoryHolds'
<1>1. /\ saved' = [saved EXCEPT ![c] = s]
      /\ kept' = [kept EXCEPT ![c] = IF s.profile \in DOMAIN catalog
                                        THEN catalog[s.profile] ELSE NoProfile]
      /\ s.profile # None => ~AboutToGo(s.profile)
  BY DEF Select
<1>2. /\ saved'[c] = s /\ \A d \in Camera \ {c} : saved'[d] = saved[d] /\ kept'[d] = kept[d]
      /\ s.profile # None => kept'[c] = catalog[s.profile] /\ s.profile \in DOMAIN catalog
  <2>1. saved \in [Camera -> Settings] /\ DOMAIN kept = Camera
    BY TypeParts DEF SelectionType
  <2>2. s.profile # None => s.profile \in DOMAIN catalog
    BY DEF _validate_profile_for_sensor
  <2>3. kept'[c] = IF s.profile \in DOMAIN catalog THEN catalog[s.profile] ELSE NoProfile
    BY <1>1, <2>1
  <2>. QED
    BY <1>1, <2>1, <2>2, <2>3
<1>3. Agrees(catalog)'
  BY DEF MemoryHolds, Agrees
<1>4. ReloadHolds'
  <2>1. Selected' \subseteq Selected \cup ({s.profile} \ {None})
    <3>. SUFFICES ASSUME NEW d \in Camera, saved'[d].profile # None
                  PROVE  saved'[d].profile \in Selected \cup ({s.profile} \ {None})
      BY DEF Selected
    <3>1. CASE d = c
      BY <1>2, <3>1
    <3>2. CASE d # c
      BY <1>2, <3>2 DEF Selected
    <3>. QED
      BY <3>1, <3>2
  <2>2. ASSUME NEW w \in Worker, reload[w].step = "checked"
        PROVE  Selected' \subseteq DOMAIN reload[w].loaded
    <3>1. s.profile # None => s.profile \in DOMAIN reload[w].loaded
      BY <1>1, <2>2 DEF AboutToGo
    <3>. QED
      BY <2>1, <2>2, <3>1 DEF MemoryHolds, ReloadHolds
  <2>. QED
    BY <2>2 DEF MemoryHolds, ReloadHolds, Agrees
<1>5. CheckedInMemory'
  BY DEF MemoryHolds, CheckedInMemory, _validate_profile_for_sensor
<1>6. SelectedInMemory'
  <2>. SUFFICES ASSUME NEW d \in Camera, saved'[d].profile # None
                PROVE  /\ saved'[d].profile \in DOMAIN catalog
                       /\ catalog[saved'[d].profile].source = kept'[d].source
                       /\ kept'[d].source = "managed" => catalog[saved'[d].profile] = kept'[d]
    BY DEF SelectedInMemory
  <2>1. CASE d = c
    <3>1. /\ saved'[d] = s /\ kept'[d] = catalog[s.profile] /\ s.profile \in DOMAIN catalog
      BY <1>2, <2>1
    <3>. QED
      BY <3>1
  <2>2. CASE d # c
    BY <1>2, <2>2 DEF MemoryHolds, SelectedInMemory
  <2>. QED
    BY <2>1, <2>2
<1>. QED
  BY <1>3, <1>4, <1>5, <1>6 DEF MemoryHolds

(* A profile that nobody uses and no request relies on is saved or deleted, *)
(* while no reload is under way.                                           *)
LEMMA MemoryChanges ==
  ASSUME TypeOK, MemoryHolds, NEW n, NEW profiles \in CatalogType,
         ChangesCatalog(n, profiles), ~raced', n \in DOMAIN catalog => Users(n) = {},
         \A m \in DOMAIN catalog \ {n} : m \in DOMAIN profiles /\ profiles[m] = catalog[m]
  PROVE  MemoryHolds'
<1>1. (\A w \in Worker : reload[w] = NoReload) /\ (n \in DOMAIN catalog => ~Relies(n))
  BY DEF ChangesCatalog, Reloading
<1>2. Agrees(catalog)'
  BY DEF ChangesCatalog, Agrees
<1>3. ReloadHolds'
  BY <1>1 DEF ChangesCatalog, ReloadHolds, NoReload
<1>4. SelectedInMemory'
  <2>1. UNCHANGED <<saved, kept>>
    BY DEF ChangesCatalog, settings
  <2>2. \A c \in Camera : saved[c].profile = n => n \notin DOMAIN catalog
    BY DEF Users
  <2>. QED
    BY <2>1, <2>2 DEF ChangesCatalog, MemoryHolds, SelectedInMemory
<1>5. CheckedInMemory'
  <2>1. \A m \in Name : Relies(m)' <=> Relies(m)
    BY DEF ChangesCatalog, Relies, applies
  <2>. QED
    BY <1>1, <2>1 DEF ChangesCatalog, MemoryHolds, CheckedInMemory,
       _validate_profile_for_sensor
<1>. QED
  BY <1>2, <1>3, <1>4, <1>5 DEF MemoryHolds

LEMMA CatalogStep ==
  ASSUME TypeOK, MemoryHolds, ~raced', NEW n \in Name,
         (\E content \in Content : _upsert_camera_profile(n, content))
           \/ _delete_camera_profile(n)
  PROVE  MemoryHolds'
<1>1. CASE \E content \in Content : _upsert_camera_profile(n, content)
  <2>1. PICK content \in Content : _upsert_camera_profile(n, content)
    BY <1>1
  <2>. DEFINE profiles == Put(catalog, n, [source |-> "managed", content |-> content])
  <2>2. profiles \in CatalogType
    BY PutProfile, TypeParts
  <2>3. \A m \in DOMAIN catalog \ {n} : m \in DOMAIN profiles /\ profiles[m] = catalog[m]
    BY DEF Put
  <2>4. ChangesCatalog(n, profiles) /\ (n \in DOMAIN catalog => Users(n) = {})
    BY <2>1 DEF _upsert_camera_profile
  <2>. HIDE DEF profiles
  <2>. QED
    BY <2>2, <2>3, <2>4, MemoryChanges
<1>2. CASE _delete_camera_profile(n)
  <2>. DEFINE profiles == Drop(catalog, n)
  <2>1. profiles \in CatalogType
    BY DropProfile, TypeParts
  <2>2. \A m \in DOMAIN catalog \ {n} : m \in DOMAIN profiles /\ profiles[m] = catalog[m]
    BY DEF Drop, Restrict
  <2>3. ChangesCatalog(n, profiles) /\ Users(n) = {}
    BY <1>2 DEF _delete_camera_profile
  <2>. HIDE DEF profiles
  <2>. QED
    BY <2>1, <2>2, <2>3, MemoryChanges
<1>. QED
  BY <1>1, <1>2

(* What a load finds agrees with the file when no name is in both places.   *)
LEMMA LoadAgrees ==
  ASSUME FilesType, ~DuplicateProfile
  PROVE  Agrees(load_camera_profiles)
<1>1. DOMAIN load_camera_profiles = DOMAIN admin \cup DOMAIN managed
  BY DEF load_camera_profiles
<1>2. \A n \in DOMAIN managed : n \notin DOMAIN admin
  BY DEF DuplicateProfile
<1>3. \A n \in DOMAIN admin : load_camera_profiles[n].source = "admin"
  BY DEF load_camera_profiles
<1>4. \A n \in DOMAIN managed :
        /\ load_camera_profiles[n].source = "managed"
        /\ load_camera_profiles[n].content = managed[n]
  BY <1>2 DEF load_camera_profiles
<1>. DEFINE part == ManagedPart(load_camera_profiles)
<1>5. load_camera_profiles \in CatalogType
  BY LoadType DEF FilesType
<1>6. part \in Partial(Name, Content) /\ DOMAIN part = DOMAIN managed
  <2>1. {n \in DOMAIN load_camera_profiles : load_camera_profiles[n].source = "managed"}
          = DOMAIN managed
    BY <1>1, <1>3, <1>4
  <2>. QED
    BY <1>5, <2>1, ManagedPartIs
<1>7. \A n \in DOMAIN managed : part[n] = managed[n]
  <2>1. \A n \in DOMAIN part : part[n] = load_camera_profiles[n].content
    BY <1>5, ManagedPartIs
  <2>. HIDE DEF part
  <2>. QED
    BY <1>4, <1>6, <2>1
<1>. HIDE DEF part
<1>8. part = [n \in DOMAIN part |-> part[n]] /\ managed = [n \in DOMAIN managed |-> managed[n]]
  BY <1>6, PartialGet DEF FilesType
<1>9. part = managed
  BY <1>6, <1>7, <1>8
<1>. QED
  BY <1>9 DEF part, Agrees

LEMMA ReloadStep ==
  ASSUME TypeOK, MemoryHolds, ~raced', NEW w \in Worker,
         ReloadReads(w) \/ ReloadChecks(w) \/ ReloadInstalls(w)
  PROVE  MemoryHolds'
<1>1. \A n \in Name : Relies(n)' <=> Relies(n)
  BY DEF ReloadReads, ReloadChecks, ReloadInstalls, Relies, applies
<1>2. UNCHANGED <<saved, kept, managed>>
  BY DEF ReloadReads, ReloadChecks, ReloadInstalls, files, settings
<1>3. Selected' = Selected
  BY <1>2 DEF Selected
<1>4. \A v \in Worker \ {w} : reload'[v] = reload[v]
  BY TypeParts DEF ReloadReads, ReloadChecks, ReloadInstalls, RequestType
<1>5. CASE ReloadReads(w) \/ ReloadChecks(w)
  <2>1. UNCHANGED catalog
    BY <1>5 DEF ReloadReads, ReloadChecks
  <2>2. Agrees(catalog)' /\ SelectedInMemory' /\ CheckedInMemory'
    BY <1>1, <1>2, <2>1 DEF MemoryHolds, Agrees, SelectedInMemory, CheckedInMemory,
       _validate_profile_for_sensor
  <2>3. /\ reload'[w] # NoReload => Agrees(reload'[w].loaded)
        /\ reload'[w].step = "checked" => Selected \subseteq DOMAIN reload'[w].loaded
    <3>1. CASE ReloadReads(w)
      <4>1. reload'[w] = [step |-> "read", loaded |-> load_camera_profiles]
        BY <3>1, TypeParts DEF ReloadReads, RequestType
      <4>2. Agrees(load_camera_profiles)
        BY <3>1, LoadAgrees, TypeParts DEF ReloadReads
      <4>. QED
        BY <4>1, <4>2
    <3>2. CASE ReloadChecks(w)
      <4>1. /\ reload[w] # NoReload
            /\ reload[w] \in [step: {"read", "checked"}, loaded: CatalogType]
        BY <3>2, LoadedType, TypeParts DEF ReloadChecks
      <4>2. Agrees(reload[w].loaded)
        BY <4>1 DEF MemoryHolds, ReloadHolds
      <4>3. CASE Selected \subseteq DOMAIN reload[w].loaded
        <5>1. reload'[w].loaded = reload[w].loaded
          BY <3>2, <4>1, <4>3, TypeParts DEF ReloadChecks, RequestType
        <5>. QED
          BY <4>2, <4>3, <5>1
      <4>4. CASE ~(Selected \subseteq DOMAIN reload[w].loaded)
        <5>1. reload'[w] = NoReload
          BY <3>2, <4>4, TypeParts DEF ReloadChecks, RequestType
        <5>. QED
          BY <5>1 DEF NoReload
      <4>. QED
        BY <4>3, <4>4
    <3>. QED
      BY <1>5, <3>1, <3>2
  <2>4. ReloadHolds'
    BY <1>2, <1>3, <1>4, <2>3 DEF MemoryHolds, ReloadHolds, Agrees
  <2>. QED
    BY <2>2, <2>4 DEF MemoryHolds
<1>6. CASE ReloadInstalls(w)
  <2>1. /\ reload[w] # NoReload
        /\ reload[w] \in [step: {"read", "checked"}, loaded: CatalogType]
    BY <1>6, LoadedType, TypeParts DEF ReloadInstalls
  <2>2. /\ catalog' = reload[w].loaded
        /\ \A n \in DOMAIN catalog \ DOMAIN reload[w].loaded : ~Relies(n)
    BY <1>6 DEF ReloadInstalls
  <2>3. reload'[w] = NoReload
    BY <1>6, TypeParts DEF ReloadInstalls, RequestType
  <2>4. Agrees(reload[w].loaded) /\ Selected \subseteq DOMAIN reload[w].loaded
    BY <1>6, <2>1 DEF MemoryHolds, ReloadHolds, ReloadInstalls
  <2>5. Agrees(catalog)'
    BY <1>2, <2>2, <2>4 DEF Agrees
  <2>6. ReloadHolds'
    BY <1>2, <1>3, <1>4, <2>3 DEF MemoryHolds, ReloadHolds, Agrees, NoReload
  <2>7. SelectedInMemory'
    <3>1. SelectedInFile
      BY MemoryIsInFile DEF MemoryHolds
    <3>2. \A c \in Camera : saved[c].profile # None =>
            /\ saved[c].profile \in DOMAIN reload[w].loaded
            /\ reload[w].loaded[saved[c].profile].source = kept[c].source
            /\ kept[c].source = "managed" => reload[w].loaded[saved[c].profile] = kept[c]
      BY <2>1, <2>4, <3>1, FileIsInMemory
    <3>. QED
      BY <1>2, <2>2, <3>2 DEF SelectedInMemory
  <2>8. CheckedInMemory'
    BY <1>1, <2>2 DEF MemoryHolds, CheckedInMemory, _validate_profile_for_sensor
  <2>. QED
    BY <2>5, <2>6, <2>7, <2>8 DEF MemoryHolds
<1>. QED
  BY <1>5, <1>6

(* The administrator's files are no part of what the manager keeps.         *)
LEMMA AdminStep ==
  ASSUME DiskInv, NEW directory, AdminEdits(directory)
  PROVE  DiskInv'
<1>1. UNCHANGED <<up, raced, catalog, managed, settings, reload>>
  BY DEF AdminEdits, history
<1>2. SelectedInFile => SelectedInFile'
  BY <1>1 DEF SelectedInFile, settings
<1>3. \A m \in Name : Relies(m)' <=> Relies(m)
  BY DEF AdminEdits, Relies, applies
<1>4. MemoryHolds => MemoryHolds'
  BY <1>1, <1>3, MemoryStays
<1>. QED
  BY <1>1, <1>2, <1>4 DEF DiskInv

(* A selection is checked when the request comes in, and saved then or     *)
(* later.                                                                  *)
LEMMA UpdateStep ==
  ASSUME TypeOK, MemoryHolds, ~raced', NEW c \in Camera,
         (\E s \in Settings : UpdateKnownChecks(c, s)) \/ UpdateKnownSaves(c)
  PROVE  MemoryHolds'
<1>1. CASE \E s \in Settings : UpdateKnownChecks(c, s)
  <2>1. PICK s \in Settings : UpdateKnownChecks(c, s)
    BY <1>1
  <2>2. DOMAIN update' = DOMAIN update \cup {c} /\ update'[c] = s
        /\ \A d \in DOMAIN update \ {c} : update'[d] = update[d]
    BY <2>1 DEF UpdateKnownChecks, Put
  <2>3. \A n \in Name : Relies(n)' => Relies(n) \/ n = s.profile
    BY <2>1, <2>2 DEF UpdateKnownChecks, Relies, applies
  <2>4. _validate_profile_for_sensor(s.profile)
    BY <2>1 DEF UpdateKnownChecks
  <2>5. UNCHANGED <<catalog, managed, settings, reload>>
    BY <2>1 DEF UpdateKnownChecks, files
  <2>. QED
    BY <2>3, <2>4, <2>5, MemoryStays
<1>2. CASE UpdateKnownSaves(c)
  <2>. DEFINE s == update[c]
  <2>1. s \in Settings /\ c \in DOMAIN update
    BY <1>2, PartialGet, TypeParts DEF UpdateKnownSaves, RequestType
  <2>2. Relies(s.profile)
    BY <2>1 DEF Relies
  <2>3. _validate_profile_for_sensor(s.profile)
    BY <2>1, <2>2 DEF MemoryHolds, CheckedInMemory, Settings, _validate_profile_for_sensor
  <2>4. DOMAIN update' \subseteq DOMAIN update /\ \A d \in DOMAIN update' : update'[d] = update[d]
    BY <1>2 DEF UpdateKnownSaves, Drop, Restrict
  <2>5. \A n \in Name : Relies(n)' => Relies(n)
    BY <1>2, <2>4 DEF UpdateKnownSaves, Relies, applies
  <2>6. Select(c, s) /\ UNCHANGED <<catalog, managed, reload>>
    BY <1>2 DEF UpdateKnownSaves, files
  <2>. HIDE DEF s
  <2>. QED
    BY <2>1, <2>3, <2>5, <2>6, MemorySelects
<1>. QED
  BY <1>1, <1>2

LEMMA ApplyStep ==
  ASSUME TypeOK, MemoryHolds, ~raced', NEW c \in Camera, NEW s \in Settings,
         ApplySavesOffline(c, s) \/ \E w \in Worker : ApplyStages(w, c, s)
  PROVE  MemoryHolds'
<1>1. _validate_profile_for_sensor(s.profile)
  BY DEF ApplySavesOffline, ApplyStages, Appliable
<1>2. CASE ApplySavesOffline(c, s)
  <2>1. \A n \in Name : Relies(n)' <=> Relies(n)
    BY <1>2 DEF ApplySavesOffline, Relies, applies
  <2>. QED
    BY <1>1, <1>2, <2>1, MemorySelects DEF ApplySavesOffline, files
<1>3. CASE \E w \in Worker : ApplyStages(w, c, s)
  <2>1. PICK w \in Worker : ApplyStages(w, c, s)
    BY <1>3
  <2>2. /\ \A d \in Camera : pending'[d] = IF d = c THEN s ELSE pending[d]
        /\ \A v \in Worker : work'[v] = IF v = w THEN [camera |-> c, settings |-> s] ELSE work[v]
    BY <2>1, TypeParts DEF ApplyStages, StagedType
  <2>3. UNCHANGED <<catalog, managed, settings, update, reload>>
    BY <2>1 DEF ApplyStages, files
  <2>4. \A n \in Name : Relies(n)' => Relies(n) \/ n = s.profile
    BY <2>2, <2>3 DEF Relies
  <2>. QED
    BY <1>1, <2>3, <2>4, MemoryStays
<1>. QED
  BY <1>2, <1>3

(* What is unstaged or done is relied on no more.                          *)
LEMMA UnstageRelies ==
  ASSUME StagedType, NEW c, Unstage(c), UNCHANGED update,
         work' = work \/ \E w \in Worker : work' = [work EXCEPT ![w] = NoWork],
         NEW n, Relies(n)'
  PROVE  Relies(n)
<1>1. \A d \in Camera : pending'[d] # NotPending => pending'[d] = pending[d]
  BY DEF StagedType, Unstage
<1>2. \A v \in Worker : work'[v] # NoWork => work'[v] = work[v]
  BY DEF StagedType
<1>. QED
  BY <1>1, <1>2 DEF Relies

LEMMA ApplySucceedsStep ==
  ASSUME TypeOK, MemoryHolds, ~raced', NEW w \in Worker, ApplySucceeds(w)
  PROVE  MemoryHolds'
<1>. DEFINE c == work[w].camera
            s == work[w].settings
<1>1. work[w] # NoWork /\ work[w] \in [camera: Camera, settings: Settings]
  BY TypeParts DEF ApplySucceeds, StagedType
<1>2. c \in Camera /\ s \in Settings
  BY <1>1
<1>3. Relies(s.profile)
  BY <1>1 DEF Relies
<1>4. _validate_profile_for_sensor(s.profile)
  BY <1>2, <1>3 DEF MemoryHolds, CheckedInMemory, Settings, _validate_profile_for_sensor
<1>5. /\ Select(c, s) /\ Unstage(c) /\ UNCHANGED <<catalog, managed, update, reload>>
      /\ work' = [work EXCEPT ![w] = NoWork]
  BY DEF ApplySucceeds, files
<1>. HIDE DEF c, s
<1>6. \A n \in Name : Relies(n)' => Relies(n)
  BY <1>5, UnstageRelies, TypeParts
<1>. QED
  BY <1>2, <1>4, <1>5, <1>6, MemorySelects

LEMMA TakeBackStep ==
  ASSUME TypeOK, MemoryHolds, NEW c, TakeBack(c),
         work' = work \/ \E w \in Worker : work' = [work EXCEPT ![w] = NoWork]
  PROVE  MemoryHolds'
<1>1. \A n \in Name : Relies(n)' => Relies(n)
  BY UnstageRelies, TypeParts DEF TakeBack
<1>. QED
  BY <1>1, MemoryStays DEF TakeBack, files

LEMMA ProviderStep ==
  ASSUME MemoryHolds, NEW c,
         ProviderConfigures(c) \/ _provider_status(c) \/ CameraReplugged(c)
  PROVE  MemoryHolds'
<1>1. UNCHANGED <<catalog, managed, settings, applies, update, reload>>
  BY DEF ProviderConfigures, _provider_status, CameraReplugged, files
<1>2. \A n \in Name : Relies(n)' <=> Relies(n)
  BY <1>1 DEF Relies, applies
<1>. QED
  BY <1>1, <1>2, MemoryStays

(* A start finds in the files what the cameras have selected.              *)
LEMMA StartStep ==
  ASSUME TypeOK, SelectedInFile, Start
  PROVE  MemoryHolds'
<1>1. /\ catalog' = load_camera_profiles /\ UNCHANGED <<managed, saved, kept>>
      /\ reload' = [w \in Worker |-> NoReload]
  BY DEF Start, files, settings
<1>2. Agrees(load_camera_profiles)
  BY LoadAgrees, TypeParts DEF Start
<1>3. Agrees(catalog)' /\ ReloadHolds' /\ SelectedInMemory'
  <2>1. load_camera_profiles \in CatalogType
    BY LoadType, TypeParts DEF FilesType
  <2>2. Selected \subseteq DOMAIN load_camera_profiles
    BY DEF Start
  <2>3. \A c \in Camera : saved[c].profile # None =>
          /\ saved[c].profile \in DOMAIN load_camera_profiles
          /\ load_camera_profiles[saved[c].profile].source = kept[c].source
          /\ kept[c].source = "managed" => load_camera_profiles[saved[c].profile] = kept[c]
    BY <1>2, <2>1, <2>2, FileIsInMemory
  <2>4. SelectedInMemory'
    BY <1>1, <2>3 DEF SelectedInMemory
  <2>5. ReloadHolds'
    BY <1>1 DEF ReloadHolds, NoReload
  <2>. QED
    BY <1>1, <1>2, <2>4, <2>5 DEF Agrees
<1>4. CheckedInMemory'
  <2>1. /\ \A c \in Camera : pending'[c] = NotPending
        /\ \A w \in Worker : work'[w] = NoWork
        /\ DOMAIN update' = {}
    BY DEF Start
  <2>. QED
    BY <2>1 DEF CheckedInMemory, Relies
<1>. QED
  BY <1>3, <1>4 DEF MemoryHolds

(* A step of the manager while it is up leaves the memory right.           *)
LEMMA UpStep ==
  ASSUME TypeOK', ~raced' => MemoryHolds'
  PROVE  DiskInv'
<1>1. ~raced' => SelectedInFile'
  BY MemoryIsInFileNext DEF MemoryHolds
<1>. QED
  BY <1>1 DEF DiskInv

LEMMA InitDisk == Init => DiskInv
<1>. SUFFICES ASSUME Init PROVE DiskInv
  OBVIOUS
<1>1. TypeOK
  BY InitType
<1>2. Agrees(catalog)
  <2>1. ~DuplicateProfile
    BY DEF Init, DuplicateProfile
  <2>. QED
    BY <1>1, <2>1, LoadAgrees, TypeParts DEF Init
<1>3. SelectedInMemory
  BY DEF Init, SelectedInMemory, Default
<1>4. CheckedInMemory /\ ReloadHolds
  BY DEF Init, CheckedInMemory, ReloadHolds, Relies, NoReload
<1>5. SelectedInFile
  BY <1>1, <1>2, <1>3, MemoryIsInFile
<1>. QED
  BY <1>2, <1>3, <1>4, <1>5 DEF DiskInv, MemoryHolds

LEMMA DiskStep ==
  ASSUME TypeOK, TypeOK', DiskInv, [Next]_vars
  PROVE  DiskInv'
<1>1. CASE UNCHANGED vars
  <2>1. UNCHANGED <<catalog, files, settings, applies, update, reload, up, raced>>
    BY <1>1 DEF vars, history
  <2>2. (MemoryHolds <=> MemoryHolds') /\ (SelectedInFile <=> SelectedInFile')
    BY <2>1 DEF MemoryHolds, Agrees, SelectedInMemory, CheckedInMemory, ReloadHolds, Selected,
       Relies, SelectedInFile, _validate_profile_for_sensor, files, settings, applies
  <2>. QED
    BY <2>1, <2>2 DEF DiskInv
<1>2. CASE \E n \in Name : (\E content \in Content : AdminWrites(n, content)) \/ AdminRemoves(n)
  BY <1>2, AdminStep DEF AdminWrites, AdminRemoves
<1>3. CASE PublishFails \/ Crash
  <2>1. up' = FALSE /\ UNCHANGED <<raced, managed, admin, saved, kept>>
    BY <1>3 DEF PublishFails, Crash, files, settings, history
  <2>. QED
    BY <2>1 DEF DiskInv, SelectedInFile
<1>4. CASE Start
  <2>1. raced' = raced
    BY <1>4 DEF Start, history
  <2>2. ~raced' => MemoryHolds'
    BY <1>4, <2>1, StartStep DEF DiskInv
  <2>. QED
    BY <2>2, UpStep
<1>5. CASE \E n \in Name : (\E content \in Content : _upsert_camera_profile(n, content))
                              \/ _delete_camera_profile(n)
  <2>1. up /\ (raced => raced')
    BY <1>5 DEF _upsert_camera_profile, _delete_camera_profile, Request, ChangesCatalog
  <2>2. ASSUME ~raced' PROVE MemoryHolds'
    <3>1. MemoryHolds
      BY <2>1, <2>2 DEF DiskInv
    <3>. QED
      BY <1>5, <2>2, <3>1, CatalogStep
  <2>. QED
    BY <2>2, UpStep
<1>6. CASE \E w \in Worker : ReloadReads(w) \/ ReloadChecks(w) \/ ReloadInstalls(w)
  <2>1. up /\ (raced => raced')
    <3>1. PICK w \in Worker : ReloadReads(w) \/ ReloadChecks(w) \/ ReloadInstalls(w)
      BY <1>6
    <3>2. CASE ReloadReads(w) \/ ReloadChecks(w)
      BY <3>2 DEF ReloadReads, ReloadChecks, Request, history
    <3>3. CASE ReloadInstalls(w)
      BY <3>3, Zenon DEF ReloadInstalls
    <3>. QED
      BY <3>1, <3>2, <3>3
  <2>2. ASSUME ~raced' PROVE MemoryHolds'
    <3>1. MemoryHolds
      BY <2>1, <2>2 DEF DiskInv
    <3>. QED
      BY <1>6, <2>2, <3>1, ReloadStep
  <2>. QED
    BY <2>2, UpStep
<1>7. CASE \E c \in Camera : (\E s \in Settings : UpdateKnownChecks(c, s))
                               \/ UpdateKnownSaves(c)
  <2>1. up /\ (raced => raced')
    <3>1. CASE \E c \in Camera, s \in Settings : UpdateKnownChecks(c, s)
      BY <3>1 DEF UpdateKnownChecks, Request, history
    <3>2. CASE \E c \in Camera : UpdateKnownSaves(c)
      BY <3>2, Zenon DEF UpdateKnownSaves, Select
    <3>. QED
      BY <1>7, <3>1, <3>2
  <2>2. ASSUME ~raced' PROVE MemoryHolds'
    <3>1. MemoryHolds
      BY <2>1, <2>2 DEF DiskInv
    <3>. QED
      BY <1>7, <2>2, <3>1, UpdateStep
  <2>. QED
    BY <2>2, UpStep
<1>8. CASE \E c \in Camera, s \in Settings :
             ApplySavesOffline(c, s) \/ \E w \in Worker : ApplyStages(w, c, s)
  <2>1. up /\ (raced => raced')
    <3>1. CASE \E c \in Camera, s \in Settings : ApplySavesOffline(c, s)
      BY <3>1, Zenon DEF ApplySavesOffline, Appliable, Select, Request
    <3>2. CASE \E c \in Camera, s \in Settings, w \in Worker : ApplyStages(w, c, s)
      BY <3>2 DEF ApplyStages, Appliable, Request, history
    <3>. QED
      BY <1>8, <3>1, <3>2
  <2>. QED
    BY <1>8, <2>1, ApplyStep, UpStep DEF DiskInv
<1>9. CASE \E w \in Worker : ApplySucceeds(w)
  <2>1. up /\ (raced => raced')
    BY <1>9 DEF ApplySucceeds, Select
  <2>. QED
    BY <1>9, <2>1, ApplySucceedsStep, UpStep DEF DiskInv
<1>10. CASE (\E w \in Worker : ApplyFails(w)) \/ \E c \in Camera : ApplyRefused(c)
  <2>1. PICK c : /\ up /\ TakeBack(c)
                 /\ work' = work \/ \E w \in Worker : work' = [work EXCEPT ![w] = NoWork]
    BY <1>10 DEF ApplyFails, ApplyRefused, Request
  <2>2. UNCHANGED raced
    BY <2>1 DEF TakeBack, history
  <2>. QED
    BY <2>1, <2>2, TakeBackStep, UpStep DEF DiskInv
<1>11. CASE \E c \in Camera : ProviderConfigures(c) \/ _provider_status(c) \/ CameraReplugged(c)
  <2>1. UNCHANGED <<up, raced, files, settings>>
    BY <1>11 DEF ProviderConfigures, _provider_status, CameraReplugged, history
  <2>2. SelectedInFile => SelectedInFile'
    BY <2>1 DEF SelectedInFile, files, settings
  <2>. QED
    BY <1>11, <2>1, <2>2, ProviderStep DEF DiskInv
<1>. QED
  BY <1>1, <1>2, <1>3, <1>4, <1>5, <1>6, <1>7, <1>8, <1>9, <1>10, <1>11 DEF Next

LEMMA DiskInvariant == Spec => []IInv
<1>1. Init => IInv
  BY InitType, InitDisk DEF IInv
<1>2. IInv /\ [Next]_vars => IInv'
  BY TypeStep, DiskStep DEF IInv
<1>. QED
  BY <1>1, <1>2, PTL DEF Spec

(* The managed profiles in memory are those of the file, whatever requests, *)
(* reloads, edits of the administrator and restarts there were, unless a    *)
(* request overtook another between its check and its use.                  *)
THEOREM CatalogMatchesDisk == Spec => []CatalogIsOnDisk
<1>1. IInv => CatalogIsOnDisk
  BY DEF IInv, DiskInv, MemoryHolds, Agrees, CatalogIsOnDisk
<1>. QED
  BY <1>1, DiskInvariant, PTL

(* However the administrator adds, edits and removes his files, and however  *)
(* many reloads run at once, a running manager has the profile a camera has  *)
(* selected, as the dashboard's or the administrator's one it was; and the   *)
(* dashboard's one is in memory and in the file with the content it was      *)
(* selected with.  The proviso is the same.                                  *)
THEOREM SelectionsKept == Spec => []SelectionLostOnlyByRace
<1>1. IInv => SelectionLostOnlyByRace
  <2>. SUFFICES ASSUME IInv, ~raced, NEW c \in Camera, saved[c].profile # None,
                       NEW n, n = saved[c].profile
                PROVE  /\ up => n \in DOMAIN catalog /\ catalog[n].source = kept[c].source
                       /\ kept[c].source = "managed" =>
                            /\ n \in DOMAIN managed /\ managed[n] = kept[c].content
                            /\ up => catalog[n] = kept[c]
    BY DEF SelectionLostOnlyByRace
  <2>1. \/ /\ kept[c].source = "managed" /\ n \in DOMAIN managed
           /\ kept[c] = [source |-> "managed", content |-> managed[n]]
        \/ kept[c].source = "admin"
    BY DEF IInv, DiskInv, SelectedInFile
  <2>2. up => /\ n \in DOMAIN catalog /\ catalog[n].source = kept[c].source
              /\ kept[c].source = "managed" => catalog[n] = kept[c]
    BY DEF IInv, DiskInv, MemoryHolds, SelectedInMemory
  <2>3. kept[c].source = "managed" => n \in DOMAIN managed /\ managed[n] = kept[c].content
    BY <2>1
  <2>. QED
    BY <2>2, <2>3
<1>. QED
  BY <1>1, DiskInvariant, PTL
=============================================================================
