------------------------------- MODULE OtaDevice -------------------------------
(***************************************************************************)
(* A device that updates itself over the air:                              *)
(* sdk/firmware/targets/esp32c6-ota/main/app_main.c, with the parts of the *)
(* cloud it talks to (FirmwareStore of cloud/src/ota.ts behind the routes  *)
(* of cloud/src/http.ts) and the ESP-IDF bootloader and OTA library it     *)
(* calls (external).                                                       *)
(*                                                                         *)
(* Flash (slot, otaState, boot, running) survives a power loss; everything *)
(* else of the device is RAM.  Each flash write and each HTTP exchange is  *)
(* a step, so that power can fail and the cloud can publish between any    *)
(* two of them.                                                            *)
(***************************************************************************)
EXTENDS Integers

CONSTANTS
    Versions,     \* version labels, ordered as compare_versions orders them
    Artifacts,    \* the firmware images somebody built
    Base,         \* the image flashed over USB
    Builds,       \* the <<version, artifact>> pairs the signing key signed
    Embedded,     \* the version compiled into an image (esp_app_desc)
    Health,       \* what the image does when it first boots
    NoImage,      \* an erased or partly written slot, or no build
    Garbage       \* bytes damaged on the way

HealthKinds == {"good", "fails_test", "crashes", "not_an_image"}

ASSUME VersionsAssumption == Versions \subseteq Int
ASSUME ImagesAssumption ==
    /\ Base \in Artifacts
    /\ NoImage \notin Artifacts /\ Garbage \notin Artifacts /\ NoImage # Garbage
ASSUME BuildsAssumption == Builds \subseteq Versions \X Artifacts
ASSUME AttributesAssumption ==
    /\ Embedded \in [Artifacts -> Versions]
    /\ Health \in [Artifacts -> HealthKinds]
    /\ Health[Base] = "good"

VARIABLES
    published,    \* cloud: the artifact stored under each version
    slot,         \* flash: the content of ota_0 and ota_1
    otaState,     \* flash: the state of each slot in otadata
    boot,         \* flash: the slot with the higher sequence number in otadata
    running,      \* the slot the bootloader started
    pc,           \* where app_main is
    manifest,     \* the build /firmware/:type/latest described
    incoming      \* the body of the artifact response being streamed

flash == <<slot, otaState, boot>>
ram == <<manifest, incoming>>
vars == <<published, flash, running, pc, ram>>

Slots == {0, 1}
Other(s) == 1 - s
OtaStates == {"undefined", "new", "pending_verify", "valid", "invalid", "aborted"}
Contents == Artifacts \union {NoImage, Garbage}

(* signature is TRUE when it verifies over the other two fields. *)
NoManifest == [version |-> Embedded[Base], sha |-> NoImage, signature |-> FALSE]
Manifests == [version : Versions, sha : Contents, signature : BOOLEAN]

(* A freshly flashed device, before its first boot, and an empty store. *)
Init ==
    /\ published = [v \in Versions |-> NoImage]
    /\ slot = [s \in Slots |-> IF s = 0 THEN Base ELSE NoImage]
    /\ otaState = [s \in Slots |-> IF s = 0 THEN "valid" ELSE "undefined"]
    /\ boot = 0
    /\ running = 0
    /\ pc = "off"
    /\ manifest = NoManifest
    /\ incoming = NoImage

--------------------------------------------------------------------------------
(* The cloud. *)

(* FirmwareStore.publish: a verified build replaces what its version held. *)
Publish(v, a) ==
    /\ <<v, a>> \in Builds
    /\ published' = [published EXCEPT ![v] = a]
    /\ UNCHANGED <<flash, running, pc, ram>>

(* FirmwareStore.latest. *)
IsLatest(v) ==
    /\ published[v] # NoImage
    /\ \A w \in Versions : published[w] # NoImage => w <= v

--------------------------------------------------------------------------------
(* The bootloader and the OTA library. *)

Bootable(img) == img \in Artifacts /\ Health[img] # "not_an_image"

(* Mutant: the bootloader is built without rollback support. *)
AtReset_NoRollback(st) == st

(* An image still pending verification when the device starts again did    *)
(* not confirm itself: it is aborted.                                      *)
AtReset(st) == [s \in Slots |-> IF st[s] = "pending_verify" THEN "aborted" ELSE st[s]]

Selectable(st, s) == st[s] \in {"new", "valid"} /\ Bootable(slot[s])

Start(st, s) ==
    /\ otaState' = [st EXCEPT ![s] = IF @ = "new" THEN "pending_verify" ELSE @]
    /\ running' = s
    /\ pc' = "confirm"

Boot ==
    /\ pc = "off"
    /\ LET st == AtReset(otaState) IN
         \/ Selectable(st, boot) /\ Start(st, boot)
         \/ /\ ~Selectable(st, boot)
            /\ Selectable(st, Other(boot))
            /\ Start(st, Other(boot))
         \/ /\ \A s \in Slots : ~Selectable(st, s)
            /\ otaState' = st
            /\ pc' = "bricked"
            /\ UNCHANGED running
    /\ UNCHANGED <<published, slot, boot, ram>>

(* Mutant: what was received is freed, and the pointers are left null. *)
ForgetRam_Null == manifest' = NoImage /\ incoming' = NoImage

ForgetRam == manifest' = NoManifest /\ incoming' = NoImage

(* Power may fail at any time. *)
PowerLoss ==
    /\ pc \notin {"off", "bricked"}
    /\ pc' = "off"
    /\ ForgetRam
    /\ UNCHANGED <<published, flash, running>>

--------------------------------------------------------------------------------
(* confirm_or_rollback. *)

(* Mutant: the application is built without rollback support. *)
OnTrial_Never == FALSE

OnTrial == otaState[running] = "pending_verify"

(* Not a first boot after an update: nothing to confirm. *)
SkipConfirm ==
    /\ pc = "confirm" /\ ~OnTrial
    /\ pc' = "connect"
    /\ UNCHANGED <<published, flash, running, ram>>

SelfTestPasses ==
    /\ pc = "confirm" /\ OnTrial
    /\ Health[slot[running]] = "good"
    /\ otaState' = [otaState EXCEPT ![running] = "valid"]
    /\ pc' = "connect"
    /\ UNCHANGED <<published, slot, boot, running, ram>>

(* esp_ota_mark_app_invalid_rollback_and_reboot. *)
SelfTestFails ==
    /\ pc = "confirm" /\ OnTrial
    /\ Health[slot[running]] = "fails_test"
    /\ otaState' = [otaState EXCEPT ![running] = "invalid"]
    /\ pc' = "off"
    /\ UNCHANGED <<published, slot, boot, running, ram>>

CrashBeforeConfirm ==
    /\ pc = "confirm" /\ OnTrial
    /\ Health[slot[running]] = "crashes"
    /\ pc' = "off"
    /\ UNCHANGED <<published, flash, running, ram>>

--------------------------------------------------------------------------------
(* app_main and check_for_update: one look at the cloud per boot. *)

Idle ==
    /\ pc' = "idle"
    /\ ForgetRam
    /\ UNCHANGED <<published, flash, running>>

WifiUp ==
    /\ pc = "connect"
    /\ pc' = "check"
    /\ UNCHANGED <<published, flash, running, ram>>

WifiFails == pc = "connect" /\ Idle

(* No response, a status other than 200, or a body that does not parse. *)
NoUsableManifest == pc = "check" /\ Idle

(* Mutant: an equal version is taken again. *)
IsNewer_OrEqual(v) == v >= Embedded[slot[running]]

IsNewer(v) == v > Embedded[slot[running]]

Receive(m) ==
    /\ pc = "check"
    /\ \/ IsNewer(m.version) /\ pc' = "download" /\ manifest' = m
       \/ ~IsNewer(m.version) /\ pc' = "idle" /\ manifest' = NoManifest
    /\ UNCHANGED <<published, flash, running, incoming>>

(* The manifest as the store serves it, or damaged on the way. *)
ReceiveGenuine ==
    \E v \in Versions :
        IsLatest(v) /\ Receive([version |-> v, sha |-> published[v], signature |-> TRUE])

ReceiveDamaged ==
    \E v \in Versions : Receive([version |-> v, sha |-> Garbage, signature |-> FALSE])

--------------------------------------------------------------------------------
(* download_and_verify. *)

(* Mutant: the slot the bootloader does not prefer, wherever we run from. *)
UpdateSlot_NotBoot == Other(boot)

(* esp_ota_get_next_update_partition(NULL). *)
UpdateSlot == Other(running)

(* No connection, a status other than 200, or no partition handle. *)
ArtifactUnavailable == pc = "download" /\ Idle

(* The response starts, with what is published under the version at this   *)
(* moment, and esp_ota_begin erases the slot.                              *)
BeginDownload ==
    /\ pc = "download"
    /\ published[manifest.version] # NoImage
    /\ incoming' = published[manifest.version]
    /\ slot' = [slot EXCEPT ![UpdateSlot] = NoImage]
    /\ pc' = "stream"
    /\ UNCHANGED <<published, otaState, boot, running, manifest>>

(* A read or write error, or a short body: esp_ota_abort. *)
StreamFails == pc = "stream" /\ Idle

(* The whole body is in the slot, intact or damaged. *)
StreamEnds(img) ==
    /\ pc = "stream"
    /\ img \in {incoming, Garbage}
    /\ slot' = [slot EXCEPT ![UpdateSlot] = img]
    /\ pc' = "verify"
    /\ UNCHANGED <<published, otaState, boot, running, ram>>

(* The digest, the signature, and esp_ota_end's look at the image. *)
Verified ==
    /\ slot[UpdateSlot] = manifest.sha
    /\ manifest.signature
    /\ Bootable(slot[UpdateSlot])

VerifyFails == pc = "verify" /\ ~Verified /\ Idle

(* esp_ota_set_boot_partition cannot write otadata. *)
SetBootFails == pc = "verify" /\ Verified /\ Idle

(* esp_ota_set_boot_partition, then esp_restart. *)
StageAndRestart ==
    /\ pc = "verify" /\ Verified
    /\ otaState' = [otaState EXCEPT ![UpdateSlot] = "new"]
    /\ boot' = UpdateSlot
    /\ pc' = "off"
    /\ ForgetRam
    /\ UNCHANGED <<published, slot, running>>

--------------------------------------------------------------------------------
Confirming == SkipConfirm \/ SelfTestPasses \/ SelfTestFails \/ CrashBeforeConfirm

Checking ==
    \/ WifiUp \/ WifiFails \/ NoUsableManifest \/ ReceiveGenuine \/ ReceiveDamaged
    \/ ArtifactUnavailable \/ BeginDownload \/ StreamFails
    \/ \E img \in Contents : StreamEnds(img)
    \/ VerifyFails \/ SetBootFails \/ StageAndRestart

Next ==
    \/ \E v \in Versions, a \in Artifacts : Publish(v, a)
    \/ Boot \/ PowerLoss
    \/ Confirming \/ Checking

Spec == Init /\ [][Next]_vars

(* The device takes its next step as long as it has power; somebody power  *)
(* cycles an idle device again and again (it looks for an update once per  *)
(* boot); and an exchange with the cloud that is tried for ever succeeds   *)
(* in the end.                                                             *)
Fairness ==
    /\ WF_vars(Boot) /\ WF_vars(Confirming) /\ WF_vars(Checking)
    /\ WF_vars(pc = "idle" /\ PowerLoss)
    /\ SF_vars(SelfTestPasses) /\ SF_vars(SkipConfirm)
    /\ SF_vars(WifiUp) /\ SF_vars(ReceiveGenuine)
    /\ SF_vars(manifest.signature /\ BeginDownload)
    /\ SF_vars(manifest.signature /\ StreamEnds(incoming)) /\ SF_vars(StageAndRestart)

FairSpec == Spec /\ Fairness

--------------------------------------------------------------------------------
(* Every variable holds a value of its type. *)
TypeOK ==
    /\ published \in [Versions -> Artifacts \union {NoImage}]
    /\ slot \in [Slots -> Contents]
    /\ otaState \in [Slots -> OtaStates]
    /\ boot \in Slots
    /\ running \in Slots
    /\ pc \in {"off", "confirm", "connect", "check", "download", "stream", "verify",
               "idle", "bricked"}
    /\ manifest \in Manifests
    /\ incoming \in Contents

(* The slot of the last image that proved itself. *)
InstalledSlot == IF otaState[boot] = "valid" THEN boot ELSE Other(boot)

TrialImage ==
    IF otaState[boot] \in {"new", "pending_verify"} THEN slot[boot] ELSE NoImage

(* "The running image is never overwritten while a new one downloads"      *)
(* (README.md of the target): whenever power fails, in any phase of a      *)
(* download, a switch, a trial or a rollback, the last image that proved   *)
(* itself is intact in a slot the bootloader can select, and a device that *)
(* is up runs that image or one on trial.                                  *)
AlwaysRecoverable ==
    /\ otaState[InstalledSlot] = "valid"
    /\ slot[InstalledSlot] \in Artifacts
    /\ Health[slot[InstalledSlot]] = "good"
    /\ pc # "bricked"
    /\ pc \in {"connect", "check", "download", "stream", "verify", "idle"} =>
          running = InstalledSlot

(* The header comment of app_main.c: the device switches only to a build   *)
(* that verified, a switch is a trial until the self-test passes, and a    *)
(* trial that does not pass leaves the previous image in place.  With it   *)
(* an image is never replaced by one signed for an older or equal version. *)
SignedNewer ==
    {p \in Artifacts \X Artifacts :
        \E v \in Versions : <<v, p[1]>> \in Builds /\ v > Embedded[p[2]]}
PassSelfTest == {a \in Artifacts : Health[a] = "good"}

Promise == INSTANCE AtomicUpdate
    WITH installed <- slot[InstalledSlot], trial <- TrialImage,
         Newer <- SignedNewer, Healthy <- PassSelfTest

ImplementsAtomicUpdate == Promise!Spec

(* If the newest published build is, from some time on, an image that      *)
(* passes its self-test and carries the version it was published under,    *)
(* the device ends up with it for good, through any number of power        *)
(* losses, lost exchanges, damaged downloads and earlier failing builds.   *)
SoundLatest ==
    \E v \in Versions :
        /\ IsLatest(v)
        /\ Health[published[v]] = "good"
        /\ Embedded[published[v]] = v

RunsLatest ==
    /\ otaState[boot] = "valid"
    /\ \E v \in Versions : IsLatest(v) /\ slot[boot] = published[v]

LatestGetsInstalled == <>[]SoundLatest => <>[]RunsLatest

(* The inductive strengthening of AlwaysRecoverable: a trial is the slot   *)
(* otadata prefers, holds a signed and newer image, and is decided before  *)
(* app_main goes on.                                                       *)
TrialIsSound ==
    /\ otaState[Other(boot)] \notin {"new", "pending_verify"}
    /\ otaState[boot] \in {"new", "pending_verify"} =>
          /\ Bootable(slot[boot])
          /\ <<slot[boot], slot[Other(boot)]>> \in SignedNewer
          /\ pc \in {"off", "confirm"}
    /\ pc = "confirm" =>
          /\ otaState[boot] # "new"
          /\ running = IF otaState[boot] \in {"valid", "pending_verify"}
                       THEN boot ELSE Other(boot)

(* A manifest that verifies describes a signed build that is newer than    *)
(* the running image.                                                      *)
ManifestIsNewer ==
    pc \in {"download", "stream", "verify"} =>
        /\ IsNewer(manifest.version)
        /\ manifest.signature => <<manifest.version, manifest.sha>> \in Builds

PublishedAreSigned ==
    \A v \in Versions : published[v] # NoImage => <<v, published[v]>> \in Builds

OtaInv == TypeOK /\ AlwaysRecoverable /\ TrialIsSound /\ ManifestIsNewer /\ PublishedAreSigned
================================================================================
