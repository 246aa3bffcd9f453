----------------------------- MODULE OtaDeviceProofs -----------------------------
(* Proofs about the self-updating device, for any images, versions, signed *)
(* builds and behaviour of the images on their first boot.                 *)
EXTENDS OtaDevice, TLAPS

(***************************************************************************)
(* Type correctness.                                                       *)
(***************************************************************************)

(* There are two slots, and each is the other's other. *)
LEMMA SlotFacts ==
    /\ \A s \in Slots : Other(s) \in Slots /\ Other(s) # s /\ Other(Other(s)) = s
    /\ \A s, t \in Slots : t = s \/ t = Other(s)
BY DEF Slots, Other

(* What the device forgets is well typed. *)
LEMMA NoManifestType == NoManifest \in Manifests /\ NoImage \in Contents
BY ImagesAssumption, AttributesAssumption DEF NoManifest, Manifests, Contents

(* The manifests a device can receive are well typed. *)
LEMMA ManifestType ==
    ASSUME NEW v \in Versions, NEW sha \in Contents, NEW sig \in BOOLEAN
    PROVE  [version |-> v, sha |-> sha, signature |-> sig] \in Manifests
BY DEF Manifests

(* A step that ends the look at the cloud keeps every type. *)
LEMMA IdleType == TypeOK /\ Idle => TypeOK'
BY NoManifestType DEF TypeOK, Idle, ForgetRam, flash

(* Every part of the cloud, the flash and the RAM has its type. *)
LEMMA TypeStep == TypeOK /\ [Next]_vars => TypeOK'
<1> SUFFICES ASSUME TypeOK, [Next]_vars PROVE TypeOK'
  OBVIOUS
<1> USE DEF flash, ram
<1>1. ASSUME NEW v \in Versions, NEW a \in Artifacts, Publish(v, a) PROVE TypeOK'
  BY <1>1 DEF TypeOK, Publish
<1>2. CASE Boot
  <2>1. AtReset(otaState) \in [Slots -> OtaStates]
    BY DEF TypeOK, AtReset, OtaStates
  <2>2. ASSUME NEW s \in Slots, Start(AtReset(otaState), s)
        PROVE  otaState' \in [Slots -> OtaStates] /\ running' \in Slots /\ pc' = "confirm"
    BY <2>1, <2>2 DEF Start, OtaStates
  <2>3. boot \in Slots /\ Other(boot) \in Slots
    BY SlotFacts DEF TypeOK
  <2>4. /\ otaState' \in [Slots -> OtaStates]
        /\ running' \in Slots
        /\ pc' \in {"confirm", "bricked"}
    BY <1>2, <2>1, <2>2, <2>3 DEF Boot, TypeOK
  <2>5. QED
    BY <1>2, <2>4 DEF TypeOK, Boot
<1>3. CASE PowerLoss
  BY <1>3, NoManifestType DEF TypeOK, PowerLoss, ForgetRam
<1>4. CASE Confirming
  BY <1>4 DEF TypeOK, Confirming, SkipConfirm, SelfTestPasses, SelfTestFails,
              CrashBeforeConfirm, OtaStates
<1>5. CASE WifiUp \/ WifiFails \/ NoUsableManifest
  BY <1>5, IdleType DEF TypeOK, WifiUp, WifiFails, NoUsableManifest
<1>6. CASE ReceiveGenuine \/ ReceiveDamaged
  <2>1. PICK m \in Manifests : Receive(m)
    BY <1>6, ManifestType DEF ReceiveGenuine, ReceiveDamaged, TypeOK, Contents
  <2>2. QED
    BY <2>1, NoManifestType DEF TypeOK, Receive
<1>7. CASE ArtifactUnavailable \/ StreamFails \/ VerifyFails \/ SetBootFails
  BY <1>7, IdleType DEF ArtifactUnavailable, StreamFails, VerifyFails, SetBootFails
<1>8. CASE BeginDownload
  <2>1. manifest.version \in Versions
    BY DEF TypeOK, Manifests
  <2>2. published[manifest.version] \in Contents
    BY <2>1 DEF TypeOK, Contents
  <2>3. QED
    BY <1>8, <2>2, NoManifestType DEF TypeOK, BeginDownload
<1>9. ASSUME NEW img \in Contents, StreamEnds(img) PROVE TypeOK'
  BY <1>9 DEF TypeOK, StreamEnds
<1>10. CASE StageAndRestart
  BY <1>10, SlotFacts, NoManifestType
  DEF TypeOK, StageAndRestart, UpdateSlot, ForgetRam, OtaStates
<1>11. CASE UNCHANGED vars
  BY <1>11 DEF TypeOK, vars
<1>12. QED
  BY <1>1, <1>2, <1>3, <1>4, <1>5, <1>6, <1>7, <1>8, <1>9, <1>10, <1>11
  DEF Next, Checking

(* A flashed device and an empty store are well typed. *)
LEMMA TypeInit == Init => TypeOK
BY ImagesAssumption, NoManifestType DEF Init, TypeOK, Slots, OtaStates, Contents

(* Every variable of the device and the store keeps its type. *)
THEOREM TypeCorrect == Spec => []TypeOK
<1>1. QED
  BY TypeInit, TypeStep, PTL DEF Spec

(***************************************************************************)
(* The inductive invariant: a device is always recoverable.                *)
(***************************************************************************)

(* The flash of a device that is looking at the cloud: it runs from the    *)
(* slot of the last image that proved itself, and nothing is on trial.     *)
LEMMA RunningIsInstalled ==
    ASSUME OtaInv, pc \notin {"off", "confirm"}
    PROVE  /\ running = InstalledSlot
           /\ TrialImage = NoImage
           /\ otaState[boot] \notin {"new", "pending_verify"}
           /\ UpdateSlot = Other(InstalledSlot)
           /\ UpdateSlot \in Slots
           /\ slot[running] \in Artifacts
<1>1. running = InstalledSlot
  BY DEF OtaInv, AlwaysRecoverable, TypeOK
<1>2. running \in Slots
  BY DEF OtaInv, TypeOK
<1>3. QED
  BY <1>1, <1>2, SlotFacts
  DEF OtaInv, AlwaysRecoverable, TrialIsSound, TrialImage, UpdateSlot

(* A step that leaves the flash and the store alone and goes on within one *)
(* look at the cloud, or gives it up.                                      *)
LEMMA SameFlash ==
    ASSUME OtaInv, UNCHANGED <<published, flash, running>>,
           pc \notin {"off", "confirm"}, pc' \notin {"off", "confirm", "bricked"}
    PROVE  AlwaysRecoverable' /\ TrialIsSound' /\ PublishedAreSigned'
<1>1. UNCHANGED <<published, slot, otaState, boot, running>>
  BY DEF flash
<1>2. AlwaysRecoverable'
  BY <1>1, RunningIsInstalled DEF OtaInv, AlwaysRecoverable, InstalledSlot
<1>3. TrialIsSound'
  BY <1>1, RunningIsInstalled DEF OtaInv, TrialIsSound
<1>4. QED
  BY <1>1, <1>2, <1>3 DEF OtaInv, PublishedAreSigned

(* Giving up a look at the cloud. *)
LEMMA IdleInv ==
    ASSUME OtaInv, Idle, pc \notin {"off", "confirm"}
    PROVE  AlwaysRecoverable' /\ TrialIsSound' /\ ManifestIsNewer' /\ PublishedAreSigned'
BY SameFlash DEF Idle, ManifestIsNewer

(* Writing the slot that is not running, in a download. *)
LEMMA WriteSpare ==
    ASSUME OtaInv, NEW img, slot' = [slot EXCEPT ![UpdateSlot] = img],
           UNCHANGED <<published, otaState, boot, running, manifest>>,
           pc \in {"download", "stream"}, pc' \in {"stream", "verify"}
    PROVE  AlwaysRecoverable' /\ TrialIsSound' /\ ManifestIsNewer' /\ PublishedAreSigned'
<1>1. /\ running = InstalledSlot /\ UpdateSlot = Other(InstalledSlot)
      /\ otaState[boot] \notin {"new", "pending_verify"}
  BY RunningIsInstalled
<1>2. /\ slot \in [Slots -> Contents] /\ InstalledSlot \in Slots
      /\ InstalledSlot # UpdateSlot
  BY <1>1, SlotFacts DEF OtaInv, TypeOK
<1>3. slot'[InstalledSlot] = slot[InstalledSlot] /\ InstalledSlot' = InstalledSlot
  BY <1>2 DEF InstalledSlot
<1>4. AlwaysRecoverable'
  BY <1>1, <1>3 DEF OtaInv, AlwaysRecoverable
<1>5. TrialIsSound'
  BY <1>1 DEF OtaInv, TrialIsSound
<1>6. ManifestIsNewer'
  BY <1>1, <1>3 DEF OtaInv, ManifestIsNewer, IsNewer
<1>7. QED
  BY <1>4, <1>5, <1>6 DEF OtaInv, PublishedAreSigned

(* A reset: the bootloader finds the image on trial, or aborts it and goes *)
(* back to the installed one, which is there.                              *)
LEMMA BootEffect ==
    ASSUME OtaInv, Boot
    PROVE  \/ /\ otaState[boot] = "valid"
              /\ otaState' = otaState /\ running' = boot /\ pc' = "confirm"
           \/ /\ otaState[boot] = "new"
              /\ otaState' = [otaState EXCEPT ![boot] = "pending_verify"]
              /\ running' = boot /\ pc' = "confirm"
           \/ /\ otaState[boot] \notin {"valid", "new"}
              /\ otaState' = [otaState EXCEPT ![boot] =
                                IF @ = "pending_verify" THEN "aborted" ELSE @]
              /\ running' = Other(boot) /\ pc' = "confirm"
<1> DEFINE st == AtReset(otaState)
<1>1. /\ boot \in Slots /\ Other(boot) \in Slots /\ Other(boot) # boot
      /\ \A s \in Slots : s = boot \/ s = Other(boot)
      /\ otaState \in [Slots -> OtaStates]
  BY SlotFacts DEF OtaInv, TypeOK
<1>2. otaState[Other(boot)] \notin {"new", "pending_verify"}
  BY DEF OtaInv, TrialIsSound
<1>3. st = [otaState EXCEPT ![boot] = IF @ = "pending_verify" THEN "aborted" ELSE @]
  BY <1>1, <1>2 DEF AtReset
<1>4. CASE otaState[boot] = "valid"
  <2>1. Selectable(st, boot)
    BY <1>1, <1>3, <1>4
    DEF Selectable, Bootable, OtaInv, AlwaysRecoverable, InstalledSlot
  <2>2. Start(st, boot)
    BY <2>1, <1>1 DEF Boot
  <2>3. QED
    BY <1>1, <1>3, <1>4, <2>2 DEF Start
<1>5. CASE otaState[boot] = "new"
  <2>1. Selectable(st, boot)
    BY <1>1, <1>3, <1>5 DEF Selectable, OtaInv, TrialIsSound
  <2>2. Start(st, boot)
    BY <2>1, <1>1 DEF Boot
  <2>3. QED
    BY <1>1, <1>3, <1>5, <2>2 DEF Start
<1>6. CASE otaState[boot] \notin {"valid", "new"}
  <2>1. ~Selectable(st, boot)
    BY <1>1, <1>3, <1>6 DEF Selectable
  <2>2. Selectable(st, Other(boot))
    BY <1>1, <1>2, <1>3, <1>6
    DEF Selectable, Bootable, OtaInv, AlwaysRecoverable, InstalledSlot
  <2>3. Start(st, Other(boot))
    BY <2>1, <2>2, <1>1 DEF Boot
  <2>4. QED
    BY <1>1, <1>2, <1>3, <1>6, <2>3 DEF Start
<1>7. QED
  BY <1>4, <1>5, <1>6

(* A freshly flashed device is recoverable. *)
LEMMA InvInit == Init => OtaInv
<1> SUFFICES ASSUME Init PROVE OtaInv
  OBVIOUS
<1>1. TypeOK
  BY TypeInit
<1>2. /\ boot = 0 /\ running = 0 /\ pc = "off" /\ Other(0) = 1
      /\ otaState[0] = "valid" /\ otaState[1] = "undefined" /\ slot[0] = Base
  BY DEF Init, Slots, Other
<1>3. AlwaysRecoverable /\ TrialIsSound
  BY <1>2, ImagesAssumption, AttributesAssumption
  DEF AlwaysRecoverable, TrialIsSound, InstalledSlot
<1>4. ManifestIsNewer /\ PublishedAreSigned
  BY <1>2 DEF Init, ManifestIsNewer, PublishedAreSigned
<1>5. QED
  BY <1>1, <1>3, <1>4 DEF OtaInv

(* Booting, and failing to boot, keep the device recoverable. *)
LEMMA BootInv ==
    ASSUME OtaInv, Boot
    PROVE  AlwaysRecoverable' /\ TrialIsSound' /\ ManifestIsNewer' /\ PublishedAreSigned'
<1>1. /\ boot \in Slots /\ Other(boot) \in Slots /\ Other(boot) # boot
      /\ otaState \in [Slots -> OtaStates]
  BY SlotFacts DEF OtaInv, TypeOK
<1>2. UNCHANGED <<published, slot, boot, manifest, incoming>> /\ pc' = "confirm"
  BY BootEffect DEF Boot, ram
<1>3. /\ otaState'[Other(boot)] = otaState[Other(boot)]
      /\ InstalledSlot' = InstalledSlot
      /\ otaState'[InstalledSlot] = otaState[InstalledSlot]
  BY <1>1, <1>2, BootEffect DEF InstalledSlot
<1>4. AlwaysRecoverable'
  BY <1>2, <1>3 DEF OtaInv, AlwaysRecoverable
<1>5. /\ otaState'[boot] # "new"
      /\ running' = IF otaState'[boot] \in {"valid", "pending_verify"}
                    THEN boot ELSE Other(boot)
      /\ otaState'[boot] = "pending_verify" => otaState[boot] = "new"
  BY <1>1, BootEffect
<1>6. TrialIsSound'
  BY <1>2, <1>3, <1>5 DEF OtaInv, TrialIsSound
<1>7. QED
  BY <1>2, <1>4, <1>6 DEF OtaInv, ManifestIsNewer, PublishedAreSigned

(* The trial itself: a passed, failed, interrupted or unnecessary one. *)
LEMMA ConfirmInv ==
    ASSUME OtaInv, Confirming
    PROVE  AlwaysRecoverable' /\ TrialIsSound' /\ ManifestIsNewer' /\ PublishedAreSigned'
<1>1. /\ boot \in Slots /\ Other(boot) \in Slots /\ Other(boot) # boot
      /\ otaState \in [Slots -> OtaStates]
  BY SlotFacts DEF OtaInv, TypeOK
<1>2. /\ pc = "confirm" /\ pc' \in {"connect", "off"}
      /\ UNCHANGED <<published, slot, boot, running>>
  BY DEF Confirming, SkipConfirm, SelfTestPasses, SelfTestFails, CrashBeforeConfirm, flash
<1>3. ManifestIsNewer' /\ PublishedAreSigned'
  BY <1>2 DEF OtaInv, ManifestIsNewer, PublishedAreSigned
<1>4. running = IF otaState[boot] \in {"valid", "pending_verify"} THEN boot ELSE Other(boot)
  BY <1>2 DEF OtaInv, TrialIsSound
<1>5. otaState[boot] # "new" /\ otaState[Other(boot)] \notin {"new", "pending_verify"}
  BY <1>2 DEF OtaInv, TrialIsSound
<1>6. CASE SkipConfirm
  <2>1. otaState' = otaState /\ InstalledSlot' = InstalledSlot /\ ~OnTrial
    BY <1>2, <1>6 DEF SkipConfirm, flash, InstalledSlot
  <2>2. running = InstalledSlot /\ otaState[boot] # "pending_verify"
    BY <2>1, <1>4 DEF InstalledSlot, OnTrial
  <2>3. AlwaysRecoverable'
    BY <1>2, <2>1, <2>2 DEF OtaInv, AlwaysRecoverable
  <2>4. QED
    BY <1>2, <1>3, <1>5, <2>1, <2>2, <2>3, <1>6 DEF OtaInv, TrialIsSound, SkipConfirm
<1>7. CASE SelfTestPasses
  <2>1. running = boot /\ Health[slot[boot]] = "good"
    BY <1>1, <1>4, <1>5, <1>7 DEF SelfTestPasses, OnTrial
  <2>2. otaState[boot] = "pending_verify" /\ slot[boot] \in Artifacts
    BY <1>7, <2>1 DEF SelfTestPasses, OnTrial, OtaInv, TrialIsSound, Bootable
  <2>3. otaState' = [otaState EXCEPT ![boot] = "valid"] /\ pc' = "connect"
    BY <1>7, <2>1 DEF SelfTestPasses
  <2>4. InstalledSlot' = boot /\ otaState'[boot] = "valid"
    BY <1>1, <1>2, <2>3 DEF InstalledSlot
  <2>5. AlwaysRecoverable'
    BY <1>2, <2>1, <2>2, <2>3, <2>4 DEF AlwaysRecoverable
  <2>6. TrialIsSound'
    BY <1>1, <1>2, <1>5, <2>3, <2>4 DEF TrialIsSound
  <2>7. QED
    BY <1>3, <2>5, <2>6
<1>8. CASE SelfTestFails
  <2>1. running = boot
    BY <1>1, <1>4, <1>5, <1>8 DEF SelfTestFails, OnTrial
  <2>2. /\ otaState[boot] = "pending_verify"
        /\ otaState' = [otaState EXCEPT ![boot] = "invalid"] /\ pc' = "off"
    BY <1>8, <2>1 DEF SelfTestFails, OnTrial
  <2>3. InstalledSlot' = InstalledSlot /\ otaState'[InstalledSlot] = otaState[InstalledSlot]
    BY <1>1, <1>2, <2>2 DEF InstalledSlot
  <2>4. AlwaysRecoverable'
    BY <1>2, <2>2, <2>3 DEF OtaInv, AlwaysRecoverable
  <2>5. TrialIsSound'
    BY <1>1, <1>2, <1>5, <2>2 DEF TrialIsSound
  <2>6. QED
    BY <1>3, <2>4, <2>5
<1>9. CASE CrashBeforeConfirm
  <2>1. otaState' = otaState /\ InstalledSlot' = InstalledSlot /\ pc' = "off"
    BY <1>2, <1>9 DEF CrashBeforeConfirm, flash, InstalledSlot
  <2>2. AlwaysRecoverable'
    BY <1>2, <2>1 DEF OtaInv, AlwaysRecoverable
  <2>3. QED
    BY <1>2, <1>3, <2>1, <2>2 DEF OtaInv, TrialIsSound
<1>10. QED
  BY <1>6, <1>7, <1>8, <1>9 DEF Confirming

(* Switching to a verified build: it is on trial in the spare slot, signed *)
(* and newer than the installed one, which stays where it was.             *)
LEMMA StageEffect ==
    ASSUME OtaInv, StageAndRestart
    PROVE  /\ boot' = Other(InstalledSlot) /\ InstalledSlot' = InstalledSlot
           /\ otaState'[boot'] = "new" /\ otaState'[InstalledSlot] = "valid"
           /\ slot' = slot
           /\ Bootable(slot[boot'])
           /\ <<slot[boot'], slot[InstalledSlot]>> \in SignedNewer
<1>1. /\ running = InstalledSlot /\ UpdateSlot = Other(InstalledSlot)
      /\ UpdateSlot \in Slots /\ slot[running] \in Artifacts
  BY RunningIsInstalled DEF StageAndRestart
<1>2. InstalledSlot \in Slots /\ Other(UpdateSlot) = InstalledSlot /\ InstalledSlot # UpdateSlot
  BY <1>1, SlotFacts DEF OtaInv, TypeOK
<1>3. otaState \in [Slots -> OtaStates] /\ otaState[InstalledSlot] = "valid"
  BY DEF OtaInv, TypeOK, AlwaysRecoverable
<1>4. /\ boot' = UpdateSlot /\ slot' = slot
      /\ otaState' = [otaState EXCEPT ![UpdateSlot] = "new"]
  BY DEF StageAndRestart
<1>5. otaState'[boot'] = "new" /\ otaState'[InstalledSlot] = "valid"
  BY <1>1, <1>2, <1>3, <1>4
<1>6. InstalledSlot' = Other(UpdateSlot)
  BY <1>4, <1>5 DEF InstalledSlot
<1>7. /\ slot[UpdateSlot] = manifest.sha /\ Bootable(slot[UpdateSlot])
      /\ <<manifest.version, manifest.sha>> \in Builds
      /\ manifest.version > Embedded[slot[running]]
  BY DEF StageAndRestart, Verified, OtaInv, ManifestIsNewer, IsNewer
<1>8. manifest.version \in Versions
  BY DEF OtaInv, TypeOK, Manifests
<1>9. <<slot[UpdateSlot], slot[InstalledSlot]>> \in SignedNewer
  BY <1>1, <1>7, <1>8 DEF SignedNewer, Bootable
<1>10. QED
  BY <1>1, <1>2, <1>4, <1>5, <1>6, <1>7, <1>9

(* Every step keeps the device recoverable. *)
LEMMA InvStep == OtaInv /\ [Next]_vars => OtaInv'
<1> SUFFICES ASSUME OtaInv, [Next]_vars
             PROVE  /\ AlwaysRecoverable' /\ TrialIsSound'
                    /\ ManifestIsNewer' /\ PublishedAreSigned'
  BY TypeStep DEF OtaInv
<1>1. ASSUME NEW v \in Versions, NEW a \in Artifacts, Publish(v, a)
      PROVE  /\ AlwaysRecoverable' /\ TrialIsSound'
             /\ ManifestIsNewer' /\ PublishedAreSigned'
  <2>1. UNCHANGED <<slot, otaState, boot, running, pc, manifest>> /\ <<v, a>> \in Builds
    BY <1>1 DEF Publish, flash, ram
  <2>2. AlwaysRecoverable' /\ TrialIsSound'
    BY <2>1 DEF OtaInv, AlwaysRecoverable, TrialIsSound, InstalledSlot
  <2>3. ManifestIsNewer'
    BY <2>1 DEF OtaInv, ManifestIsNewer, IsNewer
  <2>4. PublishedAreSigned'
    BY <1>1, <2>1 DEF Publish, OtaInv, PublishedAreSigned, TypeOK
  <2>5. QED
    BY <2>2, <2>3, <2>4
<1>2. CASE Boot
  BY <1>2, BootInv
<1>3. CASE PowerLoss
  <2>1. UNCHANGED <<published, slot, otaState, boot, running>> /\ pc' = "off"
    BY <1>3 DEF PowerLoss, flash
  <2>2. QED
    BY <2>1 DEF OtaInv, AlwaysRecoverable, TrialIsSound, ManifestIsNewer,
                PublishedAreSigned, InstalledSlot
<1>4. CASE Confirming
  BY <1>4, ConfirmInv
<1>5. CASE WifiUp
  BY <1>5, SameFlash DEF WifiUp, ManifestIsNewer
<1>6. CASE WifiFails \/ NoUsableManifest \/ ArtifactUnavailable \/ StreamFails
           \/ VerifyFails \/ SetBootFails
  BY <1>6, IdleInv
  DEF WifiFails, NoUsableManifest, ArtifactUnavailable, StreamFails, VerifyFails, SetBootFails
<1>7. CASE ReceiveGenuine \/ ReceiveDamaged
  <2>1. PICK m \in Manifests : /\ Receive(m)
                               /\ m.signature => <<m.version, m.sha>> \in Builds
    <3>1. CASE ReceiveGenuine
      <4>1. PICK v \in Versions :
              IsLatest(v) /\ Receive([version |-> v, sha |-> published[v], signature |-> TRUE])
        BY <3>1 DEF ReceiveGenuine
      <4>2. published[v] \in Contents /\ <<v, published[v]>> \in Builds
        BY <4>1 DEF IsLatest, OtaInv, TypeOK, PublishedAreSigned, Contents
      <4>3. [version |-> v, sha |-> published[v], signature |-> TRUE] \in Manifests
        BY <4>2, ManifestType
      <4>4. QED
        BY <4>1, <4>2, <4>3
    <3>2. CASE ReceiveDamaged
      <4>1. PICK v \in Versions :
              Receive([version |-> v, sha |-> Garbage, signature |-> FALSE])
        BY <3>2 DEF ReceiveDamaged
      <4>2. [version |-> v, sha |-> Garbage, signature |-> FALSE] \in Manifests
        BY ManifestType DEF Contents
      <4>3. QED
        BY <4>1, <4>2
    <3>3. QED
      BY <1>7, <3>1, <3>2
  <2>2. AlwaysRecoverable' /\ TrialIsSound' /\ PublishedAreSigned'
    BY <2>1, SameFlash DEF Receive
  <2>3. UNCHANGED <<slot, running>>
    BY <2>1 DEF Receive, flash
  <2>4. ManifestIsNewer'
    BY <2>1, <2>3 DEF Receive, ManifestIsNewer, IsNewer
  <2>5. QED
    BY <2>2, <2>4
<1>8. CASE BeginDownload
  BY <1>8, WriteSpare DEF BeginDownload
<1>9. ASSUME NEW img \in Contents, StreamEnds(img)
      PROVE  /\ AlwaysRecoverable' /\ TrialIsSound'
             /\ ManifestIsNewer' /\ PublishedAreSigned'
  BY <1>9, WriteSpare DEF StreamEnds, ram
<1>10. CASE StageAndRestart
  <2>1. pc' = "off" /\ UNCHANGED published /\ slot' = slot
    BY <1>10 DEF StageAndRestart
  <2>2. boot' = Other(InstalledSlot) /\ InstalledSlot \in Slots
    BY <1>10, StageEffect DEF OtaInv, TypeOK, InstalledSlot, Slots, Other
  <2>3. Other(boot') = InstalledSlot
    BY <2>2, SlotFacts
  <2>4. AlwaysRecoverable'
    BY <1>10, <2>1, StageEffect DEF OtaInv, AlwaysRecoverable
  <2>5. TrialIsSound'
    BY <1>10, <2>1, <2>3, StageEffect DEF TrialIsSound
  <2>6. QED
    BY <2>1, <2>4, <2>5 DEF OtaInv, ManifestIsNewer, PublishedAreSigned
<1>11. CASE UNCHANGED vars
  BY <1>11 DEF vars, flash, ram, OtaInv, AlwaysRecoverable, TrialIsSound,
               ManifestIsNewer, IsNewer, PublishedAreSigned, InstalledSlot
<1>12. QED
  BY <1>1, <1>2, <1>3, <1>4, <1>5, <1>6, <1>7, <1>8, <1>9, <1>10, <1>11 DEF Next, Checking

(* The invariant holds throughout. *)
LEMMA OtaInvariant == Spec => []OtaInv
<1>1. QED
  BY InvInit, InvStep, PTL DEF Spec

(* No interruption of a download, a switch, a trial or a rollback costs a  *)
(* device its last working image, and the bootloader always finds one.     *)
THEOREM AlwaysBootable == Spec => []AlwaysRecoverable
<1>1. OtaInv => AlwaysRecoverable
  BY DEF OtaInv
<1>2. QED
  BY OtaInvariant, <1>1, PTL

(***************************************************************************)
(* The updater implements the atomic update.                               *)
(***************************************************************************)

(* A device starts with its base image installed and nothing on trial. *)
LEMMA PromiseInit == Init => Promise!Init
<1> SUFFICES ASSUME Init PROVE Promise!Init
  OBVIOUS
<1>1. boot = 0 /\ otaState[0] = "valid" /\ slot[0] = Base
  BY DEF Init, Slots
<1>2. QED
  BY <1>1 DEF Promise!Init, InstalledSlot, TrialImage

(* Every step of the device is a step of the promise, or changes nothing   *)
(* the promise speaks of.                                                  *)
LEMMA PromiseStep ==
    OtaInv /\ [Next]_vars => [Promise!Next]_<<slot[InstalledSlot], TrialImage>>
<1> SUFFICES ASSUME OtaInv, [Next]_vars
             PROVE  [Promise!Next]_<<slot[InstalledSlot], TrialImage>>
  OBVIOUS
<1>1. /\ boot \in Slots /\ Other(boot) \in Slots /\ Other(boot) # boot
      /\ otaState \in [Slots -> OtaStates] /\ slot \in [Slots -> Contents]
  BY SlotFacts DEF OtaInv, TypeOK
<1>2. Bootable(slot[boot]) => slot[boot] # NoImage
  BY ImagesAssumption DEF Bootable
<1>3. CASE UNCHANGED flash
  BY <1>3 DEF flash, InstalledSlot, TrialImage
<1>4. CASE Boot
  <2>1. UNCHANGED <<slot, boot>>
    BY <1>4 DEF Boot
  <2>2. InstalledSlot' = InstalledSlot
    BY <1>1, <1>4, <2>1, BootEffect DEF InstalledSlot
  <2>3. \/ TrialImage' = TrialImage
        \/ TrialImage' = NoImage /\ TrialImage # NoImage
    BY <1>1, <1>4, <2>1, BootEffect DEF TrialImage
  <2>4. QED
    BY <2>1, <2>2, <2>3 DEF Promise!Next, Promise!Abandon
<1>5. CASE SelfTestPasses
  <2>1. running = boot /\ otaState[boot] = "pending_verify"
    BY <1>1, <1>5 DEF SelfTestPasses, OnTrial, OtaInv, TrialIsSound
  <2>2. TrialImage = slot[boot] /\ slot[boot] # NoImage /\ slot[boot] \in PassSelfTest
    BY <1>2, <1>5, <2>1
    DEF TrialImage, OtaInv, TrialIsSound, SelfTestPasses, PassSelfTest, Bootable
  <2>3. /\ UNCHANGED <<slot, boot>> /\ otaState'[boot] = "valid"
    BY <1>1, <1>5, <2>1 DEF SelfTestPasses
  <2>4. (slot[InstalledSlot])' = slot[boot] /\ TrialImage' = NoImage
    BY <2>3 DEF InstalledSlot, TrialImage
  <2>5. QED
    BY <2>2, <2>4 DEF Promise!Next, Promise!Confirm
<1>6. CASE SelfTestFails
  <2>1. running = boot /\ otaState[boot] = "pending_verify"
    BY <1>1, <1>6 DEF SelfTestFails, OnTrial, OtaInv, TrialIsSound
  <2>2. TrialImage # NoImage
    BY <1>2, <2>1 DEF TrialImage, OtaInv, TrialIsSound
  <2>3. UNCHANGED <<slot, boot>> /\ otaState'[boot] = "invalid"
    BY <1>1, <1>6, <2>1 DEF SelfTestFails
  <2>4. InstalledSlot' = InstalledSlot /\ TrialImage' = NoImage
    BY <2>1, <2>3 DEF InstalledSlot, TrialImage
  <2>5. QED
    BY <2>2, <2>3, <2>4 DEF Promise!Next, Promise!Abandon
<1>7. ASSUME NEW img, slot' = [slot EXCEPT ![UpdateSlot] = img],
             UNCHANGED <<otaState, boot>>, pc \notin {"off", "confirm"}
      PROVE  UNCHANGED <<slot[InstalledSlot], TrialImage>>
  <2>1. /\ UpdateSlot \in Slots /\ UpdateSlot = Other(InstalledSlot)
        /\ otaState[boot] \notin {"new", "pending_verify"}
    BY <1>7, RunningIsInstalled
  <2>2. InstalledSlot \in Slots /\ UpdateSlot # InstalledSlot
    BY <1>1, <2>1, SlotFacts DEF InstalledSlot
  <2>3. slot'[InstalledSlot] = slot[InstalledSlot] /\ InstalledSlot' = InstalledSlot
    BY <1>1, <1>7, <2>2 DEF InstalledSlot
  <2>4. QED
    BY <1>7, <2>1, <2>3 DEF TrialImage
<1>8. CASE StageAndRestart
  <2>1. TrialImage = NoImage
    BY <1>8, RunningIsInstalled DEF StageAndRestart
  <2>2. /\ UNCHANGED slot[InstalledSlot] /\ TrialImage' = slot[boot']
        /\ <<TrialImage', slot[InstalledSlot]>> \in SignedNewer
    BY <1>8, StageEffect DEF TrialImage
  <2>3. QED
    BY <2>1, <2>2 DEF Promise!Next, Promise!Stage
<1>9. \/ UNCHANGED flash \/ Boot \/ SelfTestPasses \/ SelfTestFails \/ BeginDownload
      \/ (\E img \in Contents : StreamEnds(img)) \/ StageAndRestart
  BY DEF Next, Checking, Confirming, vars, Publish, PowerLoss, SkipConfirm,
         CrashBeforeConfirm, WifiUp, WifiFails, NoUsableManifest, ReceiveGenuine,
         ReceiveDamaged, Receive, ArtifactUnavailable, StreamFails, VerifyFails,
         SetBootFails, Idle
<1>10. QED
  BY <1>3, <1>4, <1>5, <1>6, <1>7, <1>8, <1>9 DEF BeginDownload, StreamEnds

(* A device implements the atomic update: its installed image is replaced  *)
(* only by a signed and newer one that passed its self-test on trial.      *)
THEOREM DeviceImplementsPromise == Spec => ImplementsAtomicUpdate
<1>1. QED
  BY OtaInvariant, PromiseInit, PromiseStep, PTL DEF Spec, ImplementsAtomicUpdate, Promise!Spec
================================================================================
