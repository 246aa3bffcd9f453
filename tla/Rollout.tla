-------------------------------- MODULE Rollout --------------------------------
(***************************************************************************)
(* Staged rollout campaigns over the device registry: class                *)
(* RolloutCampaign of cloud/src/ota.ts, the firmware half of               *)
(* cloud/src/registry.ts, and the CloudService methods that reach them     *)
(* (registerDevice, createRollout, advanceRollout, reportRollout).         *)
(*                                                                         *)
(* The server is single threaded and every method runs to completion, so   *)
(* each is one action.  Nothing orders the requests: an operator may ask   *)
(* for a batch at any time, and any member may report any outcome, before  *)
(* it was offered the update, twice, or after it reported the opposite.    *)
(***************************************************************************)
EXTENDS Integers, Sequences, FiniteSets

CONSTANTS
    Devices,      \* device ids the requests may name
    Campaigns,    \* campaign ids, fresh UUIDs in the code
    Versions,     \* firmware versions, a set containing the default
    Default,      \* "0.0.0", the version of a device that never said one
    None,         \* an absent Map entry
    Orders,       \* the deviceIds lists a create request may carry
    Sizes,        \* the batchSize values a create request may carry
    Limits        \* the maxFailures values a create request may carry

ASSUME DevicesAssumption == IsFiniteSet(Devices)
ASSUME VersionsAssumption == Default \in Versions /\ None \notin Versions
ASSUME NoneAssumption ==
    None \notin {"pending", "offered", "applied", "failed", "rolledback"}
ASSUME RequestsAssumption ==
    Orders \subseteq Seq(Devices) /\ Sizes \subseteq Int /\ Limits \subseteq Int

VARIABLES
    firmware,         \* registry: the recorded version, None when unregistered
    order, target, batchSize, maxFailures,  \* the campaign's parameters
    deviceState,      \* campaign: the Map of member states, None for others
    previousVersion,  \* campaign: the Map of versions to go back to
    cursor, phase,
    atCreation        \* history: the registry when the campaign was created

params == <<order, target, batchSize, maxFailures, atCreation>>
vars == <<firmware, deviceState, previousVersion, cursor, phase, params>>

RolloutState == {"pending", "offered", "applied", "failed", "rolledback"}
RolloutPhase == {"absent", "in_progress", "completed", "halted"}
Outcomes == {"applied", "failed"}

Members(c) == {d \in Devices : deviceState[c][d] # None}

(* new DeviceRegistry() and an empty campaigns Map. *)
Init ==
    /\ firmware = [d \in Devices |-> None]
    /\ order = [c \in Campaigns |-> <<>>]
    /\ target = [c \in Campaigns |-> Default]
    /\ batchSize = [c \in Campaigns |-> 1]
    /\ maxFailures = [c \in Campaigns |-> 0]
    /\ deviceState = [c \in Campaigns |-> [d \in Devices |-> None]]
    /\ previousVersion = [c \in Campaigns |-> [d \in Devices |-> None]]
    /\ cursor = [c \in Campaigns |-> 0]
    /\ phase = [c \in Campaigns |-> "absent"]
    /\ atCreation = [c \in Campaigns |-> [d \in Devices |-> None]]

(* DeviceRegistry.register: a second registration throws. *)
Register(d, v) ==
    /\ firmware[d] = None
    /\ firmware' = [firmware EXCEPT ![d] = v]
    /\ UNCHANGED <<deviceState, previousVersion, cursor, phase, params>>

(* DeviceRegistry.setFirmware: false, and no change, for an unknown device. *)
SetFirmware(fw, d, v) == [fw EXCEPT ![d] = IF @ = None THEN None ELSE v]

(* CloudService.createRollout.  Nothing is validated: the list may be      *)
(* empty, repeat a device, name unknown devices or devices of another      *)
(* campaign, and the target need not have been published.                  *)
CreateRollout(c, ids, v, size, limit) ==
    /\ phase[c] = "absent"
    /\ phase' = [phase EXCEPT ![c] = "in_progress"]
    /\ order' = [order EXCEPT ![c] = ids]
    /\ target' = [target EXCEPT ![c] = v]
    /\ batchSize' = [batchSize EXCEPT ![c] = size]
    /\ maxFailures' = [maxFailures EXCEPT ![c] = limit]
    /\ deviceState' = [deviceState EXCEPT ![c] =
         [d \in Devices |->
            IF \E i \in 1..Len(ids) : ids[i] = d THEN "pending" ELSE None]]
    /\ atCreation' = [atCreation EXCEPT ![c] = firmware]
    /\ UNCHANGED <<firmware, previousVersion, cursor>>

--------------------------------------------------------------------------------
(* nextBatch: the loop takes entries of order from the cursor while the    *)
(* batch is short and the list lasts, and marks each one offered whatever  *)
(* its state was.                                                          *)
MinOf(a, b) == IF a < b THEN a ELSE b

(* Mutant: a non-positive batch size moves the cursor backwards. *)
BatchEnd_Signed(c) == MinOf(cursor[c] + batchSize[c], Len(order[c]))

BatchEnd(c) ==
    IF batchSize[c] <= 0 THEN cursor[c]
    ELSE MinOf(cursor[c] + batchSize[c], Len(order[c]))

(* Mutant: the cursor is incremented before the entry is read. *)
Batch_OffByOne(c) == {order[c][i] : i \in (cursor[c] + 2)..BatchEnd(c)}

Batch(c) == {order[c][i] : i \in (cursor[c] + 1)..BatchEnd(c)}

NextBatch(c) ==
    /\ phase[c] = "in_progress"
    /\ cursor' = [cursor EXCEPT ![c] = BatchEnd(c)]
    /\ deviceState' = [deviceState EXCEPT ![c] =
         [d \in Devices |-> IF d \in Batch(c) THEN "offered" ELSE @[d]]]
    /\ UNCHANGED <<firmware, previousVersion, phase, params>>

--------------------------------------------------------------------------------
Failed(st) == {d \in Devices : st[d] = "failed"}

(* Mutant: the campaign tolerates one failure more than it was given. *)
TooManyFailures_Late(c, st) == Cardinality(Failed(st)) > maxFailures[c] + 1

(* report, the threshold test after the outcome is recorded. *)
TooManyFailures(c, st) == Cardinality(Failed(st)) > maxFailures[c]

(* Mutant: a device that was only offered the update counts as done. *)
Settled_Offered(st) == \A d \in Devices : st[d] # "pending"

(* Mutant: a tolerated failure keeps the campaign open. *)
Settled_NoFailure(st) == \A d \in Devices : st[d] \in {None, "applied"}

(* report, the test that every member reached a final state. *)
Settled(st) == \A d \in Devices : st[d] \in {None, "applied", "failed", "rolledback"}

(* Mutant: every applied report remembers the version again. *)
Remember_Again(prev, d) ==
    [prev EXCEPT ![d] = IF firmware[d] = None THEN Default ELSE firmware[d]]

(* report, the first line of the applied branch: the version to go back to *)
(* is read once, and is the default while the device is not registered.    *)
Remember(prev, d) ==
    IF prev[d] # None THEN prev
    ELSE [prev EXCEPT ![d] = IF firmware[d] = None THEN Default ELSE firmware[d]]

(* rollback: the members in state applied, and only those, go back. *)
Reverts(st, d) == st[d] = "applied"

RevertedState(st) ==
    [d \in Devices |-> IF Reverts(st, d) THEN "rolledback" ELSE st[d]]

RevertedFirmware(fw, st, prev) ==
    [d \in Devices |-> IF Reverts(st, d) /\ prev[d] # None /\ fw[d] # None
                       THEN prev[d] ELSE fw[d]]

(* The end of report: record the new member states st, the registry fw and *)
(* the remembered versions prev, and halt, complete or go on.              *)
Conclude(c, st, fw, prev) ==
    /\ previousVersion' = [previousVersion EXCEPT ![c] = prev]
    /\ \/ /\ TooManyFailures(c, st)
          /\ firmware' = RevertedFirmware(fw, st, prev)
          /\ deviceState' = [deviceState EXCEPT ![c] = RevertedState(st)]
          /\ phase' = [phase EXCEPT ![c] = "halted"]
       \/ /\ ~TooManyFailures(c, st)
          /\ firmware' = fw
          /\ deviceState' = [deviceState EXCEPT ![c] = st]
          /\ phase' = [phase EXCEPT ![c] =
                         IF Settled(st) THEN "completed" ELSE "in_progress"]

(* Mutant: a report is taken whatever the phase. *)
Reporting_AnyPhase(c, d) == deviceState[c][d] # None

(* report: ignored once the campaign is over, refused for a non-member. *)
Reporting(c, d) == phase[c] = "in_progress" /\ deviceState[c][d] # None

ReportApplied(c, d) ==
    /\ Reporting(c, d)
    /\ Conclude(c, [deviceState[c] EXCEPT ![d] = "applied"],
                   SetFirmware(firmware, d, target[c]),
                   Remember(previousVersion[c], d))
    /\ UNCHANGED <<cursor, params>>

ReportFailed(c, d) ==
    /\ Reporting(c, d)
    /\ Conclude(c, [deviceState[c] EXCEPT ![d] = "failed"],
                   firmware, previousVersion[c])
    /\ UNCHANGED <<cursor, params>>

Report(c, d) == ReportApplied(c, d) \/ ReportFailed(c, d)

--------------------------------------------------------------------------------
Next ==
    \/ \E d \in Devices, v \in Versions : Register(d, v)
    \/ \E c \in Campaigns, ids \in Orders, v \in Versions,
          size \in Sizes, limit \in Limits : CreateRollout(c, ids, v, size, limit)
    \/ \E c \in Campaigns : NextBatch(c)
    \/ \E c \in Campaigns, d \in Devices : Report(c, d)

Spec == Init /\ [][Next]_vars

(* The operator keeps asking for batches, and a device that was offered    *)
(* the update eventually reports one outcome or the other.                 *)
OfferedReports(c, d) == deviceState[c][d] = "offered" /\ Report(c, d)

Fairness ==
    /\ \A c \in Campaigns : WF_vars(NextBatch(c))
    /\ \A c \in Campaigns, d \in Devices : WF_vars(OfferedReports(c, d))

FairSpec == Spec /\ Fairness

--------------------------------------------------------------------------------
(* Every variable holds a value of the type the class declares. *)
TypeOK ==
    /\ firmware \in [Devices -> Versions \union {None}]
    /\ order \in [Campaigns -> Seq(Devices)]
    /\ target \in [Campaigns -> Versions]
    /\ batchSize \in [Campaigns -> Int]
    /\ maxFailures \in [Campaigns -> Int]
    /\ deviceState \in [Campaigns -> [Devices -> RolloutState \union {None}]]
    /\ previousVersion \in [Campaigns -> [Devices -> Versions \union {None}]]
    /\ cursor \in [Campaigns -> Nat]
    /\ phase \in [Campaigns -> RolloutPhase]
    /\ atCreation \in [Campaigns -> [Devices -> Versions \union {None}]]

(* A running campaign never exceeds its failure allowance: the threshold   *)
(* is re-examined by every report (ota.ts report), so whatever order the   *)
(* outcomes come in and however often they are revised, an open or         *)
(* completed campaign has no failure at all or no more than maxFailures.   *)
FailureBudget ==
    \A c \in Campaigns :
        phase[c] # "halted" =>
            \/ Failed(deviceState[c]) = {}
            \/ Cardinality(Failed(deviceState[c])) <= maxFailures[c]

(* The phase and the member states tell the same story: a completed        *)
(* campaign has no member without an outcome, a halted one left no member  *)
(* on the new version, and nothing is rolled back anywhere else.           *)
PhaseAgrees ==
    \A c \in Campaigns, d \in Devices :
        /\ phase[c] = "absent" => deviceState[c][d] = None
        /\ phase[c] = "completed" => deviceState[c][d] \in {None, "applied", "failed"}
        /\ phase[c] = "halted" => deviceState[c][d] # "applied"
        /\ deviceState[c][d] = "rolledback" => phase[c] = "halted"

(* Nobody is skipped and nobody is offered early: behind the cursor no     *)
(* member is still pending, and ahead of it none was offered (unless the   *)
(* list names the device twice).                                           *)
CursorSeparates ==
    \A c \in Campaigns : \A i \in 1..Len(order[c]) :
        /\ i <= cursor[c] => deviceState[c][order[c][i]] # "pending"
        /\ deviceState[c][order[c][i]] = "offered" =>
              \E j \in 1..Len(order[c]) : j <= cursor[c] /\ order[c][j] = order[c][i]

(* A device no other campaign names and that was registered when campaign  *)
(* c was created.                                                          *)
Owned(c, d) ==
    /\ deviceState[c][d] # None
    /\ atCreation[c][d] # None
    /\ \A b \in Campaigns \ {c} : deviceState[b][d] = None

(* What the registry says of a device one campaign owns follows from that  *)
(* campaign alone, in every interleaving with other campaigns: it is the   *)
(* target exactly when an applied report was ever taken and not rolled     *)
(* back, and otherwise the version it had when the campaign was created.   *)
RegistryTracksCampaign ==
    \A c \in Campaigns, d \in Devices :
        Owned(c, d) =>
            firmware[d] =
                IF previousVersion[c][d] # None /\ deviceState[c][d] # "rolledback"
                THEN target[c] ELSE atCreation[c][d]

(* A late, repeated or contradictory answer cannot reopen a campaign: once *)
(* it is completed or halted nothing of it changes again (nextBatch and    *)
(* report return early), and the version remembered for a device is        *)
(* written once.                                                           *)
Frozen(c) ==
    /\ phase[c] \in {"completed", "halted"} =>
          UNCHANGED <<phase[c], deviceState[c], previousVersion[c], cursor[c]>>
    /\ \A d \in Devices :
          previousVersion[c][d] # None => previousVersion'[c][d] = previousVersion[c][d]

FinalIsFinal == [][\A c \in Campaigns : Frozen(c)]_vars

(* A well-formed campaign ends: if the list is not empty and the batch     *)
(* size is positive, an operator who keeps asking for batches and devices  *)
(* that answer an offer bring it to completed or halted, although a        *)
(* device's early answer is forgotten when its turn comes.                 *)
WellFormed(c) == order[c] # <<>> /\ batchSize[c] > 0

CampaignEnds ==
    \A c \in Campaigns :
        (phase[c] = "in_progress" /\ WellFormed(c)) ~> phase[c] \in {"completed", "halted"}

(* The inductive strengthening of RegistryTracksCampaign: a listed device  *)
(* is a member, an absent campaign holds nothing, only a member has a      *)
(* version to go back to, an updated member has one, a device registered   *)
(* at creation still is, and an owned device would go back to the version  *)
(* it had at creation.                                                     *)
ListedAreMembers ==
    \A c \in Campaigns : phase[c] # "absent" =>
        \A i \in 1..Len(order[c]) : deviceState[c][order[c][i]] # None

RememberedAreMembers ==
    \A c \in Campaigns, d \in Devices :
        previousVersion[c][d] # None => deviceState[c][d] # None

UpdatedAreRemembered ==
    \A c \in Campaigns, d \in Devices :
        deviceState[c][d] \in {"applied", "rolledback"} => previousVersion[c][d] # None

StillRegistered ==
    \A c \in Campaigns, d \in Devices : atCreation[c][d] # None => firmware[d] # None

RememberedIsOriginal ==
    \A c \in Campaigns, d \in Devices :
        Owned(c, d) /\ previousVersion[c][d] # None =>
            previousVersion[c][d] = atCreation[c][d]

RegistryInv ==
    /\ PhaseAgrees
    /\ ListedAreMembers
    /\ RememberedAreMembers
    /\ UpdatedAreRemembered
    /\ StillRegistered
    /\ RememberedIsOriginal
    /\ RegistryTracksCampaign

(* The inductive strengthening of CursorSeparates: the cursor is a position *)
(* of the list, and the start of it until the campaign exists.             *)
CursorInList ==
    \A c \in Campaigns :
        /\ cursor[c] <= Len(order[c])
        /\ phase[c] = "absent" => cursor[c] = 0
================================================================================
