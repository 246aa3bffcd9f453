------------------------------ MODULE RolloutProofs ------------------------------
(* Proofs about staged rollouts, for any devices, versions, campaigns and  *)
(* request contents.                                                       *)
EXTENDS Rollout, FiniteSetTheorems, TLAPS

(***************************************************************************)
(* Type correctness.                                                       *)
(***************************************************************************)

(* Shorthands for the types the member maps of a campaign range over. *)
StateMap == [Devices -> RolloutState \union {None}]
VersionMap == [Devices -> Versions \union {None}]

(* The end of a batch stays a position of the list, whatever the size. *)
LEMMA BatchEndType ==
    ASSUME TypeOK, NEW c \in Campaigns
    PROVE  BatchEnd(c) \in Nat
<1>1. cursor[c] \in Nat /\ batchSize[c] \in Int /\ Len(order[c]) \in Nat
  BY DEF TypeOK
<1>2. QED
  BY <1>1 DEF BatchEnd, MinOf

(* A version is remembered as a version. *)
LEMMA RememberType ==
    ASSUME TypeOK, NEW prev \in VersionMap, NEW d \in Devices
    PROVE  Remember(prev, d) \in VersionMap
BY VersionsAssumption DEF TypeOK, Remember, VersionMap

(* Concluding a report keeps the types when its arguments have theirs. *)
LEMMA ConcludeType ==
    ASSUME TypeOK, NEW c \in Campaigns, NEW st \in StateMap,
           NEW fw \in VersionMap, NEW prev \in VersionMap,
           Conclude(c, st, fw, prev)
    PROVE  /\ firmware' \in VersionMap
           /\ deviceState' \in [Campaigns -> StateMap]
           /\ previousVersion' \in [Campaigns -> VersionMap]
           /\ phase' \in [Campaigns -> RolloutPhase]
<1>1. RevertedState(st) \in StateMap
  BY DEF RevertedState, StateMap, RolloutState
<1>2. RevertedFirmware(fw, st, prev) \in VersionMap
  BY DEF RevertedFirmware, VersionMap
<1>3. /\ deviceState \in [Campaigns -> StateMap]
      /\ previousVersion \in [Campaigns -> VersionMap]
      /\ phase \in [Campaigns -> RolloutPhase]
  BY DEF TypeOK, StateMap, VersionMap
<1>4. QED
  BY <1>1, <1>2, <1>3 DEF Conclude, RolloutPhase

(* Every value the campaigns and the registry hold has its declared type. *)
THEOREM TypeCorrect == Spec => []TypeOK
<1>1. Init => TypeOK
  BY VersionsAssumption DEF Init, TypeOK, RolloutPhase
<1>2. TypeOK /\ [Next]_vars => TypeOK'
  <2> SUFFICES ASSUME TypeOK, [Next]_vars PROVE TypeOK'
    OBVIOUS
  <2>1. ASSUME NEW d \in Devices, NEW v \in Versions, Register(d, v)
        PROVE  TypeOK'
    BY <2>1 DEF TypeOK, Register, params
  <2>2. ASSUME NEW c \in Campaigns, NEW ids \in Orders, NEW v \in Versions,
               NEW size \in Sizes, NEW limit \in Limits,
               CreateRollout(c, ids, v, size, limit)
        PROVE  TypeOK'
    BY <2>2, RequestsAssumption
    DEF TypeOK, CreateRollout, RolloutState, RolloutPhase
  <2>3. ASSUME NEW c \in Campaigns, NextBatch(c)
        PROVE  TypeOK'
    BY <2>3, BatchEndType DEF TypeOK, NextBatch, RolloutState, params
  <2>4. ASSUME NEW c \in Campaigns, NEW d \in Devices, ReportApplied(c, d)
        PROVE  TypeOK'
    <3>1. [deviceState[c] EXCEPT ![d] = "applied"] \in StateMap
      BY DEF TypeOK, StateMap, RolloutState
    <3>2. SetFirmware(firmware, d, target[c]) \in VersionMap
      BY DEF TypeOK, SetFirmware, VersionMap
    <3>3. Remember(previousVersion[c], d) \in VersionMap
      BY RememberType DEF TypeOK, VersionMap
    <3>4. QED
      BY <2>4, <3>1, <3>2, <3>3, ConcludeType
      DEF TypeOK, ReportApplied, params, StateMap, VersionMap
  <2>5. ASSUME NEW c \in Campaigns, NEW d \in Devices, ReportFailed(c, d)
        PROVE  TypeOK'
    <3>1. [deviceState[c] EXCEPT ![d] = "failed"] \in StateMap
      BY DEF TypeOK, StateMap, RolloutState
    <3>2. firmware \in VersionMap /\ previousVersion[c] \in VersionMap
      BY DEF TypeOK, VersionMap
    <3>3. QED
      BY <2>5, <3>1, <3>2, ConcludeType
      DEF TypeOK, ReportFailed, params, StateMap, VersionMap
  <2>6. CASE UNCHANGED vars
    BY <2>6 DEF TypeOK, vars, params
  <2>7. QED
    BY <2>1, <2>2, <2>3, <2>4, <2>5, <2>6 DEF Next, Report
<1>3. QED
  BY <1>1, <1>2, PTL DEF Spec

(***************************************************************************)
(* The phase agrees with the member states.                                *)
(***************************************************************************)

(* The two ways a report ends, with the new value of each campaign field. *)
LEMMA ConcludeEffect ==
    ASSUME TypeOK, NEW c \in Campaigns, NEW st \in StateMap,
           NEW fw \in VersionMap, NEW prev \in VersionMap,
           Conclude(c, st, fw, prev)
    PROVE  /\ \A b \in Campaigns \ {c} :
                 /\ deviceState'[b] = deviceState[b]
                 /\ previousVersion'[b] = previousVersion[b]
                 /\ phase'[b] = phase[b]
           /\ previousVersion'[c] = prev
           /\ \/ /\ phase'[c] = "halted"
                 /\ deviceState'[c] = RevertedState(st)
                 /\ firmware' = RevertedFirmware(fw, st, prev)
              \/ /\ phase'[c] \in {"completed", "in_progress"}
                 /\ phase'[c] = "completed" => Settled(st)
                 /\ ~TooManyFailures(c, st)
                 /\ deviceState'[c] = st
                 /\ firmware' = fw
BY DEF Conclude, TypeOK

(* What a report passes to Conclude: the member states with one outcome    *)
(* recorded, the registry and the remembered versions, all well typed.     *)
LEMMA ReportIsConclude ==
    ASSUME TypeOK, NEW c \in Campaigns, NEW d \in Devices, Report(c, d)
    PROVE  /\ Reporting(c, d)
           /\ UNCHANGED <<cursor, params>>
           /\ \E outcome \in Outcomes :
                 LET st == [deviceState[c] EXCEPT ![d] = outcome]
                     fw == IF outcome = "applied"
                           THEN SetFirmware(firmware, d, target[c]) ELSE firmware
                     prev == IF outcome = "applied"
                             THEN Remember(previousVersion[c], d) ELSE previousVersion[c]
                 IN  /\ st \in StateMap
                     /\ fw \in VersionMap
                     /\ prev \in VersionMap
                     /\ Conclude(c, st, fw, prev)
<1>1. CASE ReportApplied(c, d)
  <2>1. [deviceState[c] EXCEPT ![d] = "applied"] \in StateMap
    BY DEF TypeOK, StateMap, RolloutState
  <2>2. SetFirmware(firmware, d, target[c]) \in VersionMap
    BY DEF TypeOK, SetFirmware, VersionMap
  <2>3. Remember(previousVersion[c], d) \in VersionMap
    BY RememberType DEF TypeOK, VersionMap
  <2>4. QED
    BY <1>1, <2>1, <2>2, <2>3 DEF ReportApplied, Outcomes
<1>2. CASE ReportFailed(c, d)
  <2>1. [deviceState[c] EXCEPT ![d] = "failed"] \in StateMap
    BY DEF TypeOK, StateMap, RolloutState
  <2>2. firmware \in VersionMap /\ previousVersion[c] \in VersionMap
    BY DEF TypeOK, VersionMap
  <2>3. QED
    BY <1>2, <2>1, <2>2 DEF ReportFailed, Outcomes
<1>3. QED
  BY <1>1, <1>2 DEF Report

LEMMA PhaseAgreesStep ==
    ASSUME TypeOK, PhaseAgrees, [Next]_vars
    PROVE  PhaseAgrees'
<1>1. ASSUME NEW d \in Devices, NEW v \in Versions, Register(d, v)
      PROVE  PhaseAgrees'
  BY <1>1 DEF PhaseAgrees, Register
<1>2. ASSUME NEW c \in Campaigns, NEW ids \in Orders, NEW v \in Versions,
             NEW size \in Sizes, NEW limit \in Limits,
             CreateRollout(c, ids, v, size, limit)
      PROVE  PhaseAgrees'
  BY <1>2, NoneAssumption DEF PhaseAgrees, CreateRollout, TypeOK
<1>3. ASSUME NEW c \in Campaigns, NextBatch(c)
      PROVE  PhaseAgrees'
  BY <1>3, NoneAssumption DEF PhaseAgrees, NextBatch, TypeOK
<1>4. ASSUME NEW c \in Campaigns, NEW d \in Devices, Report(c, d)
      PROVE  PhaseAgrees'
  <2>1. PICK outcome \in Outcomes, st \in StateMap, fw \in VersionMap,
             prev \in VersionMap :
          /\ st = [deviceState[c] EXCEPT ![d] = outcome]
          /\ Conclude(c, st, fw, prev)
    BY <1>4, ReportIsConclude
  <2>2. phase[c] = "in_progress"
    BY <1>4, ReportIsConclude DEF Reporting
  <2>3. \A e \in Devices : st[e] # "rolledback"
    BY <2>1, <2>2 DEF PhaseAgrees, TypeOK, Outcomes
  <2>4. \A b \in Campaigns \ {c} : deviceState'[b] = deviceState[b] /\ phase'[b] = phase[b]
    BY <2>1, ConcludeEffect
  <2>5. CASE phase'[c] = "halted" /\ deviceState'[c] = RevertedState(st)
    BY <2>4, <2>5, NoneAssumption DEF PhaseAgrees, RevertedState, Reverts
  <2>6. CASE /\ phase'[c] \in {"completed", "in_progress"}
             /\ phase'[c] = "completed" => Settled(st)
             /\ deviceState'[c] = st
    BY <2>3, <2>4, <2>6, NoneAssumption DEF PhaseAgrees, Settled
  <2>7. QED
    BY <2>1, <2>5, <2>6, ConcludeEffect
<1>5. CASE UNCHANGED vars
  BY <1>5 DEF PhaseAgrees, vars, params
<1>6. QED
  BY <1>1, <1>2, <1>3, <1>4, <1>5 DEF Next

(* A completed campaign has every outcome, and a halted one has left no    *)
(* member on the new version.                                              *)
THEOREM PhaseAgreement == Spec => []PhaseAgrees
<1>1. Init => PhaseAgrees
  BY NoneAssumption DEF Init, PhaseAgrees
<1>2. TypeOK /\ PhaseAgrees /\ [Next]_vars => PhaseAgrees'
  BY PhaseAgreesStep
<1>3. QED
  BY <1>1, <1>2, TypeCorrect, PTL DEF Spec

(***************************************************************************)
(* The failure allowance.                                                  *)
(***************************************************************************)

(* Fewer failed members, a smaller count. *)
LEMMA FailedShrinks ==
    ASSUME NEW st, NEW st2, Failed(st2) \subseteq Failed(st)
    PROVE  Cardinality(Failed(st2)) <= Cardinality(Failed(st))
<1>1. IsFiniteSet(Failed(st))
  BY DevicesAssumption, FS_Subset DEF Failed
<1>2. QED
  BY <1>1, FS_Subset

LEMMA FailedCount ==
    ASSUME NEW st
    PROVE  Cardinality(Failed(st)) \in Nat
<1>1. IsFiniteSet(Failed(st))
  BY DevicesAssumption, FS_Subset DEF Failed
<1>2. QED
  BY <1>1, FS_CardinalityType

LEMMA FailureBudgetStep ==
    ASSUME TypeOK, PhaseAgrees, FailureBudget, [Next]_vars
    PROVE  FailureBudget'
<1>1. ASSUME NEW d \in Devices, NEW v \in Versions, Register(d, v)
      PROVE  FailureBudget'
  BY <1>1 DEF FailureBudget, Register, Failed, params
<1>2. ASSUME NEW c \in Campaigns, NEW ids \in Orders, NEW v \in Versions,
             NEW size \in Sizes, NEW limit \in Limits,
             CreateRollout(c, ids, v, size, limit)
      PROVE  FailureBudget'
  <2>1. Failed(deviceState'[c]) = {}
    BY <1>2, NoneAssumption DEF CreateRollout, Failed, TypeOK
  <2>2. \A b \in Campaigns \ {c} :
           /\ deviceState'[b] = deviceState[b]
           /\ maxFailures'[b] = maxFailures[b]
           /\ phase'[b] = phase[b]
    BY <1>2 DEF CreateRollout, TypeOK
  <2>3. QED
    BY <2>1, <2>2 DEF FailureBudget, Failed
<1>3. ASSUME NEW c \in Campaigns, NextBatch(c)
      PROVE  FailureBudget'
  <2>1. Failed(deviceState'[c]) \subseteq Failed(deviceState[c])
    BY <1>3 DEF NextBatch, Failed, TypeOK
  <2>2. Cardinality(Failed(deviceState'[c])) <= Cardinality(Failed(deviceState[c]))
    BY <2>1, FailedShrinks
  <2>3. /\ \A b \in Campaigns \ {c} : deviceState'[b] = deviceState[b]
        /\ UNCHANGED <<phase, maxFailures>>
    BY <1>3 DEF NextBatch, TypeOK, params
  <2>4. /\ Cardinality(Failed(deviceState'[c])) \in Nat
        /\ Cardinality(Failed(deviceState[c])) \in Nat
        /\ maxFailures[c] \in Int
    BY FailedCount DEF TypeOK
  <2>5. ASSUME NEW b \in Campaigns, phase'[b] # "halted"
        PROVE  \/ Failed(deviceState'[b]) = {}
               \/ Cardinality(Failed(deviceState'[b])) <= maxFailures'[b]
    <3>1. CASE b = c
      <4>1. \/ Failed(deviceState[c]) = {}
            \/ Cardinality(Failed(deviceState[c])) <= maxFailures[c]
        BY <3>1, <2>3, <2>5 DEF FailureBudget
      <4>2. QED
        BY <4>1, <3>1, <2>1, <2>2, <2>3, <2>4
    <3>2. CASE b # c
      BY <3>2, <2>3, <2>5 DEF FailureBudget
    <3>3. QED
      BY <3>1, <3>2
  <2>6. QED
    BY <2>5 DEF FailureBudget, Failed
<1>4. ASSUME NEW c \in Campaigns, NEW d \in Devices, Report(c, d)
      PROVE  FailureBudget'
  <2>1. PICK st \in StateMap, fw \in VersionMap, prev \in VersionMap :
          Conclude(c, st, fw, prev)
    BY <1>4, ReportIsConclude
  <2>2. maxFailures' = maxFailures
    BY <1>4, ReportIsConclude DEF params
  <2>3. /\ \A b \in Campaigns \ {c} : deviceState'[b] = deviceState[b] /\ phase'[b] = phase[b]
        /\ phase'[c] # "halted" => deviceState'[c] = st /\ ~TooManyFailures(c, st)
    BY <2>1, ConcludeEffect
  <2>4. Cardinality(Failed(st)) \in Nat /\ maxFailures[c] \in Int
    BY FailedCount DEF TypeOK
  <2>5. phase'[c] # "halted" => Cardinality(Failed(deviceState'[c])) <= maxFailures'[c]
    BY <2>2, <2>3, <2>4 DEF TooManyFailures
  <2>6. QED
    BY <2>2, <2>3, <2>5 DEF FailureBudget, Failed
<1>5. CASE UNCHANGED vars
  BY <1>5 DEF FailureBudget, vars, params, Failed
<1>6. QED
  BY <1>1, <1>2, <1>3, <1>4, <1>5 DEF Next

(* No open or completed campaign has more failures than it was allowed. *)
THEOREM WithinFailureBudget == Spec => []FailureBudget
<1>1. Init => FailureBudget
  BY NoneAssumption DEF Init, FailureBudget, Failed
<1>2. TypeOK /\ PhaseAgrees /\ FailureBudget /\ [Next]_vars => FailureBudget'
  BY FailureBudgetStep
<1>3. QED
  BY <1>1, <1>2, TypeCorrect, PhaseAgreement, PTL DEF Spec

(***************************************************************************)
(* The registry and the campaigns.                                         *)
(***************************************************************************)

(* A report taken by c touches, of the registry and of the other           *)
(* campaigns, nothing but members of c.                                    *)
LEMMA ReportConfined ==
    ASSUME TypeOK, NEW c \in Campaigns, NEW d \in Devices, Report(c, d)
    PROVE  /\ \A b \in Campaigns \ {c} : deviceState'[b] = deviceState[b]
           /\ \A b \in Campaigns \ {c} : previousVersion'[b] = previousVersion[b]
           /\ \A e \in Devices : deviceState'[c][e] = None <=> deviceState[c][e] = None
           /\ \A e \in Devices : deviceState[c][e] = None =>
                 firmware'[e] = firmware[e] /\ previousVersion'[c][e] = previousVersion[c][e]
           /\ \A e \in Devices : firmware'[e] = None <=> firmware[e] = None
<1>1. PICK outcome \in Outcomes, st \in StateMap, fw \in VersionMap, prev \in VersionMap :
        /\ st = [deviceState[c] EXCEPT ![d] = outcome]
        /\ fw = IF outcome = "applied"
                THEN SetFirmware(firmware, d, target[c]) ELSE firmware
        /\ prev = IF outcome = "applied"
                  THEN Remember(previousVersion[c], d) ELSE previousVersion[c]
        /\ Conclude(c, st, fw, prev)
  BY ReportIsConclude
<1>2. deviceState[c][d] # None
  BY ReportIsConclude DEF Reporting
<1>3. \A e \in Devices : st[e] = None <=> deviceState[c][e] = None
  BY <1>1, <1>2, NoneAssumption DEF TypeOK, Outcomes
<1>4. \A e \in Devices : e # d => fw[e] = firmware[e] /\ prev[e] = previousVersion[c][e]
  BY <1>1 DEF TypeOK, SetFirmware, Remember
<1>5. \A e \in Devices : fw[e] = None <=> firmware[e] = None
  BY <1>1, VersionsAssumption DEF TypeOK, SetFirmware
<1>6. /\ \A e \in Devices : RevertedState(st)[e] = None <=> st[e] = None
      /\ \A e \in Devices : RevertedFirmware(fw, st, prev)[e] = None <=> fw[e] = None
      /\ \A e \in Devices : st[e] = None => RevertedFirmware(fw, st, prev)[e] = fw[e]
  BY NoneAssumption, VersionsAssumption
  DEF RevertedState, RevertedFirmware, Reverts, VersionMap, StateMap
<1>7. /\ \A b \in Campaigns \ {c} :
            /\ deviceState'[b] = deviceState[b]
            /\ previousVersion'[b] = previousVersion[b]
            /\ phase'[b] = phase[b]
      /\ previousVersion'[c] = prev
      /\ \/ /\ phase'[c] = "halted"
            /\ deviceState'[c] = RevertedState(st)
            /\ firmware' = RevertedFirmware(fw, st, prev)
         \/ /\ phase'[c] # "absent"
            /\ deviceState'[c] = st
            /\ firmware' = fw
  BY <1>1, ConcludeEffect
<1>8. \A e \in Devices : deviceState[c][e] = None => e # d
  BY <1>2
<1>9. QED
  BY <1>3, <1>4, <1>5, <1>6, <1>7, <1>8

(* The entries of a campaign's list are devices. *)
LEMMA ListedAreDevices ==
    ASSUME TypeOK, NEW c \in Campaigns, NEW i \in 1..Len(order[c])
    PROVE  order[c][i] \in Devices
BY DEF TypeOK

LEMMA RegistryStepRegister ==
    ASSUME TypeOK, RegistryInv, NEW d \in Devices, NEW v \in Versions, Register(d, v)
    PROVE  RegistryInv'
<1>1. \A e \in Devices : e # d => firmware'[e] = firmware[e]
  BY DEF Register, TypeOK
<1>2. firmware[d] = None /\ firmware'[d] = v /\ v # None
  BY VersionsAssumption DEF Register, TypeOK
<1>3. UNCHANGED <<deviceState, previousVersion, phase, order, target, atCreation>>
  BY DEF Register, params
<1>4. \A c \in Campaigns, e \in Devices : Owned(c, e) => e # d
  BY <1>2 DEF Owned, RegistryInv, StillRegistered
<1>5. PhaseAgrees' /\ ListedAreMembers' /\ RememberedAreMembers' /\ UpdatedAreRemembered'
  BY <1>3
  DEF RegistryInv, PhaseAgrees, ListedAreMembers, RememberedAreMembers, UpdatedAreRemembered
<1>6. StillRegistered'
  BY <1>1, <1>2, <1>3 DEF RegistryInv, StillRegistered
<1>7. RememberedIsOriginal'
  BY <1>3 DEF RegistryInv, RememberedIsOriginal, Owned
<1>8. RegistryTracksCampaign'
  BY <1>1, <1>3, <1>4 DEF RegistryInv, RegistryTracksCampaign, Owned
<1>9. QED
  BY <1>5, <1>6, <1>7, <1>8 DEF RegistryInv

LEMMA RegistryStepCreate ==
    ASSUME TypeOK, RegistryInv, PhaseAgrees', NEW c \in Campaigns, NEW ids \in Orders,
           NEW v \in Versions, NEW size \in Sizes, NEW limit \in Limits,
           CreateRollout(c, ids, v, size, limit)
    PROVE  RegistryInv'
<1>1. /\ UNCHANGED <<firmware, previousVersion>>
      /\ \A b \in Campaigns \ {c} :
            /\ deviceState'[b] = deviceState[b]
            /\ phase'[b] = phase[b]
            /\ order'[b] = order[b]
            /\ target'[b] = target[b]
            /\ atCreation'[b] = atCreation[b]
  BY DEF CreateRollout, TypeOK
<1>2. /\ atCreation'[c] = firmware
      /\ order'[c] = ids
      /\ \A d \in Devices : deviceState'[c][d] =
            IF \E i \in 1..Len(ids) : ids[i] = d THEN "pending" ELSE None
  BY DEF CreateRollout, TypeOK
<1>3. \A d \in Devices : previousVersion[c][d] = None /\ deviceState[c][d] = None
  BY DEF CreateRollout, RegistryInv, PhaseAgrees, RememberedAreMembers
<1>4. ListedAreMembers'
  <2>1. ids \in Seq(Devices)
    BY RequestsAssumption
  <2>2. \A i \in 1..Len(ids) : deviceState'[c][ids[i]] # None
    BY <1>2, <2>1, NoneAssumption
  <2>3. QED
    BY <1>1, <1>2, <2>2 DEF RegistryInv, ListedAreMembers
<1>5. RememberedAreMembers' /\ UpdatedAreRemembered'
  BY <1>1, <1>2, <1>3, NoneAssumption
  DEF RegistryInv, RememberedAreMembers, UpdatedAreRemembered
<1>6. StillRegistered'
  BY <1>1, <1>2 DEF RegistryInv, StillRegistered
<1>7. \A b \in Campaigns \ {c}, d \in Devices : Owned(b, d)' => Owned(b, d)
  BY <1>1, <1>3 DEF Owned
<1>8. RememberedIsOriginal'
  BY <1>1, <1>3, <1>7 DEF RegistryInv, RememberedIsOriginal
<1>9. RegistryTracksCampaign'
  BY <1>1, <1>2, <1>3, <1>7 DEF RegistryInv, RegistryTracksCampaign
<1>10. QED
  BY <1>4, <1>5, <1>6, <1>8, <1>9 DEF RegistryInv

LEMMA RegistryStepBatch ==
    ASSUME TypeOK, RegistryInv, PhaseAgrees', NEW c \in Campaigns, NextBatch(c)
    PROVE  RegistryInv'
<1>1. UNCHANGED <<firmware, previousVersion, phase, order, target, atCreation>>
  BY DEF NextBatch, params
<1>2. phase[c] = "in_progress" /\ ~(\E d \in Devices : deviceState[c][d] = "rolledback")
  BY DEF NextBatch, RegistryInv, PhaseAgrees
<1>3. BatchEnd(c) <= cursor[c] \/ BatchEnd(c) <= Len(order[c])
  BY DEF BatchEnd, MinOf, TypeOK
<1>4. \A d \in Batch(c) : d \in Devices /\ deviceState[c][d] # None
  <2>1. (cursor[c] + 1)..BatchEnd(c) \subseteq 1..Len(order[c])
    BY <1>3, BatchEndType DEF TypeOK
  <2>2. \A i \in 1..Len(order[c]) :
           order[c][i] \in Devices /\ deviceState[c][order[c][i]] # None
    BY <1>2, ListedAreDevices DEF RegistryInv, ListedAreMembers
  <2>3. QED
    BY <2>1, <2>2 DEF Batch
<1>5. /\ \A b \in Campaigns \ {c} : deviceState'[b] = deviceState[b]
      /\ \A d \in Devices : deviceState'[c][d] \in {"offered", deviceState[c][d]}
      /\ \A d \in Devices : deviceState'[c][d] = None <=> deviceState[c][d] = None
  BY <1>4, NoneAssumption DEF NextBatch, TypeOK
<1>6. \A b \in Campaigns, d \in Devices : Owned(b, d)' <=> Owned(b, d)
  BY <1>1, <1>5 DEF Owned
<1>7. ListedAreMembers' /\ RememberedAreMembers'
  <2>1. \A b \in Campaigns, d \in Devices : deviceState'[b][d] = None <=> deviceState[b][d] = None
    BY <1>5
  <2>2. QED
    BY <1>1, <2>1, ListedAreDevices DEF RegistryInv, ListedAreMembers, RememberedAreMembers
<1>8. UpdatedAreRemembered'
  BY <1>1, <1>5 DEF RegistryInv, UpdatedAreRemembered
<1>9. StillRegistered' /\ RememberedIsOriginal'
  BY <1>1, <1>6 DEF RegistryInv, StillRegistered, RememberedIsOriginal
<1>10. RegistryTracksCampaign'
  BY <1>1, <1>2, <1>5, <1>6 DEF RegistryInv, RegistryTracksCampaign
<1>11. QED
  BY <1>7, <1>8, <1>9, <1>10 DEF RegistryInv

LEMMA RegistryStepReport ==
    ASSUME TypeOK, RegistryInv, PhaseAgrees',
           NEW c \in Campaigns, NEW d \in Devices, Report(c, d)
    PROVE  RegistryInv'
<1>1. PICK outcome \in Outcomes, st \in StateMap, fw \in VersionMap, prev \in VersionMap :
        /\ st = [deviceState[c] EXCEPT ![d] = outcome]
        /\ fw = IF outcome = "applied"
                THEN SetFirmware(firmware, d, target[c]) ELSE firmware
        /\ prev = IF outcome = "applied"
                  THEN Remember(previousVersion[c], d) ELSE previousVersion[c]
        /\ Conclude(c, st, fw, prev)
  BY ReportIsConclude
<1>2. UNCHANGED <<order, target, atCreation>>
  BY ReportIsConclude DEF params
<1>3. /\ phase[c] = "in_progress"
      /\ deviceState[c][d] # None
      /\ \A e \in Devices : deviceState[c][e] # "rolledback"
  BY ReportIsConclude DEF Reporting, RegistryInv, PhaseAgrees
<1>4. \A b \in Campaigns, e \in Devices : Owned(b, e)' <=> Owned(b, e)
  BY <1>2, ReportConfined DEF Owned
<1>conclude.
      /\ \A b \in Campaigns \ {c} :
            /\ deviceState'[b] = deviceState[b]
            /\ previousVersion'[b] = previousVersion[b]
            /\ phase'[b] = phase[b]
      /\ previousVersion'[c] = prev
      /\ \/ /\ phase'[c] = "halted"
            /\ deviceState'[c] = RevertedState(st)
            /\ firmware' = RevertedFirmware(fw, st, prev)
         \/ /\ phase'[c] # "absent"
            /\ deviceState'[c] = st
            /\ firmware' = fw
  BY <1>1, ConcludeEffect
<1>5. ListedAreMembers'
  <2>1. \A b \in Campaigns : phase'[b] # "absent" => phase[b] # "absent"
    BY <1>3, <1>conclude
  <2>2. \A b \in Campaigns, e \in Devices : deviceState'[b][e] = None <=> deviceState[b][e] = None
    BY ReportConfined
  <2>3. QED
    BY <1>2, <2>1, <2>2, ListedAreDevices DEF RegistryInv, ListedAreMembers
<1>6. RememberedAreMembers'
  BY ReportConfined DEF RegistryInv, RememberedAreMembers
<1>7. \A e \in Devices : st[e] = "applied" => prev[e] # None
  BY <1>1, <1>3, VersionsAssumption
  DEF Remember, Outcomes, RegistryInv, UpdatedAreRemembered, TypeOK
<1>8. \A e \in Devices : st[e] # "rolledback"
  BY <1>1, <1>3 DEF Outcomes, TypeOK
<1>9. UpdatedAreRemembered'
  <2>1. \A e \in Devices :
           deviceState'[c][e] \in {"applied", "rolledback"} => previousVersion'[c][e] # None
    BY <1>7, <1>8, <1>conclude DEF RevertedState, Reverts
  <2>2. QED
    BY <2>1, ReportConfined DEF RegistryInv, UpdatedAreRemembered
<1>10. StillRegistered'
  BY <1>2, ReportConfined DEF RegistryInv, StillRegistered
<1>11. \A e \in Devices : Owned(c, e) =>
          /\ prev[e] # None => prev[e] = atCreation[c][e]
          /\ fw[e] = IF prev[e] # None THEN target[c] ELSE atCreation[c][e]
  <2> SUFFICES ASSUME NEW e \in Devices, Owned(c, e)
               PROVE  /\ prev[e] # None => prev[e] = atCreation[c][e]
                      /\ fw[e] = IF prev[e] # None THEN target[c] ELSE atCreation[c][e]
    OBVIOUS
  <2>1. /\ previousVersion[c][e] # None => previousVersion[c][e] = atCreation[c][e]
        /\ firmware[e] = IF previousVersion[c][e] # None
                         THEN target[c] ELSE atCreation[c][e]
        /\ firmware[e] # None
    BY <1>3 DEF RegistryInv, RememberedIsOriginal, RegistryTracksCampaign,
                StillRegistered, Owned
  <2>2. CASE e = d /\ outcome = "applied"
    <3>1. prev[e] = IF previousVersion[c][e] # None THEN previousVersion[c][e] ELSE firmware[e]
      BY <1>1, <2>1, <2>2 DEF Remember, TypeOK
    <3>2. fw[e] = target[c]
      BY <1>1, <2>1, <2>2 DEF SetFirmware, TypeOK
    <3>3. prev[e] # None
      BY <3>1, <2>1
    <3>4. QED
      BY <3>1, <3>2, <3>3, <2>1
  <2>3. CASE ~(e = d /\ outcome = "applied")
    <3>1. prev[e] = previousVersion[c][e] /\ fw[e] = firmware[e]
      BY <1>1, <2>3 DEF Remember, SetFirmware, TypeOK
    <3>2. QED
      BY <3>1, <2>1
  <2>4. QED
    BY <2>2, <2>3
<1>12. RememberedIsOriginal'
  <2>1. previousVersion'[c] = prev
    BY <1>conclude
  <2>2. QED
    BY <1>2, <1>4, <1>11, <2>1, ReportConfined DEF RegistryInv, RememberedIsOriginal
<1>13. RegistryTracksCampaign'
  <2>1. ASSUME NEW e \in Devices, Owned(c, e)
        PROVE  firmware'[e] =
                 IF previousVersion'[c][e] # None /\ deviceState'[c][e] # "rolledback"
                 THEN target'[c] ELSE atCreation'[c][e]
    <3>1. fw[e] # None
      <4>1. target[c] # None /\ atCreation[c][e] # None
        BY <2>1, VersionsAssumption DEF TypeOK, Owned
      <4>2. QED
        BY <1>11, <2>1, <4>1
    <3>2. CASE /\ deviceState'[c] = RevertedState(st)
               /\ firmware' = RevertedFirmware(fw, st, prev)
      <4>1. CASE st[e] = "applied"
        <5>1. prev[e] # None /\ prev[e] = atCreation[c][e]
          BY <1>7, <1>11, <2>1, <4>1
        <5>2. firmware'[e] = prev[e] /\ deviceState'[c][e] = "rolledback"
          BY <3>1, <3>2, <4>1, <5>1 DEF RevertedState, RevertedFirmware, Reverts
        <5>3. QED
          BY <1>2, <5>1, <5>2
      <4>2. CASE st[e] # "applied"
        <5>1. firmware'[e] = fw[e] /\ deviceState'[c][e] = st[e]
          BY <3>2, <4>2 DEF RevertedState, RevertedFirmware, Reverts
        <5>2. previousVersion'[c][e] = prev[e]
          BY <1>conclude
        <5>3. QED
          BY <1>2, <1>8, <1>11, <2>1, <5>1, <5>2
      <4>3. QED
        BY <4>1, <4>2
    <3>3. CASE deviceState'[c] = st /\ firmware' = fw
      BY <1>2, <1>8, <1>11, <1>conclude, <2>1, <3>3
    <3>4. QED
      BY <1>conclude, <3>2, <3>3
  <2>2. ASSUME NEW b \in Campaigns \ {c}, NEW e \in Devices, Owned(b, e)
        PROVE  firmware'[e] =
                 IF previousVersion'[b][e] # None /\ deviceState'[b][e] # "rolledback"
                 THEN target'[b] ELSE atCreation'[b][e]
    <3>1. deviceState[c][e] = None
      BY <2>2 DEF Owned
    <3>2. firmware'[e] = firmware[e]
      BY <3>1, ReportConfined
    <3>3. QED
      BY <1>2, <2>2, <3>2, ReportConfined DEF RegistryInv, RegistryTracksCampaign
  <2>3. QED
    BY <1>4, <2>1, <2>2 DEF RegistryTracksCampaign
<1>14. QED
  BY <1>5, <1>6, <1>9, <1>10, <1>12, <1>13 DEF RegistryInv

LEMMA RegistryInvStep ==
    ASSUME TypeOK, RegistryInv, [Next]_vars
    PROVE  RegistryInv'
<1>1. PhaseAgrees'
  BY PhaseAgreesStep DEF RegistryInv
<1>2. CASE UNCHANGED vars
  BY <1>2
  DEF RegistryInv, PhaseAgrees, ListedAreMembers, RememberedAreMembers,
      UpdatedAreRemembered, StillRegistered, RememberedIsOriginal,
      RegistryTracksCampaign, Owned, vars, params
<1>3. QED
  BY <1>1, <1>2, RegistryStepRegister, RegistryStepCreate, RegistryStepBatch,
     RegistryStepReport DEF Next

(* What the registry says of a device follows from the one campaign that   *)
(* owns it, whatever the other campaigns do.                               *)
THEOREM RegistryTracking == Spec => []RegistryTracksCampaign
<1>1. Init => RegistryInv
  BY NoneAssumption
  DEF Init, RegistryInv, PhaseAgrees, ListedAreMembers, RememberedAreMembers,
      UpdatedAreRemembered, StillRegistered, RememberedIsOriginal,
      RegistryTracksCampaign, Owned
<1>2. TypeOK /\ RegistryInv /\ [Next]_vars => RegistryInv'
  BY RegistryInvStep
<1>3. RegistryInv => RegistryTracksCampaign
  BY DEF RegistryInv
<1>4. QED
  BY <1>1, <1>2, <1>3, TypeCorrect, PTL DEF Spec

(***************************************************************************)
(* A finished campaign stays as it is.                                     *)
(***************************************************************************)

(* No late report and no late request for a batch changes a completed or a *)
(* halted campaign, and no report changes a remembered version.            *)
THEOREM FinishedStaysFinished == Spec => FinalIsFinal
<1>1. TypeOK /\ [Next]_vars => [\A c \in Campaigns : Frozen(c)]_vars
  <2> SUFFICES ASSUME TypeOK, Next, NEW b \in Campaigns PROVE Frozen(b)
    OBVIOUS
  <2>1. ASSUME NEW d \in Devices, NEW v \in Versions, Register(d, v)
        PROVE  Frozen(b)
    BY <2>1 DEF Register, Frozen
  <2>2. ASSUME NEW c \in Campaigns, NEW ids \in Orders, NEW v \in Versions,
               NEW size \in Sizes, NEW limit \in Limits,
               CreateRollout(c, ids, v, size, limit)
        PROVE  Frozen(b)
    BY <2>2 DEF CreateRollout, Frozen, TypeOK
  <2>3. ASSUME NEW c \in Campaigns, NextBatch(c)
        PROVE  Frozen(b)
    BY <2>3 DEF NextBatch, Frozen, TypeOK
  <2>4. ASSUME NEW c \in Campaigns, NEW d \in Devices, Report(c, d)
        PROVE  Frozen(b)
    <3>1. CASE b # c
      <4>1. cursor' = cursor /\ deviceState'[b] = deviceState[b]
            /\ previousVersion'[b] = previousVersion[b]
        BY <2>4, <3>1, ReportIsConclude, ReportConfined
      <4>2. phase'[b] = phase[b]
        <5>1. PICK st \in StateMap, fw \in VersionMap, prev \in VersionMap :
                Conclude(c, st, fw, prev)
          BY <2>4, ReportIsConclude
        <5>2. QED
          BY <3>1, <5>1, ConcludeEffect
      <4>3. QED
        BY <4>1, <4>2 DEF Frozen
    <3>2. CASE b = c
      <4>1. phase[c] = "in_progress"
        BY <2>4, ReportIsConclude DEF Reporting
      <4>a. PICK st \in StateMap, fw \in VersionMap, prev \in VersionMap :
              /\ prev = Remember(previousVersion[c], d) \/ prev = previousVersion[c]
              /\ Conclude(c, st, fw, prev)
        BY <2>4, ReportIsConclude
      <4>2. previousVersion'[c] = prev
        BY <4>a, ConcludeEffect
      <4>3. \A e \in Devices :
               previousVersion[c][e] # None => previousVersion'[c][e] = previousVersion[c][e]
        BY <4>a, <4>2 DEF Remember, TypeOK
      <4>4. QED
        BY <3>2, <4>1, <4>3 DEF Frozen
    <3>3. QED
      BY <3>1, <3>2
  <2>5. QED
    BY <2>1, <2>2, <2>3, <2>4 DEF Next
<1>2. QED
  BY <1>1, TypeCorrect, PTL DEF Spec, FinalIsFinal

(***************************************************************************)
(* The cursor.                                                             *)
(***************************************************************************)

LEMMA CursorStep ==
    ASSUME TypeOK, CursorInList, CursorSeparates, [Next]_vars
    PROVE  CursorInList' /\ CursorSeparates'
<1>1. ASSUME NEW d \in Devices, NEW v \in Versions, Register(d, v)
      PROVE  CursorInList' /\ CursorSeparates'
  BY <1>1 DEF Register, params, CursorInList, CursorSeparates
<1>2. ASSUME NEW c \in Campaigns, NEW ids \in Orders, NEW v \in Versions,
             NEW size \in Sizes, NEW limit \in Limits,
             CreateRollout(c, ids, v, size, limit)
      PROVE  CursorInList' /\ CursorSeparates'
  <2>1. /\ cursor' = cursor
        /\ order'[c] = ids
        /\ phase'[c] = "in_progress"
        /\ \A d \in Devices : deviceState'[c][d] \in {"pending", None}
        /\ \A b \in Campaigns \ {c} :
              /\ order'[b] = order[b]
              /\ phase'[b] = phase[b]
              /\ deviceState'[b] = deviceState[b]
    BY <1>2 DEF CreateRollout, TypeOK
  <2>2. cursor[c] = 0 /\ ids \in Seq(Devices) /\ Len(ids) \in Nat
    BY <1>2, RequestsAssumption DEF CreateRollout, CursorInList
  <2>3. CursorInList'
    BY <2>1, <2>2 DEF CursorInList
  <2>4. \A i \in 1..Len(ids) : ids[i] \in Devices /\ ~(i <= cursor[c])
    BY <2>2
  <2>5. CursorSeparates'
    BY <2>1, <2>4, NoneAssumption DEF CursorSeparates
  <2>6. QED
    BY <2>3, <2>5
<1>3. ASSUME NEW c \in Campaigns, NextBatch(c)
      PROVE  CursorInList' /\ CursorSeparates'
  <2>1. /\ cursor'[c] = BatchEnd(c)
        /\ \A b \in Campaigns \ {c} : cursor'[b] = cursor[b] /\ deviceState'[b] = deviceState[b]
        /\ \A d \in Devices :
              deviceState'[c][d] = IF d \in Batch(c) THEN "offered" ELSE deviceState[c][d]
        /\ UNCHANGED <<phase, order>>
        /\ phase[c] = "in_progress"
    BY <1>3 DEF NextBatch, TypeOK, params
  <2>2. cursor[c] \in Nat /\ BatchEnd(c) \in Nat /\ Len(order[c]) \in Nat
    BY BatchEndType DEF TypeOK
  <2>3. cursor[c] <= BatchEnd(c) /\ BatchEnd(c) <= Len(order[c])
    BY <2>2 DEF BatchEnd, MinOf, CursorInList, TypeOK
  <2>4. CursorInList'
    BY <2>1, <2>3 DEF CursorInList
  <2>5. ASSUME NEW i \in 1..Len(order[c])
        PROVE  /\ i <= cursor'[c] => deviceState'[c][order[c][i]] # "pending"
               /\ deviceState'[c][order[c][i]] = "offered" =>
                     \E j \in 1..Len(order[c]) : j <= cursor'[c] /\ order[c][j] = order[c][i]
    <3>1. order[c][i] \in Devices
      BY ListedAreDevices
    <3>2. /\ i <= cursor[c] => deviceState[c][order[c][i]] # "pending"
          /\ deviceState[c][order[c][i]] = "offered" =>
                \E j \in 1..Len(order[c]) : j <= cursor[c] /\ order[c][j] = order[c][i]
      BY DEF CursorSeparates
    <3>3. CASE order[c][i] \in Batch(c)
      <4>1. PICK j \in (cursor[c] + 1)..BatchEnd(c) : order[c][i] = order[c][j]
        BY <3>3 DEF Batch
      <4>2. j \in 1..Len(order[c]) /\ j <= BatchEnd(c)
        BY <2>2, <2>3, <4>1
      <4>3. QED
        BY <2>1, <3>1, <3>3, <4>1, <4>2
    <3>4. CASE order[c][i] \notin Batch(c)
      <4>1. ~(i \in (cursor[c] + 1)..BatchEnd(c))
        BY <3>4 DEF Batch
      <4>2. i <= BatchEnd(c) => i <= cursor[c]
        BY <2>2, <4>1
      <4>3. \A j \in 1..Len(order[c]) : j <= cursor[c] => j <= BatchEnd(c)
        BY <2>2, <2>3
      <4>4. QED
        BY <2>1, <3>1, <3>2, <3>4, <4>2, <4>3
    <3>5. QED
      BY <3>3, <3>4
  <2>6. CursorSeparates'
    BY <2>1, <2>5 DEF CursorSeparates
  <2>7. QED
    BY <2>4, <2>6
<1>4. ASSUME NEW c \in Campaigns, NEW d \in Devices, Report(c, d)
      PROVE  CursorInList' /\ CursorSeparates'
  <2>1. cursor' = cursor /\ order' = order
    BY <1>4, ReportIsConclude DEF params
  <2>a. PICK outcome \in Outcomes, st \in StateMap, fw \in VersionMap,
             prev \in VersionMap :
          /\ st = [deviceState[c] EXCEPT ![d] = outcome]
          /\ Conclude(c, st, fw, prev)
    BY <1>4, ReportIsConclude
  <2>2. /\ deviceState'[c] = st \/ deviceState'[c] = RevertedState(st)
        /\ phase'[c] # "absent"
        /\ \A b \in Campaigns \ {c} :
              deviceState'[b] = deviceState[b] /\ phase'[b] = phase[b]
    BY <2>a, ConcludeEffect
  <2>3. \A e \in Devices :
           deviceState'[c][e] \in {"pending", "offered"} => deviceState'[c][e] = deviceState[c][e]
    <3>1. \A e \in Devices : st[e] \in {"pending", "offered"} => st[e] = deviceState[c][e]
      BY <2>a DEF TypeOK, Outcomes
    <3>2. \A e \in Devices : RevertedState(st)[e] \in {st[e], "rolledback"}
      BY DEF RevertedState, Reverts
    <3>3. QED
      BY <2>2, <3>1, <3>2
  <2>4. CursorInList'
    BY <2>1, <2>2 DEF CursorInList
  <2>5. CursorSeparates'
    BY <2>1, <2>2, <2>3, ListedAreDevices DEF CursorSeparates
  <2>6. QED
    BY <2>4, <2>5
<1>5. CASE UNCHANGED vars
  BY <1>5 DEF vars, params, CursorInList, CursorSeparates
<1>6. QED
  BY <1>1, <1>2, <1>3, <1>4, <1>5 DEF Next

(* No member is skipped, and none is offered the update before its turn. *)
THEOREM NobodySkipped == Spec => []CursorSeparates
<1>1. Init => CursorInList /\ CursorSeparates
  BY DEF Init, CursorInList, CursorSeparates
<1>2. TypeOK /\ CursorInList /\ CursorSeparates /\ [Next]_vars
      => CursorInList' /\ CursorSeparates'
  BY CursorStep
<1>3. QED
  BY <1>1, <1>2, TypeCorrect, PTL DEF Spec
================================================================================
