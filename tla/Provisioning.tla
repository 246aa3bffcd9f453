------------------------------ MODULE Provisioning ------------------------------
(***************************************************************************)
(* First-boot provisioning: the firmware of                                *)
(* sdk/firmware/targets/esp32c6-identity/main/app_main.c, one process per  *)
(* board, composed with the cloud it provisions with (CloudState).         *)
(*                                                                         *)
(* The board keeps the identity and the CA key in NVS and everything else  *)
(* in RAM.  Each exchange with the cloud and each NVS write is a step, so  *)
(* power may fail, the answer be lost, or the cloud restart between any    *)
(* two of them.                                                            *)
(***************************************************************************)
EXTENDS Integers, Sequences

CONSTANTS
    Devices, None,
    Samples, Builds, SignedBy, Keys, NoKey, Rollouts,  \* as in CloudState
    Outcomes,     \* what may become of a save of the cloud
    Wipes,        \* may a boot find NVS unusable and erase it?
    MaxKeys,      \* bound on the key pairs generated
    MaxCommands,  \* bound on the commands enqueued
    MaxSteps      \* bound on the operations applied to one campaign

ASSUME WipesAssumption == Wipes \subseteq BOOLEAN
ASSUME OutcomesAssumption == Outcomes \subseteq {"replied", "unheard", "refused", "cut_short",
                                      "killed_before", "killed_within", "killed_after"}
ASSUME BoundsAssumption == MaxKeys \in Nat /\ MaxCommands \in Nat /\ MaxSteps \in Nat
ASSUME SigningAssumption == SignedBy \in [Builds -> Keys \ {NoKey}]
ASSUME NoneAssumption == None \notin Samples /\ None \notin Nat \X Nat

VARIABLES
    up, key, mem, saved, minted, enqueued, acked, holds, delivered,  \* the cloud
    pc,           \* where app_main is
    nvs,          \* flash: the stored identity and CA key
    ram           \* identity_json and ca_pem

cloud == <<up, key, mem, saved, minted, enqueued, acked, holds, delivered>>
vars == <<cloud, pc, nvs, ram>>

Cloud == INSTANCE CloudState

(* An identity is its certificate: <<CA key, device key>>. *)
Nothing == [identity |-> None, ca |-> None]

Phases == {"off", "connect", "post", "get_ca", "store_identity", "store_ca", "verify",
           "verified", "not_verified", "stopped"}

Init ==
    /\ Cloud!Init
    /\ pc = [d \in Devices |-> "off"]
    /\ nvs = [d \in Devices |-> Nothing]
    /\ ram = [d \in Devices |-> Nothing]

--------------------------------------------------------------------------------
Goto(d, to) == pc' = [pc EXCEPT ![d] = to]

(* app_main returns: the board does nothing more until it is switched off. *)
GiveUp(d) ==
    /\ Goto(d, "stopped")
    /\ ram' = [ram EXCEPT ![d] = Nothing]
    /\ UNCHANGED nvs

(* Mutant: a stored identity is enough, the CA key may be missing. *)
Complete_NoCa(n) == n.identity # None

Complete(n) == n.identity # None /\ n.ca # None

(* nvs_flash_init, which erases an unusable partition, and the load. *)
PowerOn(d) ==
    /\ pc[d] = "off"
    /\ \E wiped \in Wipes :
          nvs' = IF wiped THEN [nvs EXCEPT ![d] = Nothing] ELSE nvs
    /\ \/ Complete(nvs'[d]) /\ Goto(d, "verify") /\ ram' = [ram EXCEPT ![d] = nvs'[d]]
       \/ ~Complete(nvs'[d]) /\ Goto(d, "connect") /\ UNCHANGED ram
    /\ UNCHANGED cloud

PowerLoss(d) ==
    /\ pc[d] # "off"
    /\ Goto(d, "off")
    /\ ram' = [ram EXCEPT ![d] = Nothing]
    /\ UNCHANGED <<cloud, nvs>>

WifiUp(d) ==
    /\ pc[d] = "connect"
    /\ Goto(d, "post")
    /\ UNCHANGED <<cloud, nvs, ram>>

WifiFails(d) == pc[d] = "connect" /\ GiveUp(d) /\ UNCHANGED cloud

(* POST /provision reaches the cloud, which takes it; the answer carries   *)
(* the identity, is an error, or does not arrive.                          *)
PostTaken(d, outcome) ==
    /\ pc[d] = "post"
    /\ Cloud!ProvisionDevice(d, outcome)
    /\ \/ /\ outcome = "replied"
          /\ Goto(d, "get_ca")
          /\ ram' = [ram EXCEPT ![d].identity = holds'[d]]
          /\ UNCHANGED nvs
       \/ outcome # "replied" /\ GiveUp(d)

(* 409, or no connection. *)
PostFails(d) == pc[d] = "post" /\ GiveUp(d) /\ UNCHANGED cloud

GetCa(d) ==
    /\ pc[d] = "get_ca"
    /\ up
    /\ ram' = [ram EXCEPT ![d].ca = mem.ca]
    /\ Goto(d, "store_identity")
    /\ UNCHANGED <<cloud, nvs>>

(* The identity that was received is freed. *)
GetCaFails(d) == pc[d] = "get_ca" /\ GiveUp(d) /\ UNCHANGED cloud

(* nvs_set_blob, twice; the results are not looked at. *)
StoreIdentity(d, stored) ==
    /\ pc[d] = "store_identity"
    /\ nvs' = IF stored THEN [nvs EXCEPT ![d].identity = ram[d].identity] ELSE nvs
    /\ Goto(d, "store_ca")
    /\ UNCHANGED <<cloud, ram>>

(* Mutant: an unset key is stored in the place of the CA key. *)
CaToStore_Unset(d) == NoKey

CaToStore(d) == ram[d].ca

StoreCa(d, stored) ==
    /\ pc[d] = "store_ca"
    /\ nvs' = IF stored THEN [nvs EXCEPT ![d].ca = CaToStore(d)] ELSE nvs
    /\ Goto(d, "verify")
    /\ UNCHANGED <<cloud, ram>>

(* nvs_open fails: the identity is used, but not stored. *)
StoreFails(d) ==
    /\ pc[d] = "store_identity"
    /\ Goto(d, "verify")
    /\ UNCHANGED <<cloud, nvs, ram>>

(* verify_identity: the certificate verifies under the CA key. *)
Verify(d) ==
    /\ pc[d] = "verify"
    /\ Goto(d, IF ram[d].identity[1] = ram[d].ca THEN "verified" ELSE "not_verified")
    /\ UNCHANGED <<cloud, nvs, ram>>

Boot(d) ==
    \/ PowerOn(d) \/ WifiUp(d) \/ WifiFails(d)
    \/ \E outcome \in Outcomes : PostTaken(d, outcome)
    \/ PostFails(d) \/ GetCa(d) \/ GetCaFails(d) \/ StoreFails(d)
    \/ \E stored \in BOOLEAN : StoreIdentity(d, stored) \/ StoreCa(d, stored)
    \/ Verify(d)

(* The cloud starts, is stopped, and serves others: operators, and boards  *)
(* that report telemetry and poll for commands.  An operator who registers *)
(* or provisions a board by hand takes its name.                           *)
CloudStart == (\E k \in Keys : Cloud!Start(k)) /\ UNCHANGED <<pc, nvs, ram>>

CloudStop == Cloud!Stop /\ UNCHANGED <<pc, nvs, ram>>

CloudServes(outcome) == Cloud!Request(outcome) /\ UNCHANGED <<pc, nvs, ram>>

Next ==
    \/ \E d \in Devices : Boot(d) \/ PowerLoss(d)
    \/ \E outcome \in Outcomes : CloudServes(outcome)
    \/ CloudStart \/ CloudStop

Spec == Init /\ [][Next]_vars

(* A cloud that, once started, stays up, and no operator at it: every      *)
(* board is switched on and off again and again, and nothing fails for     *)
(* ever.                                                                   *)
CalmNext == (\E d \in Devices : Boot(d) \/ PowerLoss(d)) \/ CloudStart

CalmFairness ==
    /\ WF_vars(CloudStart)
    /\ \A d \in Devices :
          /\ WF_vars(Boot(d))
          /\ WF_vars(pc[d] \in {"stopped", "not_verified"} /\ PowerLoss(d))
          /\ SF_vars(WifiUp(d))
          /\ SF_vars(PostTaken(d, "replied"))
          /\ SF_vars(GetCa(d))
          /\ SF_vars(StoreIdentity(d, TRUE))
          /\ SF_vars(StoreCa(d, TRUE))
          /\ SF_vars(Verify(d))

CalmSpec == Init /\ [][CalmNext]_vars /\ CalmFairness

--------------------------------------------------------------------------------
Slots == [identity : Cloud!Certificates \union {None}, ca : Nat \union {None}]

(* Every variable holds a value of its type. *)
TypeOK ==
    /\ Cloud!TypeOK
    /\ pc \in [Devices -> Phases]
    /\ nvs \in [Devices -> Slots]
    /\ ram \in [Devices -> Slots]

(* "On every boot the device proves that it holds a genuine CA-issued      *)
(* identity" (comment of app_main.c), as far as it has one: an identity in *)
(* NVS or in use is exactly the certificate the cloud keeps for the board, *)
(* the CA key stored beside it is the cloud's trust root, and the verdict  *)
(* is never NOT VERIFIED, wherever power failed and however often the      *)
(* cloud restarted.  Needs that the cloud's saves are never torn.          *)
IdentityAgrees ==
    \A d \in Devices :
        /\ \A identity \in {nvs[d].identity, ram[d].identity} \ {None} :
              \E s \in saved : s.certs[d] = identity
        /\ \A ca \in {nvs[d].ca, ram[d].ca} \ {None} : \E s \in saved : s.ca = ca
        /\ pc[d] # "not_verified"

(* "A reboot reuses the same certificate" (comment of app_main.c): once an *)
(* identity and its CA key are both in NVS they never change, short of an  *)
(* erased partition, and a certificate in the cloud's file is never        *)
(* replaced by another.                                                    *)
FirstIdentityLasts ==
    [][\A d \in Devices :
          /\ Complete(nvs[d]) => nvs'[d] \in {nvs[d], Nothing}
          /\ \A s \in saved, t \in saved' :
                s.certs[d] # None => t.certs[d] = s.certs[d]]_vars

(* "A restarted server resumes where it left off" (persistence.ts): what   *)
(* was acknowledged last lives on in the file and in the running server,   *)
(* through refused saves and deaths between two writes, while boards       *)
(* provision themselves.  Needs that a save is never torn and that the     *)
(* signing key stays the same.                                             *)
AcknowledgedSurvives == Cloud!AcknowledgedSurvives

(* An identity that was handed out is exactly what the cloud keeps for the *)
(* device, and verifies under the trust root it publishes, now and after   *)
(* any restart.                                                            *)
IdentitiesStayValid == Cloud!IdentitiesStayValid

(* A device is sent each command at most once and in order, whatever saves *)
(* fail and whenever the cloud restarts.                                   *)
DeliveredOnceInOrder == Cloud!DeliveredOnceInOrder

(* service.ts:37-38: "so the trust root, and every certificate issued      *)
(* under it, survives a restart".  A restart never changes the CA under    *)
(* which a device holds a certificate.                                     *)
TrustRootSurvives == Cloud!TrustRootSurvives

(* The claim of the header comment, app_main.c:1-5: the board asks to be   *)
(* provisioned on its first boot, and on every boot holds a CA-issued      *)
(* identity.  Under boots that are retried for ever it gets one.           *)
EventuallyVerified == \A d \in Devices : <>(pc[d] = "verified")
================================================================================
