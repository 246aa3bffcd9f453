------------------------------- MODULE CloudState -------------------------------
(***************************************************************************)
(* The cloud's operational state and its durability: class CloudService of *)
(* cloud/src/service.ts, FileCloudStore of cloud/src/persistence.ts, the   *)
(* snapshot/restore halves of the registry, shadow, command queue, CA and  *)
(* firmware store, and the replies cloud/src/http.ts sends.                *)
(*                                                                         *)
(* Every mutating request changes the state in memory, rewrites the whole  *)
(* state file, and only then answers.  The server is single threaded, so a *)
(* request is one action; what can go wrong in it is the outcome of the    *)
(* save.  A missing and an unreadable state file are the same to load(),   *)
(* which returns null for both.  Provisioning composes this state machine  *)
(* with the boards and states the assumptions on its constants.            *)
(***************************************************************************)
EXTENDS Integers, Sequences

CONSTANTS
    Devices,      \* device ids
    Samples,      \* telemetry a device may report
    Builds,       \* firmware builds
    SignedBy,     \* the key a build verifies under
    Keys,         \* what CHIPWRIGHT_SIGNING_KEY may hold at a start
    NoKey,        \* CHIPWRIGHT_SIGNING_KEY is unset
    Rollouts,     \* campaign ids
    None,         \* an absent Map entry
    Outcomes,     \* what may become of a save, a subset of SaveOutcomes
    MaxKeys,      \* bound on the key pairs generated
    MaxCommands,  \* bound on the commands enqueued
    MaxSteps      \* bound on the operations applied to one campaign

(* replied: saved and answered.  unheard: saved, but the answer is lost.   *)
(* refused: save throws, the file is as before (the directory or the file  *)
(* cannot be opened).  cut_short: save throws in the middle (disk full).   *)
(* killed_*: the process dies before, within or after writeFileSync.       *)
SaveOutcomes == {"replied", "unheard", "refused", "cut_short",
                 "killed_before", "killed_within", "killed_after"}
Written == {"replied", "unheard", "killed_after"}
Torn == {"cut_short", "killed_within"}
Killed == {"killed_before", "killed_within", "killed_after"}

VARIABLES
    up,           \* is the server process running?
    key,          \* its signing key, NoKey when firmwareStore is null
    mem,          \* the state in memory, of no meaning while down
    saved,        \* what load() would return: {} for null, otherwise {state}
    minted,       \* how many key pairs were ever generated
    enqueued,     \* how many commands were ever enqueued
    acked,        \* history: {} or {the state as of the last answered request}
    holds,        \* history: the identity each device was sent
    delivered     \* history: the commands each device was sent

vars == <<up, key, mem, saved, minted, enqueued, acked, holds, delivered>>

(* A certificate is the pair of the CA key that signed it and the device   *)
(* key it certifies; key pairs are numbered as they are generated.         *)
Certificates == Nat \X Nat

State ==
    [ca : Nat, registry : SUBSET Devices, certs : [Devices -> Certificates \union {None}],
     shadow : [Devices -> Samples \union {None}], queue : [Devices -> Seq(Nat)],
     firmware : SUBSET Builds, rollouts : [Rollouts -> Nat]]

(* The service as constructed without a persisted state. *)
Fresh(ca) ==
    [ca |-> ca, registry |-> {}, certs |-> [d \in Devices |-> None],
     shadow |-> [d \in Devices |-> None], queue |-> [d \in Devices |-> <<>>],
     firmware |-> {}, rollouts |-> [r \in Rollouts |-> 0]]

Init ==
    /\ up = FALSE
    /\ key = NoKey
    /\ mem = Fresh(0)
    /\ saved = {}
    /\ minted = 0
    /\ enqueued = 0
    /\ acked = {}
    /\ holds = [d \in Devices |-> None]
    /\ delivered = [d \in Devices |-> <<>>]

--------------------------------------------------------------------------------
(* persist(): mem becomes s, and the save of s ends in one of the outcomes. *)
Persist(s, outcome) ==
    /\ outcome \in Outcomes
    /\ up' = (outcome \notin Killed)
    /\ mem' = IF outcome \in Killed THEN Fresh(0) ELSE s
    /\ saved' = IF outcome \in Written THEN {s}
                ELSE IF outcome \in Torn THEN {} ELSE saved
    /\ acked' = IF outcome = "replied" THEN {s} ELSE acked

RegisterDevice(d, outcome) ==
    /\ up
    /\ d \notin mem.registry
    /\ Persist([mem EXCEPT !.registry = @ \union {d}], outcome)
    /\ UNCHANGED <<key, minted, enqueued, holds, delivered>>

(* Mutant: a device that is already registered is provisioned again. *)
Provisionable_Again(d) == TRUE

(* registry.register throws for a device that is registered already. *)
Provisionable(d) == d \notin mem.registry

(* Register, issue an identity, keep its certificate, and hand the private *)
(* key over once.                                                          *)
ProvisionDevice(d, outcome) ==
    /\ up
    /\ Provisionable(d)
    /\ minted < MaxKeys
    /\ minted' = minted + 1
    /\ LET cert == <<mem.ca, minted'>> IN
         /\ Persist([mem EXCEPT !.registry = @ \union {d}, !.certs[d] = cert], outcome)
         /\ holds' = IF outcome = "replied" THEN [holds EXCEPT ![d] = cert] ELSE holds
    /\ UNCHANGED <<key, enqueued, delivered>>

(* The samples, lastSeen and status of a device, as one value. *)
IngestTelemetry(d, sample, outcome) ==
    /\ up
    /\ d \in mem.registry
    /\ Persist([mem EXCEPT !.shadow[d] = sample], outcome)
    /\ UNCHANGED <<key, minted, enqueued, holds, delivered>>

SendCommand(d, outcome) ==
    /\ up
    /\ d \in mem.registry
    /\ enqueued < MaxCommands
    /\ enqueued' = enqueued + 1
    /\ Persist([mem EXCEPT !.queue[d] = Append(@, enqueued')], outcome)
    /\ UNCHANGED <<key, minted, holds, delivered>>

(* Mutant: the queue is read but not emptied. *)
Drained_Kept(d) == mem

Drained(d) == [mem EXCEPT !.queue[d] = <<>>]

(* drainCommands: the queue is emptied before the answer leaves.  It does  *)
(* not ask whether the device is known.                                    *)
DrainCommands(d, outcome) ==
    /\ up
    /\ Persist(Drained(d), outcome)
    /\ delivered' = IF outcome = "replied"
                    THEN [delivered EXCEPT ![d] = @ \o mem.queue[d]] ELSE delivered
    /\ UNCHANGED <<key, minted, enqueued, holds>>

PublishFirmware(b, outcome) ==
    /\ up
    /\ key # NoKey
    /\ SignedBy[b] = key
    /\ Persist([mem EXCEPT !.firmware = @ \union {b}], outcome)
    /\ UNCHANGED <<key, minted, enqueued, holds, delivered>>

(* createRollout, advanceRollout and reportRollout: a campaign is the      *)
(* number of operations applied to it, 0 when it does not exist.           *)
MoveRollout(r, outcome) ==
    /\ up
    /\ mem.rollouts[r] < MaxSteps
    /\ Persist([mem EXCEPT !.rollouts[r] = @ + 1], outcome)
    /\ UNCHANGED <<key, minted, enqueued, holds, delivered>>

--------------------------------------------------------------------------------
(* Mutant: campaigns are left out when the state is restored. *)
Restored_NoRollouts(s, k) ==
    [s EXCEPT !.rollouts = [r \in Rollouts |-> 0],
              !.firmware = {b \in @ : SignedBy[b] = k}]

(* restore(): a build that does not verify under the key is dropped, and   *)
(* without a key there is no firmware store at all.                        *)
Restored(s, k) == [s EXCEPT !.firmware = {b \in @ : SignedBy[b] = k}]

(* The constructor.  Without a loadable state a new CA is generated; it is *)
(* not saved until the first mutating request.                             *)
StartEmpty ==
    /\ saved = {}
    /\ minted < MaxKeys
    /\ minted' = minted + 1
    /\ mem' = Fresh(minted')

StartRestored ==
    /\ \E s \in saved : mem' = Restored(s, key')
    /\ UNCHANGED minted

Start(k) ==
    /\ ~up
    /\ up' = TRUE
    /\ key' = k
    /\ StartEmpty \/ StartRestored
    /\ UNCHANGED <<saved, enqueued, acked, holds, delivered>>

(* The process ends between two requests. *)
Stop ==
    /\ up
    /\ up' = FALSE
    /\ mem' = Fresh(0)
    /\ UNCHANGED <<key, saved, minted, enqueued, acked, holds, delivered>>

Request(outcome) ==
    \/ \E d \in Devices :
         \/ RegisterDevice(d, outcome) \/ ProvisionDevice(d, outcome)
         \/ SendCommand(d, outcome) \/ DrainCommands(d, outcome)
         \/ \E sample \in Samples : IngestTelemetry(d, sample, outcome)
    \/ \E b \in Builds : PublishFirmware(b, outcome)
    \/ \E r \in Rollouts : MoveRollout(r, outcome)

--------------------------------------------------------------------------------
(* Every variable holds a value of its type. *)
TypeOK ==
    /\ up \in BOOLEAN
    /\ key \in Keys \union {NoKey}
    /\ mem \in State
    /\ saved \in SUBSET State /\ \A s, t \in saved : s = t
    /\ minted \in Nat
    /\ enqueued \in Nat
    /\ acked \in SUBSET State /\ \A s, t \in acked : s = t
    /\ holds \in [Devices -> Certificates \union {None}]
    /\ delivered \in [Devices -> Seq(Nat)]

(* s carries on from r: the same trust root and certificates, nothing      *)
(* forgotten, no campaign taken back.                                      *)
CarriesOn(r, s) ==
    /\ s.ca = r.ca
    /\ r.registry \subseteq s.registry
    /\ \A d \in Devices :
          /\ r.certs[d] # None => s.certs[d] = r.certs[d]
          /\ r.shadow[d] # None => s.shadow[d] # None
    /\ r.firmware \subseteq s.firmware
    /\ \A c \in Rollouts : s.rollouts[c] >= r.rollouts[c]

(* "A restarted server resumes where it left off" (persistence.ts): the    *)
(* state that was acknowledged last lives on in the running server, and in *)
(* the file, through refused saves and deaths between two writes.  Needs   *)
(* that a save is never torn and the signing key stays the same.           *)
AcknowledgedSurvives ==
    \A r \in acked :
        /\ \E s \in saved : CarriesOn(r, s)
        /\ up => CarriesOn(r, mem)

(* An identity a device was sent stays valid: the cloud keeps exactly that *)
(* certificate for the device, and it verifies under the trust root the    *)
(* cloud publishes, now and after any restart.                             *)
IdentitiesStayValid ==
    \A d \in Devices :
        holds[d] # None =>
            /\ \E s \in saved : s.certs[d] = holds[d] /\ holds[d][1] = s.ca
            /\ up => mem.certs[d] = holds[d] /\ holds[d][1] = mem.ca

(* A device is sent each command at most once, in the order they were      *)
(* enqueued, whatever saves fail and whenever the server restarts.         *)
DeliveredOnceInOrder ==
    \A d \in Devices :
        \A i, j \in 1..Len(delivered[d]) : i < j => delivered[d][i] < delivered[d][j]

(* service.ts:37-38: "so the trust root, and every certificate issued      *)
(* under it, survives a restart".  A restart never changes the CA the      *)
(* devices were told.                                                      *)
TrustRootSurvives ==
    \A d \in Devices : up /\ holds[d] # None => holds[d][1] = mem.ca
================================================================================
