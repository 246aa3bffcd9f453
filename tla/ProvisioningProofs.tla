--------------------------- MODULE ProvisioningProofs ---------------------------
(***************************************************************************)
(* Proofs about boards that provision with the cloud, for any number of    *)
(* devices, keys, commands and campaigns.  Every request of the cloud does *)
(* the same thing to its state: the next state carries on from the one in  *)
(* memory, and the file becomes it or stays (Serves).  The invariant       *)
(* relates the file, the memory and what each client was told; what a      *)
(* board has in NVS and RAM agrees with what it was sent.                  *)
(***************************************************************************)
EXTENDS Provisioning, TLAPS

(* What the theorems assume of the instance: a save leaves the old file or *)
(* the new one,                                                            *)
WholeSaves == Outcomes \intersect Cloud!Torn = {}

(* and, where it is said, there is one signing key.                        *)
OneKeyEver == \A k \in Keys, b \in Builds : SignedBy[b] = k

(* The types of the cloud's variables and of the boards'.                  *)
Types ==
    /\ up \in BOOLEAN
    /\ key \in Keys \union {NoKey}
    /\ mem \in Cloud!State
    /\ saved \in SUBSET Cloud!State
    /\ minted \in Nat
    /\ enqueued \in Nat
    /\ acked \in SUBSET Cloud!State
    /\ holds \in [Devices -> Cloud!Certificates \union {None}]
    /\ delivered \in [Devices -> Seq(Nat)]

BoardTypes ==
    /\ pc \in [Devices -> Phases]
    /\ nvs \in [Devices -> Slots]
    /\ ram \in [Devices -> Slots]

(* The states the cloud may carry on from: the file, and its memory.       *)
InPlay == saved \union (IF up THEN {mem} ELSE {})

(* A certificate is of a registered device, *)
Certified(s) == \A d \in Devices : s.certs[d] # None => d \in s.registry

(* a file is one state or none, *)
OneFile == (\A s, t \in saved : s = t) /\ (\A s, t \in acked : s = t)

(* and what a device was sent is its certificate, under the CA of s.       *)
Held(d, s) == s.certs[d] = holds[d] /\ holds[d][1] = s.ca

(* Memory carries on from the file, and both from what devices were sent.  *)
CertInv ==
    /\ OneFile
    /\ \A s \in InPlay : Certified(s)
    /\ up => \A s \in saved, d \in Devices : s.certs[d] # None => mem.certs[d] = s.certs[d]
    /\ \A d \in Devices : holds[d] # None => saved # {} /\ \A s \in InPlay : Held(d, s)

(* The commands a device was sent, and behind them those that wait for it  *)
(* in memory or in the file, are in order.                                 *)
Increasing(p) == \A i, j \in 1..Len(p) : i < j => p[i] < p[j]
UpTo(p, n) == \A i \in 1..Len(p) : p[i] <= n
Before(p, q) == \A i \in 1..Len(p), j \in 1..Len(q) : p[i] < q[j]

Ordered(d, q) == Increasing(q) /\ UpTo(q, enqueued) /\ Before(delivered[d], q)

CommandInv ==
    \A d \in Devices :
        /\ Increasing(delivered[d]) /\ UpTo(delivered[d], enqueued)
        /\ \A s \in InPlay : Ordered(d, s.queue[d])

(* What was acknowledged lives on wherever the cloud may carry on from.    *)
AckInv == \A r \in acked : saved # {} /\ \A s \in InPlay : Cloud!CarriesOn(r, s)

(* What a board has is what it was sent, and in the phases behind GET /ca  *)
(* it has all of it.                                                       *)
Agrees(d, slot) ==
    /\ slot.identity # None => slot.identity = holds[d]
    /\ slot.ca # None => holds[d] # None /\ slot.ca = holds[d][1]

Ready(d, slot) == holds[d] # None /\ slot.identity = holds[d] /\ slot.ca = holds[d][1]

BoardOk(d) ==
    /\ Agrees(d, nvs[d]) /\ Agrees(d, ram[d])
    /\ pc[d] = "get_ca" => ram[d].identity # None
    /\ pc[d] \in {"store_identity", "store_ca", "verify"} => Ready(d, ram[d])
    /\ pc[d] # "not_verified"

BoardInv == \A d \in Devices : BoardOk(d)

--------------------------------------------------------------------------------
(* What a request does to a device: the certificate it was sent, *)
HandsOut(d, s, outcome) ==
    \/ holds'[d] = holds[d]
    \/ /\ outcome = "replied" /\ holds[d] = None
       /\ holds'[d] # None /\ s.certs[d] = holds'[d] /\ holds'[d][1] = s.ca

(* and its commands. *)
Moves(d, s, outcome) ==
    \/ s.queue[d] = mem.queue[d] /\ delivered'[d] = delivered[d]
    \/ s.queue[d] = Append(mem.queue[d], enqueued + 1) /\ enqueued' = enqueued + 1
       /\ delivered'[d] = delivered[d]
    \/ /\ s.queue[d] = <<>>
       /\ delivered'[d] = IF outcome = "replied" THEN delivered[d] \o mem.queue[d] ELSE delivered[d]

(* A request that leads to s, whatever becomes of its save. *)
Serves(s, outcome) ==
    /\ up
    /\ s \in Cloud!State
    /\ Cloud!Persist(s, outcome)
    /\ Cloud!CarriesOn(mem, s)
    /\ Certified(s)
    /\ holds' \in [Devices -> Cloud!Certificates \union {None}]
    /\ delivered' \in [Devices -> Seq(Nat)]
    /\ enqueued' \in Nat /\ enqueued' >= enqueued /\ minted' \in Nat
    /\ \A d \in Devices : HandsOut(d, s, outcome) /\ Moves(d, s, outcome)
    /\ key' = key

(* The parts of a state have their types. *)
LEMMA Fields ==
    ASSUME NEW m \in Cloud!State
    PROVE  /\ m.ca \in Nat /\ m.registry \in SUBSET Devices
           /\ m.certs \in [Devices -> Cloud!Certificates \union {None}]
           /\ m.shadow \in [Devices -> Samples \union {None}]
           /\ m.queue \in [Devices -> Seq(Nat)]
           /\ m.firmware \in SUBSET Builds /\ m.rollouts \in [Rollouts -> Nat]
BY DEF Cloud!State

(* A state of which one part was replaced is one. *)
LEMMA Updated ==
    ASSUME NEW m \in Cloud!State
    PROVE  /\ \A R \in SUBSET Devices : [m EXCEPT !.registry = R] \in Cloud!State
           /\ \A C \in [Devices -> Cloud!Certificates \union {None}] : [m EXCEPT !.certs = C] \in Cloud!State
           /\ \A S \in [Devices -> Samples \union {None}] : [m EXCEPT !.shadow = S] \in Cloud!State
           /\ \A Q \in [Devices -> Seq(Nat)] : [m EXCEPT !.queue = Q] \in Cloud!State
           /\ \A B \in SUBSET Builds : [m EXCEPT !.firmware = B] \in Cloud!State
           /\ \A N \in [Rollouts -> Nat] : [m EXCEPT !.rollouts = N] \in Cloud!State
BY DEF Cloud!State

(* Every request is of that kind. *)
LEMMA RequestEffect ==
    ASSUME Types, CertInv, NEW outcome \in Outcomes, Cloud!Request(outcome)
    PROVE  \E s : Serves(s, outcome)
<1>0. mem \in Cloud!State
  BY DEF Types
<1>f. /\ mem.ca \in Nat /\ mem.registry \in SUBSET Devices
      /\ mem.certs \in [Devices -> Cloud!Certificates \union {None}]
      /\ mem.shadow \in [Devices -> Samples \union {None}]
      /\ mem.queue \in [Devices -> Seq(Nat)]
      /\ mem.firmware \in SUBSET Builds /\ mem.rollouts \in [Rollouts -> Nat]
  BY <1>0, Fields
<1>m. up => Certified(mem) /\ \A d \in Devices : holds[d] # None => mem.certs[d] = holds[d]
  BY DEF CertInv, InPlay, Held
<1>1. ASSUME NEW d \in Devices, Cloud!RegisterDevice(d, outcome)
      PROVE  \E s : Serves(s, outcome)
  <2> DEFINE s == [mem EXCEPT !.registry = @ \union {d}]
  <2>1. /\ s.ca = mem.ca /\ s.registry = mem.registry \union {d} /\ s.certs = mem.certs
        /\ s.shadow = mem.shadow /\ s.queue = mem.queue
        /\ s.firmware = mem.firmware /\ s.rollouts = mem.rollouts
    BY <1>0 DEF Cloud!State
  <2>t. mem.registry \union {d} \in SUBSET Devices
    BY <1>f
  <2>2. s \in Cloud!State
    BY <1>0, <2>t, Updated
  <2>3. Cloud!Persist(s, outcome)
    BY <1>1 DEF Cloud!RegisterDevice
  <2> HIDE DEF s
  <2>4. Cloud!CarriesOn(mem, s)
    BY <1>0, <1>1, <1>m, <1>f, <2>1 DEF Cloud!CarriesOn, Certified, Cloud!RegisterDevice
  <2>5. Certified(s)
    BY <1>1, <1>m, <1>f, <2>1 DEF Certified, Cloud!RegisterDevice
  <2>6. \A e \in Devices : HandsOut(e, s, outcome) /\ Moves(e, s, outcome)
    BY <1>1, <1>m, <1>f, <2>1 DEF HandsOut, Moves, Types, Cloud!RegisterDevice
  <2>7. /\ up /\ key' = key /\ minted' \in Nat /\ enqueued' \in Nat /\ enqueued' >= enqueued
        /\ holds' \in [Devices -> Cloud!Certificates \union {None}]
        /\ delivered' \in [Devices -> Seq(Nat)]
    BY <1>1, <1>f, <2>t DEF Types, Cloud!RegisterDevice
  <2> QED
    BY <2>2, <2>3, <2>4, <2>5, <2>6, <2>7 DEF Serves
<1>2. ASSUME NEW d \in Devices, Cloud!SendCommand(d, outcome)
      PROVE  \E s : Serves(s, outcome)
  <2> DEFINE s == [mem EXCEPT !.queue[d] = Append(@, enqueued + 1)]
  <2>1. /\ s.ca = mem.ca /\ s.registry = mem.registry /\ s.certs = mem.certs
        /\ s.shadow = mem.shadow /\ s.queue = [mem.queue EXCEPT ![d] = Append(@, enqueued + 1)]
        /\ s.firmware = mem.firmware /\ s.rollouts = mem.rollouts
    BY <1>0 DEF Cloud!State
  <2>t. [mem.queue EXCEPT ![d] = Append(@, enqueued + 1)] \in [Devices -> Seq(Nat)]
    BY <1>f DEF Types
  <2>2. s \in Cloud!State
    BY <1>0, <2>t, Updated
  <2>3. Cloud!Persist(s, outcome)
    BY <1>2 DEF Cloud!SendCommand
  <2> HIDE DEF s
  <2>4. Cloud!CarriesOn(mem, s)
    BY <1>0, <1>2, <1>m, <1>f, <2>1 DEF Cloud!CarriesOn, Certified, Cloud!SendCommand
  <2>5. Certified(s)
    BY <1>2, <1>m, <1>f, <2>1 DEF Certified, Cloud!SendCommand
  <2>6. \A e \in Devices : HandsOut(e, s, outcome) /\ Moves(e, s, outcome)
    <3> SUFFICES ASSUME NEW e \in Devices
                 PROVE  HandsOut(e, s, outcome) /\ Moves(e, s, outcome)
      OBVIOUS
    <3>1. holds' = holds /\ delivered' = delivered /\ enqueued' = enqueued + 1
      BY <1>2 DEF Cloud!SendCommand
    <3>2. CASE e = d
      <4>1. s.queue[e] = Append(mem.queue[e], enqueued + 1)
        BY <1>f, <2>1, <3>2
      <4> QED
        BY <3>1, <4>1 DEF HandsOut, Moves
    <3>3. CASE e # d
      <4>1. s.queue[e] = mem.queue[e]
        BY <1>f, <2>1, <3>3
      <4> QED
        BY <3>1, <4>1 DEF HandsOut, Moves
    <3> QED
      BY <3>2, <3>3
  <2>7. /\ up /\ key' = key /\ minted' \in Nat /\ enqueued' \in Nat /\ enqueued' >= enqueued
        /\ holds' \in [Devices -> Cloud!Certificates \union {None}]
        /\ delivered' \in [Devices -> Seq(Nat)]
    BY <1>2, <1>f, <2>t DEF Types, Cloud!SendCommand
  <2> QED
    BY <2>2, <2>3, <2>4, <2>5, <2>6, <2>7 DEF Serves
<1>3. ASSUME NEW d \in Devices, Cloud!DrainCommands(d, outcome)
      PROVE  \E s : Serves(s, outcome)
  <2> DEFINE s == [mem EXCEPT !.queue[d] = <<>>]
  <2>1. /\ s.ca = mem.ca /\ s.registry = mem.registry /\ s.certs = mem.certs
        /\ s.shadow = mem.shadow /\ s.queue = [mem.queue EXCEPT ![d] = <<>>]
        /\ s.firmware = mem.firmware /\ s.rollouts = mem.rollouts
    BY <1>0 DEF Cloud!State
  <2>t. [mem.queue EXCEPT ![d] = <<>>] \in [Devices -> Seq(Nat)]
    BY <1>f
  <2>2. s \in Cloud!State
    BY <1>0, <2>t, Updated
  <2>3. Cloud!Persist(s, outcome)
    BY <1>3 DEF Cloud!DrainCommands, Cloud!Drained
  <2> HIDE DEF s
  <2>4. Cloud!CarriesOn(mem, s)
    BY <1>0, <1>3, <1>m, <1>f, <2>1 DEF Cloud!CarriesOn, Certified, Cloud!DrainCommands, Cloud!Drained
  <2>5. Certified(s)
    BY <1>3, <1>m, <1>f, <2>1 DEF Certified, Cloud!DrainCommands, Cloud!Drained
  <2>6. \A e \in Devices : HandsOut(e, s, outcome) /\ Moves(e, s, outcome)
    BY <1>3, <1>m, <1>f, <2>1 DEF HandsOut, Moves, Types, Cloud!DrainCommands, Cloud!Drained
  <2>7. /\ up /\ key' = key /\ minted' \in Nat /\ enqueued' \in Nat /\ enqueued' >= enqueued
        /\ holds' \in [Devices -> Cloud!Certificates \union {None}]
        /\ delivered' \in [Devices -> Seq(Nat)]
    BY <1>3, <1>f, <2>t DEF Types, Cloud!DrainCommands, Cloud!Drained
  <2> QED
    BY <2>2, <2>3, <2>4, <2>5, <2>6, <2>7 DEF Serves
<1>4. ASSUME NEW d \in Devices, NEW sample \in Samples,
             Cloud!IngestTelemetry(d, sample, outcome)
      PROVE  \E s : Serves(s, outcome)
  <2> DEFINE s == [mem EXCEPT !.shadow[d] = sample]
  <2>1. /\ s.ca = mem.ca /\ s.registry = mem.registry /\ s.certs = mem.certs
        /\ s.shadow = [mem.shadow EXCEPT ![d] = sample] /\ s.queue = mem.queue
        /\ s.firmware = mem.firmware /\ s.rollouts = mem.rollouts
    BY <1>0 DEF Cloud!State
  <2>t. [mem.shadow EXCEPT ![d] = sample] \in [Devices -> Samples \union {None}]
    BY <1>f
  <2>2. s \in Cloud!State
    BY <1>0, <2>t, Updated
  <2>3. Cloud!Persist(s, outcome)
    BY <1>4 DEF Cloud!IngestTelemetry
  <2> HIDE DEF s
  <2>4. Cloud!CarriesOn(mem, s)
    BY <1>0, <1>4, <1>m, <1>f, <2>1, NoneAssumption DEF Cloud!CarriesOn, Certified, Cloud!IngestTelemetry
  <2>5. Certified(s)
    BY <1>4, <1>m, <1>f, <2>1 DEF Certified, Cloud!IngestTelemetry
  <2>6. \A e \in Devices : HandsOut(e, s, outcome) /\ Moves(e, s, outcome)
    BY <1>4, <1>m, <1>f, <2>1 DEF HandsOut, Moves, Types, Cloud!IngestTelemetry
  <2>7. /\ up /\ key' = key /\ minted' \in Nat /\ enqueued' \in Nat /\ enqueued' >= enqueued
        /\ holds' \in [Devices -> Cloud!Certificates \union {None}]
        /\ delivered' \in [Devices -> Seq(Nat)]
    BY <1>4, <1>f, <2>t DEF Types, Cloud!IngestTelemetry
  <2> QED
    BY <2>2, <2>3, <2>4, <2>5, <2>6, <2>7 DEF Serves
<1>5. ASSUME NEW b \in Builds, Cloud!PublishFirmware(b, outcome)
      PROVE  \E s : Serves(s, outcome)
  <2> DEFINE s == [mem EXCEPT !.firmware = @ \union {b}]
  <2>1. /\ s.ca = mem.ca /\ s.registry = mem.registry /\ s.certs = mem.certs
        /\ s.shadow = mem.shadow /\ s.queue = mem.queue
        /\ s.firmware = mem.firmware \union {b} /\ s.rollouts = mem.rollouts
    BY <1>0 DEF Cloud!State
  <2>t. mem.firmware \union {b} \in SUBSET Builds
    BY <1>f
  <2>2. s \in Cloud!State
    BY <1>0, <2>t, Updated
  <2>3. Cloud!Persist(s, outcome)
    BY <1>5 DEF Cloud!PublishFirmware
  <2> HIDE DEF s
  <2>4. Cloud!CarriesOn(mem, s)
    BY <1>0, <1>5, <1>m, <1>f, <2>1 DEF Cloud!CarriesOn, Certified, Cloud!PublishFirmware
  <2>5. Certified(s)
    BY <1>5, <1>m, <1>f, <2>1 DEF Certified, Cloud!PublishFirmware
  <2>6. \A e \in Devices : HandsOut(e, s, outcome) /\ Moves(e, s, outcome)
    BY <1>5, <1>m, <1>f, <2>1 DEF HandsOut, Moves, Types, Cloud!PublishFirmware
  <2>7. /\ up /\ key' = key /\ minted' \in Nat /\ enqueued' \in Nat /\ enqueued' >= enqueued
        /\ holds' \in [Devices -> Cloud!Certificates \union {None}]
        /\ delivered' \in [Devices -> Seq(Nat)]
    BY <1>5, <1>f, <2>t DEF Types, Cloud!PublishFirmware
  <2> QED
    BY <2>2, <2>3, <2>4, <2>5, <2>6, <2>7 DEF Serves
<1>6. ASSUME NEW r \in Rollouts, Cloud!MoveRollout(r, outcome)
      PROVE  \E s : Serves(s, outcome)
  <2> DEFINE s == [mem EXCEPT !.rollouts[r] = @ + 1]
  <2>1. /\ s.ca = mem.ca /\ s.registry = mem.registry /\ s.certs = mem.certs
        /\ s.shadow = mem.shadow /\ s.queue = mem.queue
        /\ s.firmware = mem.firmware /\ s.rollouts = [mem.rollouts EXCEPT ![r] = @ + 1]
    BY <1>0 DEF Cloud!State
  <2>t. [mem.rollouts EXCEPT ![r] = @ + 1] \in [Rollouts -> Nat]
    BY <1>f
  <2>2. s \in Cloud!State
    BY <1>0, <2>t, Updated
  <2>3. Cloud!Persist(s, outcome)
    BY <1>6 DEF Cloud!MoveRollout
  <2> HIDE DEF s
  <2>4. Cloud!CarriesOn(mem, s)
    BY <1>0, <1>6, <1>m, <1>f, <2>1 DEF Cloud!CarriesOn, Certified, Cloud!MoveRollout
  <2>5. Certified(s)
    BY <1>6, <1>m, <1>f, <2>1 DEF Certified, Cloud!MoveRollout
  <2>6. \A e \in Devices : HandsOut(e, s, outcome) /\ Moves(e, s, outcome)
    BY <1>6, <1>m, <1>f, <2>1 DEF HandsOut, Moves, Types, Cloud!MoveRollout
  <2>7. /\ up /\ key' = key /\ minted' \in Nat /\ enqueued' \in Nat /\ enqueued' >= enqueued
        /\ holds' \in [Devices -> Cloud!Certificates \union {None}]
        /\ delivered' \in [Devices -> Seq(Nat)]
    BY <1>6, <1>f, <2>t DEF Types, Cloud!MoveRollout
  <2> QED
    BY <2>2, <2>3, <2>4, <2>5, <2>6, <2>7 DEF Serves
<1>7. ASSUME NEW d \in Devices, Cloud!ProvisionDevice(d, outcome)
      PROVE  \E s : Serves(s, outcome)
  <2> DEFINE s == [mem EXCEPT !.registry = @ \union {d}, !.certs[d] = <<mem.ca, minted + 1>>]
  <2>1. /\ s.ca = mem.ca /\ s.registry = mem.registry \union {d} /\ s.certs = [mem.certs EXCEPT ![d] = <<mem.ca, minted + 1>>]
        /\ s.shadow = mem.shadow /\ s.queue = mem.queue
        /\ s.firmware = mem.firmware /\ s.rollouts = mem.rollouts
    BY <1>0 DEF Cloud!State
  <2>t. /\ mem.registry \union {d} \in SUBSET Devices
        /\ <<mem.ca, minted + 1>> \in Cloud!Certificates
        /\ [mem.certs EXCEPT ![d] = <<mem.ca, minted + 1>>]
             \in [Devices -> Cloud!Certificates \union {None}]
    BY <1>f DEF Types, Cloud!Certificates
  <2>u. <<mem.ca, minted + 1>> # None
    BY <2>t, NoneAssumption DEF Cloud!Certificates
  <2>2. s \in Cloud!State
    <3>1. [mem EXCEPT !.registry = mem.registry \union {d}] \in Cloud!State
      BY <1>0, <2>t, Updated
    <3> QED
      BY <1>0, <2>t, <3>1, Updated DEF Cloud!State
  <2>3. Cloud!Persist(s, outcome)
    BY <1>7 DEF Cloud!ProvisionDevice, Cloud!Provisionable
  <2> HIDE DEF s
  <2>4. Cloud!CarriesOn(mem, s)
    BY <1>0, <1>7, <1>m, <1>f, <2>1 DEF Cloud!CarriesOn, Certified, Cloud!ProvisionDevice, Cloud!Provisionable
  <2>5. Certified(s)
    BY <1>7, <1>m, <1>f, <2>1 DEF Certified, Cloud!ProvisionDevice, Cloud!Provisionable
  <2>6. \A e \in Devices : HandsOut(e, s, outcome) /\ Moves(e, s, outcome)
    BY <1>7, <1>m, <1>f, <2>1, <2>u DEF HandsOut, Moves, Types, Certified, Cloud!ProvisionDevice, Cloud!Provisionable
  <2>7. /\ up /\ key' = key /\ minted' \in Nat /\ enqueued' \in Nat /\ enqueued' >= enqueued
        /\ holds' \in [Devices -> Cloud!Certificates \union {None}]
        /\ delivered' \in [Devices -> Seq(Nat)]
    BY <1>7, <1>f, <2>t DEF Types, Cloud!ProvisionDevice, Cloud!Provisionable
  <2> QED
    BY <2>2, <2>3, <2>4, <2>5, <2>6, <2>7 DEF Serves
<1> QED
  BY <1>1, <1>2, <1>3, <1>4, <1>5, <1>6, <1>7 DEF Cloud!Request

--------------------------------------------------------------------------------
(* The state of a new service has its type. *)
LEMMA FreshState ==
    ASSUME NEW n \in Nat
    PROVE  Cloud!Fresh(n) \in Cloud!State
<1>1. <<>> \in Seq(Nat)
  OBVIOUS
<1> QED
  BY <1>1 DEF Cloud!Fresh, Cloud!State

(* What whole saves make of memory, file and answer. *)
LEMMA Persisted ==
    ASSUME WholeSaves, NEW outcome \in Outcomes, NEW s, Serves(s, outcome)
    PROVE  /\ up' \in BOOLEAN /\ mem' \in Cloud!State /\ (up' => mem' = s)
           /\ saved' = {s} \/ saved' = saved
           /\ acked' = {s} \/ acked' = acked
           /\ InPlay' \subseteq saved \union {s}
           /\ outcome = "replied" => saved' = {s} /\ InPlay' = {s}
           /\ acked' # acked => outcome = "replied"
<1>1. outcome \notin Cloud!Torn
  BY DEF WholeSaves
<1>2. Cloud!Persist(s, outcome) /\ s \in Cloud!State
  BY DEF Serves
<1>3. /\ up' \in BOOLEAN /\ mem' \in Cloud!State /\ (up' => mem' = s)
      /\ saved' = {s} \/ saved' = saved
      /\ acked' = {s} \/ acked' = acked
      /\ outcome = "replied" => saved' = {s} /\ up'
      /\ acked' # acked => outcome = "replied"
  BY <1>1, <1>2, FreshState DEF Cloud!Persist, Cloud!Written, Cloud!Killed
<1> QED
  BY <1>3 DEF InPlay

(* A request keeps the types, *)
LEMMA ServesTypes ==
    ASSUME WholeSaves, Types, NEW outcome \in Outcomes, NEW s, Serves(s, outcome)
    PROVE  Types'
<1>1. /\ up' \in BOOLEAN /\ mem' \in Cloud!State
      /\ saved' = {s} \/ saved' = saved
      /\ acked' = {s} \/ acked' = acked
  BY Persisted
<1> QED
  BY <1>1 DEF Types, Serves

(* and the certificates where they are. *)
LEMMA ServesCert ==
    ASSUME WholeSaves, Types, CertInv, NEW outcome \in Outcomes, NEW s, Serves(s, outcome)
    PROVE  CertInv'
<1>1. up /\ mem \in InPlay /\ saved \subseteq InPlay
  BY DEF Serves, InPlay
<1>2. OneFile'
  BY Persisted DEF CertInv, OneFile
<1>3. \A t \in InPlay' : Certified(t)
  BY <1>1, Persisted DEF CertInv, Serves
<1>4. ASSUME up', NEW t \in saved', NEW d \in Devices, t.certs[d] # None
      PROVE  mem'.certs[d] = t.certs[d]
  <2>1. mem' = s /\ (t = s \/ t \in saved)
    BY <1>4, Persisted
  <2>2. mem.certs[d] # None => s.certs[d] = mem.certs[d]
    BY DEF Serves, Cloud!CarriesOn
  <2>3. t \in saved => mem.certs[d] = t.certs[d]
    BY <1>1, <1>4 DEF CertInv
  <2> QED
    BY <1>4, <2>1, <2>2, <2>3
<1>5. ASSUME NEW d \in Devices, holds'[d] # None
      PROVE  saved' # {} /\ \A t \in InPlay' : Held(d, t)'
  <2>1. CASE holds'[d] = holds[d]
    <3>1. saved # {} /\ \A t \in InPlay : Held(d, t)
      BY <1>5, <2>1 DEF CertInv
    <3>2. s.certs[d] = holds[d] /\ holds[d][1] = s.ca
      BY <1>1, <1>5, <2>1, <3>1 DEF Held, Serves, Cloud!CarriesOn
    <3> QED
      BY <1>1, <2>1, <3>1, <3>2, Persisted DEF Held
  <2>2. CASE holds'[d] # holds[d]
    <3>1. outcome = "replied" /\ s.certs[d] = holds'[d] /\ holds'[d][1] = s.ca
      BY <2>2 DEF Serves, HandsOut
    <3>2. saved' = {s} /\ InPlay' = {s}
      BY <3>1, Persisted
    <3> QED
      BY <3>1, <3>2 DEF Held
  <2> QED
    BY <2>1, <2>2
<1> QED
  BY <1>2, <1>3, <1>4, <1>5 DEF CertInv

(* A start restores the file, or begins with a new CA where there is none  *)
(* and nobody was told anything yet.                                       *)
LEMMA StartEffect ==
    ASSUME Types, CertInv, NEW k \in Keys, Cloud!Start(k)
    PROVE  /\ Types' /\ CertInv' /\ UNCHANGED <<saved, acked, holds, delivered, enqueued>>
           /\ saved = {} => \A d \in Devices : mem'.queue[d] = <<>>
           /\ saved # {} => \E s \in saved : mem' = Cloud!Restored(s, k)
<1>1. up' = TRUE /\ key' = k /\ UNCHANGED <<saved, acked, holds, delivered, enqueued>>
  BY DEF Cloud!Start
<1>2. CASE saved = {} /\ minted' = minted + 1 /\ mem' = Cloud!Fresh(minted')
  <2>1. mem' \in Cloud!State /\ minted' \in Nat
    BY <1>2, FreshState DEF Types
  <2>2. \A d \in Devices : mem'.certs[d] = None /\ mem'.queue[d] = <<>>
    BY <1>2 DEF Cloud!Fresh
  <2>3. \A d \in Devices : holds[d] = None
    BY <1>2 DEF CertInv
  <2> QED
    BY <1>1, <1>2, <2>1, <2>2, <2>3 DEF Types, CertInv, OneFile, InPlay, Certified
<1>3. CASE (\E s \in saved : mem' = Cloud!Restored(s, key')) /\ minted' = minted
  <2>1. PICK s \in saved : mem' = Cloud!Restored(s, k)
    BY <1>1, <1>3
  <2>2. s \in Cloud!State
    BY DEF Types
  <2>3. mem'.ca = s.ca /\ mem'.registry = s.registry /\ mem'.certs = s.certs
    BY <2>1, <2>2 DEF Cloud!Restored, Cloud!State
  <2>4. mem' \in Cloud!State
    <3>1. {b \in s.firmware : SignedBy[b] = k} \in SUBSET Builds
      BY <2>2, Fields
    <3> QED
      BY <2>1, <2>2, <3>1, Updated DEF Cloud!Restored
  <2>5. saved = {s}
    BY DEF CertInv, OneFile
  <2>6. InPlay' = {s, mem'} /\ s \in InPlay
    BY <1>1, <2>5 DEF InPlay
  <2> QED
    BY <1>1, <1>3, <2>1, <2>3, <2>4, <2>5, <2>6 DEF Types, CertInv, OneFile, Certified, Held
<1> QED
  BY <1>2, <1>3 DEF Cloud!Start, Cloud!StartEmpty, Cloud!StartRestored

(* The end of the process loses nothing that is in the file. *)
LEMMA StopEffect ==
    ASSUME Types, CertInv, Cloud!Stop
    PROVE  /\ Types' /\ CertInv' /\ UNCHANGED <<saved, acked, holds, delivered, enqueued>>
           /\ InPlay' \subseteq InPlay
<1>1. mem' \in Cloud!State
  BY FreshState DEF Cloud!Stop
<1>2. InPlay' = saved
  BY DEF InPlay, Cloud!Stop
<1>3. saved \subseteq InPlay
  BY DEF InPlay
<1> QED
  BY <1>1, <1>2, <1>3 DEF Cloud!Stop, Types, CertInv, OneFile, Held

--------------------------------------------------------------------------------
(* A new command is behind all others. *)
LEMMA AppendOrdered ==
    ASSUME NEW p \in Seq(Nat), NEW q \in Seq(Nat), NEW n \in Nat,
           Increasing(q), UpTo(q, n), UpTo(p, n), Before(p, q)
    PROVE  LET r == Append(q, n + 1) IN Increasing(r) /\ UpTo(r, n + 1) /\ Before(p, r)
<1> DEFINE r == Append(q, n + 1)
<1>1. /\ Len(r) = Len(q) + 1 /\ Len(q) \in Nat /\ Len(p) \in Nat
      /\ \A i \in 1..Len(q) : r[i] = q[i] /\ q[i] \in Nat
      /\ r[Len(q) + 1] = n + 1
      /\ \A i \in 1..Len(p) : p[i] \in Nat
  OBVIOUS
<1> HIDE DEF r
<1>2. \A i \in 1..Len(r) : i \in 1..Len(q) \/ i = Len(q) + 1
  BY <1>1
<1>3. ASSUME NEW i \in 1..Len(r), NEW j \in 1..Len(r), i < j
      PROVE  r[i] < r[j]
  <2>1. i \in 1..Len(q)
    BY <1>1, <1>3
  <2>2. CASE j \in 1..Len(q)
    BY <1>1, <1>3, <2>1, <2>2 DEF Increasing
  <2>3. CASE j = Len(q) + 1
    <3>1. q[i] <= n
      BY <2>1 DEF UpTo
    <3>2. r[i] = q[i] /\ q[i] \in Nat /\ r[j] = n + 1
      BY <1>1, <2>1, <2>3
    <3> QED
      BY <3>1, <3>2
  <2> QED
    BY <1>2, <2>2, <2>3
<1>4. UpTo(r, n + 1)
  <2> SUFFICES ASSUME NEW i \in 1..Len(r) PROVE r[i] <= n + 1
    BY DEF UpTo
  <2>1. CASE i \in 1..Len(q)
    <3>1. q[i] <= n
      BY <2>1 DEF UpTo
    <3> QED
      BY <1>1, <2>1, <3>1
  <2>2. CASE i = Len(q) + 1
    BY <1>1, <2>2
  <2> QED
    BY <1>2, <2>1, <2>2
<1>5. Before(p, r)
  <2> SUFFICES ASSUME NEW i \in 1..Len(p), NEW j \in 1..Len(r) PROVE p[i] < r[j]
    BY DEF Before
  <2>1. CASE j \in 1..Len(q)
    <3>1. p[i] < q[j]
      BY <2>1 DEF Before
    <3> QED
      BY <1>1, <2>1, <3>1
  <2>2. CASE j = Len(q) + 1
    <3>1. p[i] <= n /\ p[i] \in Nat
      BY <1>1 DEF UpTo
    <3> QED
      BY <1>1, <2>2, <3>1
  <2> QED
    BY <1>2, <2>1, <2>2
<1> QED
  BY <1>3, <1>4, <1>5 DEF Increasing, r

(* What was sent and what is drained are in order one behind the other.    *)
LEMMA ConcatOrdered ==
    ASSUME NEW p \in Seq(Nat), NEW q \in Seq(Nat), NEW n \in Nat,
           Increasing(p), UpTo(p, n), Increasing(q), UpTo(q, n), Before(p, q)
    PROVE  Increasing(p \o q) /\ UpTo(p \o q, n)
<1> DEFINE r == p \o q
<1>1. /\ Len(r) = Len(p) + Len(q) /\ Len(q) \in Nat /\ Len(p) \in Nat
      /\ \A i \in 1..Len(p) : r[i] = p[i] /\ p[i] \in Nat
      /\ \A i \in 1..Len(q) : q[i] \in Nat
      /\ \A i \in 1..Len(r) : i \notin 1..Len(p) => i - Len(p) \in 1..Len(q) /\ r[i] = q[i - Len(p)]
  OBVIOUS
<1> HIDE DEF r
<1>2. ASSUME NEW i \in 1..Len(r), NEW j \in 1..Len(r), i < j
      PROVE  r[i] < r[j]
  <2>1. CASE j \in 1..Len(p)
    <3>1. i \in 1..Len(p) /\ r[i] = p[i] /\ r[j] = p[j]
      BY <1>1, <1>2, <2>1
    <3> QED
      BY <1>2, <2>1, <3>1 DEF Increasing
  <2>2. CASE j \notin 1..Len(p) /\ i \in 1..Len(p)
    <3>1. j - Len(p) \in 1..Len(q) /\ r[j] = q[j - Len(p)] /\ r[i] = p[i]
      BY <1>1, <2>2
    <3> QED
      BY <2>2, <3>1 DEF Before
  <2>3. CASE j \notin 1..Len(p) /\ i \notin 1..Len(p)
    <3>1. i - Len(p) < j - Len(p)
      BY <1>1, <1>2
    <3> QED
      BY <1>1, <2>3, <3>1 DEF Increasing
  <2> QED
    BY <2>1, <2>2, <2>3
<1>3. ASSUME NEW i \in 1..Len(r)
      PROVE  r[i] <= n
  BY <1>1 DEF UpTo
<1> QED
  BY <1>2, <1>3 DEF Increasing, UpTo, r

(* A request keeps the order of commands: one is added, all are drained    *)
(* and sent, drained and lost, or none moves.                              *)
LEMMA ServesCommands ==
    ASSUME WholeSaves, Types, CommandInv, NEW outcome \in Outcomes, NEW s, Serves(s, outcome)
    PROVE  CommandInv'
<1> SUFFICES ASSUME NEW d \in Devices
             PROVE  /\ Increasing(delivered'[d]) /\ UpTo(delivered'[d], enqueued')
                    /\ \A t \in InPlay' : Ordered(d, t.queue[d])'
  BY DEF CommandInv
<1> DEFINE p == delivered[d]
           q == mem.queue[d]
<1>1. /\ Increasing(p) /\ UpTo(p, enqueued)
      /\ \A t \in InPlay : Increasing(t.queue[d]) /\ UpTo(t.queue[d], enqueued) /\ Before(p, t.queue[d])
  BY DEF CommandInv, Ordered
<1>2. mem \in InPlay /\ saved \subseteq InPlay
  BY DEF InPlay, Serves
<1>3. /\ p \in Seq(Nat) /\ q \in Seq(Nat)
      /\ enqueued \in Nat /\ enqueued' \in Nat /\ enqueued <= enqueued'
  BY Fields DEF Types, Serves
<1>4. \A t \in saved : t.queue[d] \in Seq(Nat)
  BY Fields DEF Types
<1>5. \A r \in Seq(Nat) : UpTo(r, enqueued) => UpTo(r, enqueued')
  <2> SUFFICES ASSUME NEW r \in Seq(Nat), NEW i \in 1..Len(r), r[i] <= enqueued
               PROVE  r[i] <= enqueued'
    BY DEF UpTo
  <2>1. r[i] \in Nat
    OBVIOUS
  <2> QED
    BY <1>3, <2>1
<1>6. InPlay' \subseteq saved \union {s} /\ (outcome = "replied" => InPlay' = {s})
  BY Persisted
<1>7. UpTo(p, enqueued')
  BY <1>1, <1>3, <1>5
<1>8. \A t \in saved : Increasing(t.queue[d]) /\ UpTo(t.queue[d], enqueued') /\ Before(p, t.queue[d])
  BY <1>1, <1>2, <1>4, <1>5
<1>9. CASE s.queue[d] = q /\ delivered'[d] = p
  <2>1. UpTo(q, enqueued')
    BY <1>1, <1>2, <1>3, <1>5
  <2> QED
    BY <1>1, <1>2, <1>6, <1>7, <1>8, <1>9, <2>1 DEF Ordered
<1>10. CASE s.queue[d] = Append(q, enqueued + 1) /\ enqueued' = enqueued + 1 /\ delivered'[d] = p
  <2>1. Increasing(s.queue[d]) /\ UpTo(s.queue[d], enqueued') /\ Before(p, s.queue[d])
    BY <1>1, <1>2, <1>3, <1>10, AppendOrdered
  <2> QED
    BY <1>1, <1>6, <1>7, <1>8, <1>10, <2>1 DEF Ordered
<1>11. CASE s.queue[d] = <<>> /\ outcome # "replied" /\ delivered'[d] = p
  <2>1. Increasing(<<>>) /\ UpTo(<<>>, enqueued') /\ Before(p, <<>>)
    BY DEF Increasing, UpTo, Before
  <2> QED
    BY <1>1, <1>6, <1>7, <1>8, <1>11, <2>1 DEF Ordered
<1>12. CASE s.queue[d] = <<>> /\ outcome = "replied" /\ delivered'[d] = p \o q
  <2>1. Increasing(<<>>) /\ UpTo(<<>>, enqueued') /\ Before(p \o q, <<>>)
    BY DEF Increasing, UpTo, Before
  <2>2. Increasing(p \o q) /\ UpTo(p \o q, enqueued) /\ p \o q \in Seq(Nat)
    BY <1>1, <1>2, <1>3, ConcatOrdered
  <2>3. UpTo(p \o q, enqueued')
    BY <1>5, <2>2
  <2> QED
    BY <1>6, <1>12, <2>1, <2>2, <2>3 DEF Ordered
<1> QED
  BY <1>9, <1>10, <1>11, <1>12 DEF Serves, Moves

(* So does a start. *)
LEMMA StartCommands ==
    ASSUME Types, CertInv, CommandInv, NEW k \in Keys, Cloud!Start(k)
    PROVE  CommandInv'
<1> SUFFICES ASSUME NEW d \in Devices
             PROVE  /\ Increasing(delivered'[d]) /\ UpTo(delivered'[d], enqueued')
                    /\ \A t \in InPlay' : Ordered(d, t.queue[d])'
  BY DEF CommandInv
<1>1. UNCHANGED <<saved, delivered, enqueued>>
  BY DEF Cloud!Start
<1>2. /\ Increasing(delivered[d]) /\ UpTo(delivered[d], enqueued)
      /\ \A t \in InPlay : Ordered(d, t.queue[d])
  BY DEF CommandInv
<1>3. InPlay' \subseteq InPlay \union {mem'}
  BY <1>1 DEF InPlay
<1>4. CASE saved = {}
  <2>1. mem'.queue[d] = <<>>
    BY <1>4, StartEffect
  <2>2. Ordered(d, <<>>)
    BY DEF Ordered, Increasing, UpTo, Before
  <2> QED
    BY <1>1, <1>2, <1>3, <2>1, <2>2 DEF Ordered
<1>5. CASE saved # {}
  <2>1. PICK s \in saved : mem' = Cloud!Restored(s, k)
    BY <1>5, StartEffect
  <2>2. mem'.queue = s.queue
    BY <2>1 DEF Cloud!Restored, Types, Cloud!State
  <2>3. s \in InPlay
    BY DEF InPlay
  <2> QED
    BY <1>1, <1>2, <1>3, <2>2, <2>3 DEF Ordered
<1> QED
  BY <1>4, <1>5

--------------------------------------------------------------------------------
(* To carry on is transitive, *)
LEMMA CarriesTransitive ==
    ASSUME NEW r \in Cloud!State, NEW s \in Cloud!State, NEW t \in Cloud!State,
           Cloud!CarriesOn(r, s), Cloud!CarriesOn(s, t)
    PROVE  Cloud!CarriesOn(r, t)
<1>1. \A c \in Rollouts : r.rollouts[c] \in Nat /\ s.rollouts[c] \in Nat /\ t.rollouts[c] \in Nat
  BY Fields
<1> QED
  BY <1>1 DEF Cloud!CarriesOn

(* and reflexive. *)
LEMMA CarriesSelf ==
    ASSUME NEW r \in Cloud!State
    PROVE  Cloud!CarriesOn(r, r)
<1>1. \A c \in Rollouts : r.rollouts[c] \in Nat
  BY Fields
<1> QED
  BY <1>1 DEF Cloud!CarriesOn

(* A request takes nothing back that was acknowledged. *)
LEMMA ServesAck ==
    ASSUME WholeSaves, Types, AckInv, NEW outcome \in Outcomes, NEW s, Serves(s, outcome)
    PROVE  AckInv'
<1>1. mem \in InPlay /\ saved \subseteq InPlay /\ mem \in Cloud!State /\ s \in Cloud!State
  BY DEF InPlay, Serves, Types
<1>2. \A r \in acked : r \in Cloud!State /\ Cloud!CarriesOn(r, s)
  BY <1>1, CarriesTransitive DEF AckInv, Types, Serves
<1>3. Cloud!CarriesOn(s, s)
  BY <1>1, CarriesSelf
<1>4. /\ saved' = {s} \/ saved' = saved
      /\ acked' = {s} \/ acked' = acked
      /\ InPlay' \subseteq saved \union {s}
      /\ outcome = "replied" => saved' = {s} /\ InPlay' = {s}
      /\ acked' # acked => outcome = "replied"
  BY Persisted
<1>5. CASE acked' = acked
  BY <1>1, <1>2, <1>4, <1>5 DEF AckInv
<1>6. CASE acked' # acked
  BY <1>3, <1>4, <1>6 DEF AckInv
<1> QED
  BY <1>5, <1>6

(* Neither does a start with the same key: no build is dropped. *)
LEMMA StartAck ==
    ASSUME OneKeyEver, Types, CertInv, AckInv, NEW k \in Keys, Cloud!Start(k)
    PROVE  AckInv'
<1>1. UNCHANGED <<saved, acked>>
  BY DEF Cloud!Start
<1>2. CASE saved = {}
  BY <1>1, <1>2 DEF AckInv
<1>3. CASE saved # {}
  <2>1. PICK s \in saved : mem' = Cloud!Restored(s, k)
    BY <1>3, StartEffect
  <2>2. s \in Cloud!State
    BY DEF Types
  <2>3. {b \in s.firmware : SignedBy[b] = k} = s.firmware
    BY <2>2, Fields DEF OneKeyEver
  <2>4. /\ mem'.ca = s.ca /\ mem'.registry = s.registry /\ mem'.certs = s.certs
        /\ mem'.shadow = s.shadow /\ mem'.firmware = s.firmware /\ mem'.rollouts = s.rollouts
    BY <2>1, <2>2, <2>3 DEF Cloud!Restored, Cloud!State
  <2>5. \A r \in acked : Cloud!CarriesOn(r, s) => Cloud!CarriesOn(r, mem')
    BY <2>4 DEF Cloud!CarriesOn
  <2>6. InPlay' \subseteq InPlay \union {mem'} /\ s \in InPlay
    BY <1>1 DEF InPlay
  <2> QED
    BY <1>1, <2>5, <2>6 DEF AckInv
<1> QED
  BY <1>2, <1>3

--------------------------------------------------------------------------------
(* A device that was sent an identity is never sent another. *)
LEMMA ServesHolds ==
    ASSUME NEW outcome, NEW s, Serves(s, outcome)
    PROVE  \A d \in Devices : holds[d] # None => holds'[d] = holds[d]
BY DEF Serves, HandsOut

(* What a board had agrees as long as its identity stays. *)
LEMMA OthersKept ==
    ASSUME BoardInv, \A d \in Devices : holds[d] # None => holds'[d] = holds[d],
           NEW d \in Devices, pc'[d] = pc[d], nvs'[d] = nvs[d], ram'[d] = ram[d]
    PROVE  BoardOk(d)'
BY DEF BoardInv, BoardOk, Agrees, Ready

(* A board's own steps: its slots stay typed and in agreement, and what it *)
(* has in full in NVS stays or is erased.                                  *)
Lasts == \A d \in Devices : Complete(nvs[d]) => nvs'[d] \in {nvs[d], Nothing}

BoardResult == BoardTypes' /\ BoardInv' /\ Lasts

(* A step of one board: it is enough to look at that board. *)
LEMMA OneBoard ==
    ASSUME BoardTypes, BoardInv, NEW d \in Devices,
           \A e \in Devices : holds[e] # None => holds'[e] = holds[e],
           NEW to \in Phases, NEW n \in Slots, NEW m \in Slots,
           pc' = [pc EXCEPT ![d] = to], nvs' = [nvs EXCEPT ![d] = n], ram' = [ram EXCEPT ![d] = m],
           BoardOk(d)', Complete(nvs[d]) => n \in {nvs[d], Nothing}
    PROVE  BoardResult
<1>1. BoardTypes'
  BY DEF BoardTypes
<1>2. ASSUME NEW e \in Devices
      PROVE  BoardOk(e)' /\ (Complete(nvs[e]) => nvs'[e] \in {nvs[e], Nothing})
  <2>1. CASE e = d
    BY <2>1 DEF BoardTypes
  <2>2. CASE e # d
    <3>1. pc'[e] = pc[e] /\ nvs'[e] = nvs[e] /\ ram'[e] = ram[e]
      BY <2>2 DEF BoardTypes
    <3> QED
      BY <3>1, OthersKept
  <2> QED
    BY <2>1, <2>2
<1> QED
  BY <1>1, <1>2 DEF BoardResult, BoardInv, Lasts

(* The slots of a board, the empty one among them. *)
LEMMA SlotFacts ==
    /\ Nothing \in Slots /\ Nothing.identity = None /\ Nothing.ca = None
    /\ \A m \in Slots :
          /\ m.identity \in Cloud!Certificates \union {None} /\ m.ca \in Nat \union {None}
          /\ m = [identity |-> m.identity, ca |-> m.ca]
          /\ \A i \in Cloud!Certificates \union {None} :
                /\ [m EXCEPT !.identity = i] = [identity |-> i, ca |-> m.ca]
                /\ [m EXCEPT !.identity = i] \in Slots
          /\ \A c \in Nat \union {None} :
                /\ [m EXCEPT !.ca = c] = [identity |-> m.identity, ca |-> c]
                /\ [m EXCEPT !.ca = c] \in Slots
BY DEF Slots, Nothing

(* The steps that leave the cloud alone. *)
LEMMA BoardStep ==
    ASSUME Types, BoardTypes, CertInv, BoardInv, NEW d \in Devices, UNCHANGED cloud,
           \/ PowerOn(d) \/ PowerLoss(d) \/ WifiUp(d) \/ WifiFails(d) \/ PostFails(d)
           \/ GetCa(d) \/ GetCaFails(d) \/ StoreFails(d) \/ Verify(d)
           \/ \E stored \in BOOLEAN : StoreIdentity(d, stored) \/ StoreCa(d, stored)
    PROVE  BoardResult
<1> DEFINE n == nvs[d]
           m == ram[d]
<1>1. n \in Slots /\ m \in Slots
  BY DEF BoardTypes
<1>2. /\ \A e \in Devices : holds[e] # None => holds'[e] = holds[e]
      /\ holds' = holds
  BY DEF cloud
<1>3. BoardOk(d)
  BY DEF BoardInv
<1>4. nvs = [nvs EXCEPT ![d] = n] /\ ram = [ram EXCEPT ![d] = m]
  BY DEF BoardTypes
<1>5. /\ Agrees(d, n) /\ Agrees(d, m) /\ Agrees(d, Nothing)
      /\ pc[d] = "get_ca" => m.identity # None
      /\ pc[d] \in {"store_identity", "store_ca", "verify"} => Ready(d, m)
  BY <1>3, SlotFacts DEF BoardOk, Agrees
<1>6. \A slot : (Agrees(d, slot) => Agrees(d, slot)') /\ (Ready(d, slot) => Ready(d, slot)')
  BY <1>2 DEF Agrees, Ready
(* It is enough to say what became of this board. *)
<1>7. ASSUME NEW to \in Phases, NEW n1 \in Slots, NEW m1 \in Slots,
             pc' = [pc EXCEPT ![d] = to], nvs' = [nvs EXCEPT ![d] = n1], ram' = [ram EXCEPT ![d] = m1],
             Agrees(d, n1), Agrees(d, m1),
             to = "get_ca" => m1.identity # None,
             to \in {"store_identity", "store_ca", "verify"} => Ready(d, m1),
             to # "not_verified",
             Complete(n) => n1 \in {n, Nothing}
      PROVE  BoardResult
  <2>1. pc'[d] = to /\ nvs'[d] = n1 /\ ram'[d] = m1
    BY <1>7 DEF BoardTypes
  <2>2. BoardOk(d)'
    BY <1>2, <1>7, <2>1 DEF BoardOk, Agrees, Ready
  <2> QED
    BY <1>2, <1>7, <2>2, OneBoard
<1>8. ASSUME PowerOn(d) PROVE BoardResult
  <2>1. PICK n1 \in {n, Nothing} : nvs' = [nvs EXCEPT ![d] = n1]
    BY <1>4, <1>8 DEF PowerOn
  <2>2. n1 \in Slots /\ Agrees(d, n1) /\ nvs'[d] = n1
    BY <1>1, <1>5, <2>1, SlotFacts DEF BoardTypes
  <2>3. CASE Complete(n1)
    <3>1. pc' = [pc EXCEPT ![d] = "verify"] /\ ram' = [ram EXCEPT ![d] = n1]
      BY <1>8, <2>2, <2>3 DEF PowerOn, Goto
    <3>2. Ready(d, n1)
      BY <2>2, <2>3 DEF Complete, Agrees, Ready
    <3> QED
      BY <1>7, <2>1, <2>2, <3>1, <3>2 DEF Phases
  <2>4. CASE ~Complete(n1)
    <3>1. pc' = [pc EXCEPT ![d] = "connect"] /\ ram' = [ram EXCEPT ![d] = m]
      BY <1>4, <1>8, <2>2, <2>4 DEF PowerOn, Goto
    <3> QED
      BY <1>1, <1>5, <1>7, <2>1, <2>2, <3>1 DEF Phases
  <2> QED
    BY <2>3, <2>4
<1>9. ASSUME PowerLoss(d) \/ WifiFails(d) \/ PostFails(d) \/ GetCaFails(d) PROVE BoardResult
  <2>1. PICK to \in {"off", "stopped"} : pc' = [pc EXCEPT ![d] = to]
    BY <1>9 DEF PowerLoss, WifiFails, PostFails, GetCaFails, GiveUp, Goto
  <2>2. nvs' = [nvs EXCEPT ![d] = n] /\ ram' = [ram EXCEPT ![d] = Nothing]
    BY <1>4, <1>9 DEF PowerLoss, WifiFails, PostFails, GetCaFails, GiveUp, Goto
  <2> QED
    BY <1>1, <1>5, <1>7, <2>1, <2>2, SlotFacts DEF Phases
<1>10. ASSUME WifiUp(d) \/ StoreFails(d) \/ Verify(d) PROVE BoardResult
  <2>1. nvs' = [nvs EXCEPT ![d] = n] /\ ram' = [ram EXCEPT ![d] = m]
    BY <1>4, <1>10 DEF WifiUp, StoreFails, Verify
  <2>2. CASE WifiUp(d)
    BY <1>1, <1>5, <1>7, <2>1, <2>2 DEF WifiUp, Goto, Phases
  <2>3. CASE StoreFails(d)
    BY <1>1, <1>5, <1>7, <2>1, <2>3 DEF StoreFails, Goto, Phases
  <2>4. CASE Verify(d)
    <3>1. Ready(d, m)
      BY <1>5, <2>4 DEF Verify
    <3>2. pc' = [pc EXCEPT ![d] = "verified"]
      BY <2>4, <3>1 DEF Verify, Goto, Ready
    <3> QED
      BY <1>1, <1>5, <1>7, <2>1, <3>2 DEF Phases
  <2> QED
    BY <1>10, <2>2, <2>3, <2>4
<1>11. ASSUME GetCa(d) PROVE BoardResult
  <2> DEFINE m1 == [identity |-> m.identity, ca |-> mem.ca]
  <2>1. mem \in Cloud!State /\ mem \in InPlay
    BY <1>11 DEF GetCa, Types, InPlay
  <2>2. mem.ca \in Nat
    BY <2>1, Fields
  <2>3. m1 \in Slots
    BY <1>1, <2>2, SlotFacts DEF Slots
  <2>4. ram' = [ram EXCEPT ![d] = m1]
    <3>1. ram' = [ram EXCEPT ![d] = [m EXCEPT !.ca = mem.ca]]
      BY <1>11 DEF GetCa
    <3> QED
      BY <1>1, <2>2, <3>1, SlotFacts
  <2>5. m.identity = holds[d] /\ holds[d] # None
    BY <1>5, <1>11 DEF GetCa, Agrees
  <2>6. holds[d][1] = mem.ca
    BY <2>1, <2>5 DEF CertInv, Held
  <2>7. Ready(d, m1) /\ Agrees(d, m1)
    BY <2>5, <2>6 DEF Ready, Agrees
  <2>8. pc' = [pc EXCEPT ![d] = "store_identity"] /\ nvs' = [nvs EXCEPT ![d] = n]
    BY <1>4, <1>11 DEF GetCa, Goto
  <2> HIDE DEF m1
  <2> QED
    BY <1>1, <1>5, <1>7, <2>3, <2>4, <2>7, <2>8 DEF Phases
<1>12. ASSUME NEW stored \in BOOLEAN, StoreIdentity(d, stored) PROVE BoardResult
  <2> DEFINE n1 == IF stored THEN [identity |-> m.identity, ca |-> n.ca] ELSE n
  <2>1. Ready(d, m)
    BY <1>5, <1>12 DEF StoreIdentity
  <2>2. n1 \in Slots
    BY <1>1, SlotFacts DEF Slots
  <2>3. nvs' = [nvs EXCEPT ![d] = n1]
    <3>1. m.identity \in Cloud!Certificates \union {None}
      BY <1>1, SlotFacts
    <3>2. nvs' = IF stored THEN [nvs EXCEPT ![d] = [n EXCEPT !.identity = m.identity]] ELSE nvs
      BY <1>12 DEF StoreIdentity
    <3> QED
      BY <1>1, <1>4, <3>1, <3>2, SlotFacts
  <2>4. Agrees(d, n1)
    BY <1>5, <2>1 DEF Agrees, Ready
  <2>5. Complete(n) => n1 = n
    BY <1>1, <1>5, <2>1, SlotFacts DEF Complete, Agrees, Ready
  <2>6. pc' = [pc EXCEPT ![d] = "store_ca"] /\ ram' = [ram EXCEPT ![d] = m]
    BY <1>4, <1>12 DEF StoreIdentity, Goto
  <2> HIDE DEF n1
  <2> QED
    BY <1>1, <1>5, <1>7, <2>1, <2>2, <2>3, <2>4, <2>5, <2>6 DEF Phases
<1>13. ASSUME NEW stored \in BOOLEAN, StoreCa(d, stored) PROVE BoardResult
  <2> DEFINE n1 == IF stored THEN [identity |-> n.identity, ca |-> m.ca] ELSE n
  <2>1. Ready(d, m)
    BY <1>5, <1>13 DEF StoreCa
  <2>2. n1 \in Slots
    BY <1>1, SlotFacts DEF Slots
  <2>3. nvs' = [nvs EXCEPT ![d] = n1]
    <3>1. m.ca \in Nat \union {None}
      BY <1>1, SlotFacts
    <3>2. nvs' = IF stored THEN [nvs EXCEPT ![d] = [n EXCEPT !.ca = m.ca]] ELSE nvs
      BY <1>13 DEF StoreCa, CaToStore
    <3> QED
      BY <1>1, <1>4, <3>1, <3>2, SlotFacts
  <2>4. Agrees(d, n1)
    BY <1>5, <2>1 DEF Agrees, Ready
  <2>5. Complete(n) => n1 = n
    BY <1>1, <1>5, <2>1, SlotFacts DEF Complete, Agrees, Ready
  <2>6. pc' = [pc EXCEPT ![d] = "verify"] /\ ram' = [ram EXCEPT ![d] = m]
    BY <1>4, <1>13 DEF StoreCa, Goto
  <2> HIDE DEF n1
  <2> QED
    BY <1>1, <1>5, <1>7, <2>1, <2>2, <2>3, <2>4, <2>5, <2>6 DEF Phases
<1> QED
  BY <1>8, <1>9, <1>10, <1>11, <1>12, <1>13

(* POST /provision: the cloud takes it only of a board it has never sent   *)
(* an identity, which therefore has nothing in NVS or RAM yet.             *)
LEMMA PostStep ==
    ASSUME WholeSaves, Types, BoardTypes, CertInv, BoardInv, NEW d \in Devices,
           NEW outcome \in Outcomes, PostTaken(d, outcome), NEW s, Serves(s, outcome)
    PROVE  BoardResult
<1> DEFINE n == nvs[d]
           m == ram[d]
<1>1. n \in Slots /\ m \in Slots /\ nvs' = [nvs EXCEPT ![d] = n]
  BY DEF BoardTypes, PostTaken, GiveUp
<1>2. \A e \in Devices : holds[e] # None => holds'[e] = holds[e]
  BY ServesHolds
<1>3. holds[d] = None
  <2>1. up /\ d \notin mem.registry
    BY DEF PostTaken, Cloud!ProvisionDevice, Cloud!Provisionable
  <2>2. mem \in InPlay
    BY <2>1 DEF InPlay
  <2> QED
    BY <2>1, <2>2 DEF CertInv, Certified, Held
<1>4. n.identity = None /\ n.ca = None /\ m.identity = None /\ m.ca = None
  BY <1>3 DEF BoardInv, BoardOk, Agrees
<1>5. ~Complete(n)
  BY <1>4 DEF Complete
<1>6. CASE outcome = "replied"
  <2> DEFINE m1 == [identity |-> holds'[d], ca |-> m.ca]
  <2>1. holds'[d] = <<mem.ca, minted'>> /\ holds'[d] \in Cloud!Certificates /\ holds'[d] # None
    <3>1. holds' = [holds EXCEPT ![d] = <<mem.ca, minted'>>] /\ minted' = minted + 1
      BY <1>6 DEF PostTaken, Cloud!ProvisionDevice
    <3>2. mem.ca \in Nat /\ minted \in Nat /\ holds \in [Devices -> Cloud!Certificates \union {None}]
      BY Fields DEF Types
    <3> QED
      BY <3>1, <3>2, NoneAssumption DEF Cloud!Certificates
  <2>2. ram' = [ram EXCEPT ![d] = m1] /\ pc' = [pc EXCEPT ![d] = "get_ca"] /\ m1 \in Slots
    <3>1. ram' = [ram EXCEPT ![d] = [m EXCEPT !.identity = holds'[d]]]
      BY <1>6 DEF PostTaken
    <3>2. pc' = [pc EXCEPT ![d] = "get_ca"]
      BY <1>6 DEF PostTaken, Goto
    <3>3. [m EXCEPT !.identity = holds'[d]] = m1 /\ m1 \in Slots
      BY <1>1, <2>1, SlotFacts
    <3> QED
      BY <3>1, <3>2, <3>3
  <2>3. pc'[d] = "get_ca" /\ nvs'[d] = n /\ ram'[d] = m1
    BY <1>1, <2>2 DEF BoardTypes
  <2>4. BoardOk(d)'
    BY <1>4, <2>1, <2>3 DEF BoardOk, Agrees
  <2> HIDE DEF m1
  <2> QED
    BY <1>1, <1>2, <1>5, <2>2, <2>4, OneBoard DEF Phases
<1>7. CASE outcome # "replied"
  <2>1. pc' = [pc EXCEPT ![d] = "stopped"] /\ ram' = [ram EXCEPT ![d] = Nothing]
    BY <1>7 DEF PostTaken, GiveUp, Goto
  <2>2. pc'[d] = "stopped" /\ nvs'[d] = n /\ ram'[d] = Nothing
    BY <1>1, <2>1 DEF BoardTypes
  <2>3. BoardOk(d)'
    BY <1>4, <2>2, SlotFacts DEF BoardOk, Agrees
  <2> QED
    BY <1>1, <1>2, <1>5, <2>1, <2>3, SlotFacts, OneBoard DEF Phases
<1> QED
  BY <1>6, <1>7

(* The boards stay as they are while the cloud moves. *)
LEMMA BoardsWait ==
    ASSUME BoardTypes, BoardInv, UNCHANGED <<pc, nvs, ram>>,
           \A e \in Devices : holds[e] # None => holds'[e] = holds[e]
    PROVE  BoardResult
BY OthersKept DEF BoardResult, BoardTypes, BoardInv, Lasts

(* A certificate in the file is never replaced by another. *)
CertsLast ==
    \A d \in Devices, s \in saved, t \in saved' :
        s.certs[d] # None => t.certs[d] = s.certs[d]

(* No request replaces one. *)
LEMMA ServesCertsLast ==
    ASSUME WholeSaves, CertInv, NEW outcome \in Outcomes, NEW s, Serves(s, outcome)
    PROVE  CertsLast
<1> SUFFICES ASSUME NEW d \in Devices, NEW r \in saved, NEW t \in saved', r.certs[d] # None
             PROVE  t.certs[d] = r.certs[d]
  BY DEF CertsLast
<1>1. s.certs[d] = r.certs[d]
  BY DEF CertInv, Serves, Cloud!CarriesOn
<1>2. t = s \/ t = r
  BY Persisted DEF CertInv, OneFile
<1> QED
  BY <1>1, <1>2

--------------------------------------------------------------------------------
(* All of it. *)
Inv == Types /\ BoardTypes /\ CertInv /\ BoardInv /\ CommandInv

(* The invariant holds at first, *)
LEMMA Initially == Init => Inv /\ AckInv
<1> SUFFICES ASSUME Init
             PROVE  Inv /\ AckInv
  OBVIOUS
<1>1. /\ up = FALSE /\ key = NoKey /\ mem = Cloud!Fresh(0) /\ saved = {} /\ minted = 0 /\ enqueued = 0
      /\ acked = {} /\ holds = [d \in Devices |-> None] /\ delivered = [d \in Devices |-> <<>>]
      /\ pc = [d \in Devices |-> "off"]
      /\ nvs = [d \in Devices |-> Nothing] /\ ram = [d \in Devices |-> Nothing]
  BY DEF Init, Cloud!Init
<1>2. InPlay = {}
  BY <1>1 DEF InPlay
<1>3. Types
  <2>1. delivered \in [Devices -> Seq(Nat)]
    BY <1>1
  <2> QED
    BY <1>1, <2>1, FreshState DEF Types
<1>4. BoardTypes
  BY <1>1, SlotFacts DEF BoardTypes, Phases
<1>5. CertInv
  BY <1>1, <1>2 DEF CertInv, OneFile
<1>6. BoardInv
  BY <1>1, SlotFacts DEF BoardInv, BoardOk, Agrees
<1>7. CommandInv
  <2>1. Increasing(<<>>) /\ UpTo(<<>>, enqueued)
    BY DEF Increasing, UpTo
  <2>2. \A d \in Devices : delivered[d] = <<>>
    BY <1>1
  <2> QED
    BY <1>2, <2>1, <2>2 DEF CommandInv
<1> QED
  BY <1>1, <1>3, <1>4, <1>5, <1>6, <1>7 DEF Inv, AckInv

(* what a step does to it, *)
StepResult ==
    /\ Inv' /\ Lasts /\ CertsLast
    /\ OneKeyEver /\ AckInv => AckInv'

(* which every step does, *)
LEMMA Stepwise ==
    ASSUME WholeSaves, Inv, [Next]_vars
    PROVE  StepResult
<1> USE DEF Inv, StepResult
<1>1. ASSUME UNCHANGED cloud, BoardResult
      PROVE  StepResult
  <2>1. InPlay' = InPlay
    BY <1>1 DEF cloud, InPlay
  <2>2. Types' /\ CertInv' /\ CommandInv' /\ (AckInv => AckInv')
    BY <1>1, <2>1 DEF cloud, Types, CertInv, OneFile, Held, CommandInv, Ordered, AckInv
  <2>3. CertsLast
    BY <1>1 DEF cloud, CertInv, OneFile, CertsLast
  <2> QED
    BY <1>1, <2>2, <2>3 DEF BoardResult
<1>2. ASSUME NEW outcome \in Outcomes, NEW s, Serves(s, outcome), BoardResult
      PROVE  StepResult
  <2>1. Types' /\ CertInv' /\ CommandInv'
    BY <1>2, ServesTypes, ServesCert, ServesCommands
  <2>2. CertsLast
    BY <1>2, ServesCertsLast
  <2>3. AckInv => AckInv'
    BY <1>2, ServesAck
  <2> QED
    BY <1>2, <2>1, <2>2, <2>3 DEF BoardResult
<1>3. ASSUME NEW d \in Devices, Boot(d) \/ PowerLoss(d)
      PROVE  StepResult
  <2>1. CASE \E outcome \in Outcomes : PostTaken(d, outcome)
    <3>1. PICK outcome \in Outcomes : PostTaken(d, outcome)
      BY <2>1
    <3>2. Cloud!Request(outcome)
      BY <3>1 DEF PostTaken, Cloud!Request
    <3>3. PICK s : Serves(s, outcome)
      BY <3>2, RequestEffect
    <3>4. BoardResult
      BY <3>1, <3>3, PostStep
    <3> QED
      BY <1>2, <3>3, <3>4
  <2>2. CASE ~\E outcome \in Outcomes : PostTaken(d, outcome)
    <3>1. \/ PowerOn(d) \/ PowerLoss(d) \/ WifiUp(d) \/ WifiFails(d) \/ PostFails(d)
          \/ GetCa(d) \/ GetCaFails(d) \/ StoreFails(d) \/ Verify(d)
          \/ \E stored \in BOOLEAN : StoreIdentity(d, stored) \/ StoreCa(d, stored)
      BY <1>3, <2>2 DEF Boot
    <3>2. UNCHANGED cloud
      BY <3>1 DEF PowerOn, PowerLoss, WifiUp, WifiFails, PostFails, GetCa, GetCaFails, StoreFails,
                  Verify, StoreIdentity, StoreCa
    <3> QED
      BY <1>1, <3>1, <3>2, BoardStep
  <2> QED
    BY <2>1, <2>2
<1>4. ASSUME NEW outcome \in Outcomes, CloudServes(outcome)
      PROVE  StepResult
  <2>1. PICK s : Serves(s, outcome)
    BY <1>4, RequestEffect DEF CloudServes
  <2>2. BoardResult
    BY <1>4, <2>1, ServesHolds, BoardsWait DEF CloudServes
  <2> QED
    BY <1>2, <2>1, <2>2
<1>5. ASSUME CloudStart
      PROVE  StepResult
  <2>1. PICK k \in Keys : Cloud!Start(k)
    BY <1>5 DEF CloudStart
  <2>2. Types' /\ CertInv' /\ CommandInv' /\ UNCHANGED <<saved, holds>>
    BY <2>1, StartEffect, StartCommands
  <2>3. BoardResult
    BY <1>5, <2>2, BoardsWait DEF CloudStart
  <2>4. CertsLast
    BY <2>2 DEF CertsLast, CertInv, OneFile
  <2>5. OneKeyEver /\ AckInv => AckInv'
    BY <2>1, StartAck
  <2> QED
    BY <2>2, <2>3, <2>4, <2>5 DEF BoardResult
<1>6. ASSUME CloudStop
      PROVE  StepResult
  <2>1. /\ Types' /\ CertInv' /\ InPlay' \subseteq InPlay
        /\ UNCHANGED <<saved, acked, holds, delivered, enqueued>>
    BY <1>6, StopEffect DEF CloudStop
  <2>2. CommandInv' /\ (AckInv => AckInv')
    BY <2>1 DEF CommandInv, Ordered, AckInv
  <2>3. BoardResult
    BY <1>6, <2>1, BoardsWait DEF CloudStop
  <2>4. CertsLast
    BY <2>1 DEF CertsLast, CertInv, OneFile
  <2> QED
    BY <2>1, <2>2, <2>3, <2>4 DEF BoardResult
<1>7. ASSUME UNCHANGED vars
      PROVE  StepResult
  <2>1. UNCHANGED cloud /\ UNCHANGED <<pc, nvs, ram>>
    BY <1>7 DEF vars
  <2>2. BoardResult
    BY <2>1, BoardsWait DEF cloud
  <2> QED
    BY <1>1, <2>1, <2>2
<1> HIDE DEF Inv, StepResult
<1> QED
  BY <1>3, <1>4, <1>5, <1>6, <1>7 DEF Next

(* and so it always holds. *)
LEMMA Inductive ==
    ASSUME WholeSaves
    PROVE  Spec => []Inv
<1>1. Inv /\ [Next]_vars => Inv'
  BY Stepwise DEF StepResult
<1> QED
  BY <1>1, Initially, PTL DEF Spec

(* The same of what was acknowledged, under one signing key. *)
LEMMA InductiveAck ==
    ASSUME WholeSaves, OneKeyEver
    PROVE  Spec => []AckInv
<1>1. Inv /\ AckInv /\ [Next]_vars => AckInv'
  BY Stepwise DEF StepResult
<1> QED
  BY <1>1, Initially, Inductive, PTL DEF Spec

(* Every variable of the cloud and of the boards keeps its type, and there *)
(* is at most one state file.                                              *)
THEOREM TypeCorrect ==
    ASSUME WholeSaves
    PROVE  Spec => []TypeOK
<1>1. Inv => TypeOK
  BY DEF Inv, Types, BoardTypes, CertInv, OneFile, TypeOK, Cloud!TypeOK
<1> QED
  BY <1>1, Inductive, PTL

(* An identity that was sent is what the cloud keeps for the device, under *)
(* the trust root it publishes, through refused saves and restarts.        *)
THEOREM IdentitiesValid ==
    ASSUME WholeSaves
    PROVE  Spec => []IdentitiesStayValid
<1>1. Inv => IdentitiesStayValid
  <2> SUFFICES ASSUME Inv, NEW d \in Devices, holds[d] # None
               PROVE  /\ \E s \in saved : s.certs[d] = holds[d] /\ holds[d][1] = s.ca
                      /\ up => mem.certs[d] = holds[d] /\ holds[d][1] = mem.ca
    BY DEF IdentitiesStayValid, Cloud!IdentitiesStayValid
  <2> QED
    BY DEF Inv, CertInv, Held, InPlay
<1> QED
  BY <1>1, Inductive, PTL

(* Whatever a board stored or uses is the cloud's certificate and CA for   *)
(* it, and it never reads NOT VERIFIED, wherever its power failed.         *)
THEOREM BoardsAgree ==
    ASSUME WholeSaves
    PROVE  Spec => []IdentityAgrees
<1>1. Inv => IdentityAgrees
  <2> SUFFICES ASSUME Inv, NEW d \in Devices
               PROVE  /\ \A identity \in {nvs[d].identity, ram[d].identity} \ {None} :
                            \E s \in saved : s.certs[d] = identity
                      /\ \A ca \in {nvs[d].ca, ram[d].ca} \ {None} : \E s \in saved : s.ca = ca
                      /\ pc[d] # "not_verified"
    BY DEF IdentityAgrees
  <2>1. holds[d] # None => \E s \in saved : s.certs[d] = holds[d] /\ s.ca = holds[d][1]
    BY DEF Inv, CertInv, Held, InPlay
  <2> QED
    BY <2>1 DEF Inv, BoardInv, BoardOk, Agrees
<1> QED
  BY <1>1, Inductive, PTL

(* A complete identity in NVS stays or is erased, and a certificate in the *)
(* cloud's file is never replaced.                                         *)
THEOREM FirstLasts ==
    ASSUME WholeSaves
    PROVE  Spec => FirstIdentityLasts
<1>1. Inv /\ [Next]_vars =>
        [\A d \in Devices :
            /\ Complete(nvs[d]) => nvs'[d] \in {nvs[d], Nothing}
            /\ \A s \in saved, t \in saved' :
                  s.certs[d] # None => t.certs[d] = s.certs[d]]_vars
  BY Stepwise DEF StepResult, Lasts, CertsLast
<1> QED
  BY <1>1, Inductive, PTL DEF Spec, FirstIdentityLasts

(* What was acknowledged last lives on in the file and in the running      *)
(* server, as long as the signing key stays the same.                      *)
THEOREM AcknowledgedLivesOn ==
    ASSUME WholeSaves, OneKeyEver
    PROVE  Spec => []AcknowledgedSurvives
<1>1. AckInv => AcknowledgedSurvives
  BY DEF AckInv, AcknowledgedSurvives, Cloud!AcknowledgedSurvives, InPlay
<1> QED
  BY <1>1, InductiveAck, PTL

(* A device is sent each command at most once and in order, whatever saves *)
(* fail and whenever the cloud restarts.                                   *)
THEOREM CommandsInOrder ==
    ASSUME WholeSaves
    PROVE  Spec => []DeliveredOnceInOrder
<1>1. Inv => DeliveredOnceInOrder
  BY DEF Inv, CommandInv, Increasing, DeliveredOnceInOrder, Cloud!DeliveredOnceInOrder
<1> QED
  BY <1>1, Inductive, PTL
================================================================================
