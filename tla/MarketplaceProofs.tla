--------------------------- MODULE MarketplaceProofs ---------------------------
(***************************************************************************)
(* Proofs about the marketplace, for any publishers, installers, projects, *)
(* damage and number of keys, with and without the conformance policy: a   *)
(* directory that one process at a time has open is a log that only grows, *)
(* what was answered stays in it, keys stay with their publishers, and     *)
(* what is installed is what a trusted publisher signed.                   *)
(***************************************************************************)
EXTENDS Marketplace, SequenceTheorems, TLAPS

(* One process at a time has the store directory open. *)
OneProcess == \A r, q \in Registries : r = q

--------------------------------------------------------------------------------
(* The inductive invariant.                                                *)

Jobs == [client : Publishers, signed : SignedPackages, opened : BOOLEAN]

Types ==
    /\ store \in [Slots -> SignedPackages \union {None, Torn}]
    /\ minted \in Nat
    /\ keyFile \in [Publishers -> Nat \union {None, Torn}]
    /\ request \in [Publishers -> SignedPackages \union {None}]
    /\ job \in [Registries -> Jobs \union {None}]
    /\ acked \subseteq SignedPackages

(* A publish in hand was checked, and its file is not there or cut off. *)
JobInv ==
    \A r \in Registries : job[r] # None =>
        /\ job[r].signed \in Admissible
        /\ Len(job[r].signed.pkg.meta.version) = 3
        /\ store[SlotOf(job[r].signed)] = IF job[r].opened THEN Torn ELSE None

(* A file is under the name and version of its package. *)
FilesInv ==
    \A slot \in Slots : store[slot] # None =>
        /\ Len(slot[2]) = 3
        /\ store[slot] # Torn => SlotOf(store[slot]) = slot

(* A key that was used is in its publisher's home. *)
InHome(signed) == \E c \in Publishers : keyFile[c] = signed.publisher

KeyInv ==
    /\ \A c \in Publishers : keyFile[c] \notin {None, Torn} =>
          /\ keyFile[c] \in 1..minted
          /\ \A d \in Publishers \ {c} : keyFile[d] # keyFile[c]
    /\ minted <= MaxKeys
    /\ \A c \in Publishers : request[c] # None => InHome(request[c])
    /\ \A r \in Registries : job[r] # None => InHome(job[r].signed)
    /\ \A signed \in acked : InHome(signed)

(* A file is one of a package as a publisher trusted by i signed it. *)
Sound(i, signed) ==
    signed \in SignedPackages /\ (Trusted[i] # {} => signed.publisher \in Trusted[i])

Has(i, path, signed) == path \in DOMAIN dir[i] /\ dir[i][path] = signed.pkg.files[path]

DirSound(i) ==
    \A path \in DOMAIN dir[i] :
        \E signed \in SignedPackages :
            Sound(i, signed) /\ path \in DOMAIN signed.pkg.files /\ Has(i, path, signed)

(* What is being written: the files that are not still to do are there. *)
FetchSound(i) ==
    fetched[i] # None =>
        /\ fetched[i] = [signed |-> fetched[i].signed, todo |-> fetched[i].todo]
        /\ installed[i] = None
        /\ Sound(i, fetched[i].signed)
        /\ fetched[i].todo \subseteq DOMAIN fetched[i].signed.pkg.files
        /\ \A path \in DOMAIN fetched[i].signed.pkg.files \ fetched[i].todo :
              Has(i, path, fetched[i].signed)

InstallSound(i) ==
    installed[i] # None =>
        /\ Sound(i, installed[i])
        /\ \A path \in DOMAIN installed[i].pkg.files : Has(i, path, installed[i])

(* What an installer was told of is there. *)
SeenSound(i) ==
    \A n \in Names : seen[i][n] # None => store[<<n, seen[i][n]>>] # None

InstallInv ==
    /\ fetched = [i \in Installers |-> fetched[i]]
    /\ dir = [i \in Installers |-> dir[i]]
    /\ installed = [i \in Installers |-> installed[i]]
    /\ seen \in [Installers -> [Names -> Versions \union {None}]]
    /\ \A i \in Installers : DirSound(i) /\ FetchSound(i) /\ InstallSound(i) /\ SeenSound(i)

Inv == Types /\ JobInv /\ FilesInv /\ ReleasedStays /\ KeyInv

--------------------------------------------------------------------------------
(* What a signed package is. *)
LEMMA SignedFacts ==
    ASSUME NEW signed \in SignedPackages
    PROVE  /\ SlotOf(signed) \in Slots
           /\ signed.publisher \in 1..MaxKeys
           /\ signed \notin {None, Torn}
<1>1. PICK pkg \in Packed, key \in 1..MaxKeys : signed = Sign(pkg, key)
  BY DEF SignedPackages
<1>2. signed.pkg = pkg /\ signed.publisher = key
  BY <1>1 DEF Sign
<1> QED
  BY <1>2, NothingAssumption DEF SlotOf, Slots, Names, Versions

(* What packs is a signed package, under the key it was signed with. *)
LEMMA PackedAndSigned ==
    ASSUME NEW p \in Projects, ~PackErrors(p), NEW key \in 1..MaxKeys
    PROVE  /\ Sign(packDirectory(p), key) \in SignedPackages
           /\ Sign(packDirectory(p), key).publisher = key
<1>1. packDirectory(p) \in Packed
  BY DEF Packed
<1> QED
  BY <1>1 DEF SignedPackages, Sign

(* What a registry accepts goes into a free slot of the log. *)
LEMMA AcceptedFacts ==
    ASSUME NEW r \in Registries, NEW signed \in SignedPackages, Accepts(r, signed)
    PROVE  /\ signed \in Admissible
           /\ store[SlotOf(signed)] = None
           /\ Len(signed.pkg.meta.version) = 3
<1>1. Valid(signed.pkg.files[DEVICE_MANIFEST_FILE])
  BY DEF Accepts, WellFormed
<1>2. ASSUME Strict = Registries
      PROVE  Verdict(DeviceIR(signed.pkg.files[DEVICE_MANIFEST_FILE])) # "nonconformant"
  BY <1>1, <1>2 DEF Accepts, Conforms, conformManifest
<1> QED
  BY <1>1, <1>2 DEF Accepts, WellFormed, Free, Admissible

(* Nothing is published and no key exists in the beginning. *)
LEMMA InvInit == Init => Inv
<1> SUFFICES ASSUME Init PROVE Inv
  OBVIOUS
<1>1. Types
  BY DEF Init, Types
<1>2. JobInv /\ FilesInv /\ ReleasedStays
  BY DEF Init, JobInv, FilesInv, ReleasedStays
<1>3. KeyInv
  BY BoundAssumption DEF Init, KeyInv
<1> QED
  BY <1>1, <1>2, <1>3 DEF Inv

--------------------------------------------------------------------------------
(* Publishers: the key file only ever changes from nothing. *)
LEMMA KeyKept ==
    ASSUME Inv, NEW c \in Publishers, keyFile[c] = None, NEW key,
           keyFile' = [keyFile EXCEPT ![c] = key],
           NEW signed \in SignedPackages, InHome(signed)
    PROVE  \E d \in Publishers : keyFile'[d] = signed.publisher
<1>1. PICK d \in Publishers : keyFile[d] = signed.publisher
  BY DEF InHome
<1>2. d # c
  BY <1>1, SignedFacts, NothingAssumption
<1> QED
  BY <1>1, <1>2 DEF Inv, Types

(* A later publish signs with the key in the home. *)
LEMMA PublishStep ==
    ASSUME Inv, NEW c \in Publishers, NEW p \in Projects, Publish(c, p)
    PROVE  Inv'
<1> DEFINE signed == Sign(packDirectory(p), keyFile[c])
<1>1. keyFile[c] \in 1..MaxKeys
  <2>1. keyFile[c] \in 1..minted /\ minted <= MaxKeys
    BY DEF Publish, Inv, KeyInv
  <2> QED
    BY <2>1, BoundAssumption DEF Inv, Types
<1>2. signed \in SignedPackages /\ signed.publisher = keyFile[c]
  BY <1>1, PackedAndSigned DEF Publish
<1>3. /\ request' = [request EXCEPT ![c] = signed]
      /\ UNCHANGED <<keyFile, minted, store, job, acked>>
  BY DEF Publish, PublishWith, registryVars
<1> HIDE DEF signed
<1>4. Types'
  BY <1>2, <1>3 DEF Inv, Types
<1>5. JobInv' /\ FilesInv' /\ ReleasedStays'
  BY <1>3 DEF Inv, JobInv, FilesInv, ReleasedStays
<1>6. KeyInv'
  BY <1>2, <1>3 DEF Inv, Types, KeyInv, InHome
<1> QED
  BY <1>4, <1>5, <1>6 DEF Inv

(* A new key goes into a home that had none. *)
LEMMA NewKeyStep ==
    ASSUME Inv, NEW c \in Publishers, keyFile[c] = None,
           NEW key \in {minted + 1, Torn}, minted' = minted + 1, minted' <= MaxKeys,
           keyFile' = [keyFile EXCEPT ![c] = key],
           UNCHANGED <<store, job, acked>>,
           NEW signed \in SignedPackages \union {None},
           request' \in {request, [request EXCEPT ![c] = signed]},
           signed # None => signed.publisher = key
    PROVE  Inv'
<1>1. Types'
  BY DEF Inv, Types
<1>2. JobInv' /\ FilesInv' /\ ReleasedStays'
  BY DEF Inv, JobInv, FilesInv, ReleasedStays
<1>3. ASSUME NEW d \in Publishers, keyFile'[d] \notin {None, Torn}
      PROVE  /\ keyFile'[d] \in 1..minted'
             /\ \A e \in Publishers \ {d} : keyFile'[e] # keyFile'[d]
  <2>1. \A e \in Publishers : keyFile[e] \notin {None, Torn} => keyFile[e] \in 1..minted
    BY DEF Inv, KeyInv
  <2>2. minted \in Nat /\ minted + 1 \notin {None, Torn} /\ minted + 1 \notin 1..minted
    BY NothingAssumption DEF Inv, Types
  <2>3. keyFile'[c] = key /\ \A e \in Publishers \ {c} : keyFile'[e] = keyFile[e]
    BY DEF Inv, Types
  <2>4. CASE d = c
    <3>1. key = minted + 1
      BY <1>3, <2>3, <2>4
    <3> QED
      BY <2>1, <2>2, <2>3, <2>4, <3>1
  <2>5. CASE d # c
    <3>1. keyFile'[d] = keyFile[d] /\ keyFile[d] \in 1..minted
      BY <1>3, <2>1, <2>3, <2>5
    <3>2. \A e \in Publishers \ {d, c} : keyFile'[e] # keyFile'[d]
      BY <1>3, <2>3, <2>5 DEF Inv, KeyInv
    <3>3. keyFile'[c] # keyFile'[d]
      BY <1>3, <2>2, <2>3, <3>1
    <3> QED
      BY <2>2, <3>1, <3>2, <3>3
  <2> QED
    BY <2>4, <2>5
<1>4. ASSUME NEW d \in Publishers, request'[d] # None
      PROVE  InHome(request[d])'
  <2>1. CASE d = c /\ request'[c] = signed
    <3>1. keyFile'[c] = request'[d].publisher
      BY <1>4, <2>1 DEF Inv, Types
    <3> QED
      BY <3>1 DEF InHome
  <2>2. CASE request'[d] = request[d]
    <3>1. request[d] \in SignedPackages /\ InHome(request[d])
      BY <1>4, <2>2 DEF Inv, Types, KeyInv
    <3> QED
      BY <3>1, <2>2, KeyKept DEF InHome
  <2> QED
    BY <2>1, <2>2 DEF Inv, Types
<1>5. ASSUME NEW r \in Registries, job'[r] # None
      PROVE  InHome(job[r].signed)'
  <2>1. job'[r] = job[r] /\ job[r].signed \in SignedPackages /\ InHome(job[r].signed)
    BY <1>5 DEF Inv, Types, KeyInv, Jobs
  <2> QED
    BY <2>1, KeyKept DEF InHome
<1>6. ASSUME NEW done \in acked'
      PROVE  \E d \in Publishers : keyFile'[d] = done.publisher
  BY KeyKept DEF Inv, Types, KeyInv
<1>7. KeyInv'
  BY <1>3, <1>4, <1>5, <1>6 DEF KeyInv, InHome
<1> QED
  BY <1>1, <1>2, <1>7 DEF Inv

(* A first publish saves the key it signs with. *)
LEMMA FirstPublishStep ==
    ASSUME Inv, NEW c \in Publishers, NEW p \in Projects, FirstPublish(c, p)
    PROVE  Inv'
<1> DEFINE signed == Sign(packDirectory(p), minted')
<1>1. minted \in Nat /\ minted' = minted + 1 /\ minted' \in 1..MaxKeys
  BY BoundAssumption DEF FirstPublish, Inv, Types
<1>2. signed \in SignedPackages /\ signed.publisher = minted + 1
  BY <1>1, PackedAndSigned DEF FirstPublish
<1>3. /\ keyFile[c] = None
      /\ keyFile' = [keyFile EXCEPT ![c] = minted + 1]
      /\ request' = [request EXCEPT ![c] = signed]
      /\ UNCHANGED <<store, job, acked>>
  BY DEF FirstPublish, PublishWith, SavedKey, registryVars
<1>4. /\ minted' <= MaxKeys
      /\ minted + 1 \in {minted + 1, Torn}
      /\ signed \in SignedPackages \union {None}
      /\ request' \in {request, [request EXCEPT ![c] = signed]}
  BY <1>1, <1>2, <1>3, BoundAssumption
<1> HIDE DEF signed
<1> QED
  BY <1>1, <1>2, <1>3, <1>4, NewKeyStep

(* A key that was cut off while it was saved was never used. *)
LEMMA KeyTornStep ==
    ASSUME Inv, NEW c \in Publishers, KeyTorn(c)
    PROVE  Inv'
<1>1. minted \in Nat /\ minted' = minted + 1 /\ minted' <= MaxKeys
  BY BoundAssumption DEF KeyTorn, Inv, Types
<1>2. UNCHANGED <<request, store, job, acked>>
  BY DEF KeyTorn, registryVars
<1> QED
  BY <1>1, <1>2, NewKeyStep DEF KeyTorn

--------------------------------------------------------------------------------
(* The registry.  A request that is answered is gone. *)
LEMMA CheckStep ==
    ASSUME Inv, NEW r \in Registries, NEW c \in Publishers, Check(r, c)
    PROVE  Inv'
<1>1. UNCHANGED <<store, acked, keyFile, minted>>
  BY DEF Check
<1>2. request[c] \in SignedPackages /\ InHome(request[c])
  BY DEF Check, Inv, Types, KeyInv
<1>3. CASE Accepts(r, request[c])
  <2>1. /\ job' = [job EXCEPT ![r] = [client |-> c, signed |-> request[c], opened |-> FALSE]]
        /\ UNCHANGED request
    BY <1>3 DEF Check
  <2>2. /\ request[c] \in Admissible
        /\ store[SlotOf(request[c])] = None
        /\ Len(request[c].pkg.meta.version) = 3
    BY <1>2, <1>3, AcceptedFacts
  <2>3. Types'
    BY <1>1, <1>2, <2>1 DEF Inv, Types, Jobs
  <2>4. JobInv'
    BY <1>1, <2>1, <2>2 DEF Inv, Types, JobInv
  <2>5. FilesInv' /\ ReleasedStays'
    BY <1>1 DEF Inv, FilesInv, ReleasedStays
  <2>6. KeyInv'
    BY <1>1, <1>2, <2>1 DEF Inv, Types, KeyInv, InHome
  <2> QED
    BY <2>3, <2>4, <2>5, <2>6 DEF Inv
<1>4. CASE ~Accepts(r, request[c])
  <2>1. UNCHANGED job /\ request' = [request EXCEPT ![c] = None]
    BY <1>4 DEF Check, Answered
  <2>2. Types'
    BY <1>1, <2>1 DEF Inv, Types
  <2>3. JobInv' /\ FilesInv' /\ ReleasedStays'
    BY <1>1, <2>1 DEF Inv, JobInv, FilesInv, ReleasedStays
  <2>4. KeyInv'
    BY <1>1, <2>1 DEF Inv, Types, KeyInv, InHome
  <2> QED
    BY <2>2, <2>3, <2>4 DEF Inv
<1> QED
  BY <1>3, <1>4

(* The slot of a publish in hand holds no package that was answered. *)
LEMMA SlotInHand ==
    ASSUME Inv, NEW r \in Registries, job[r] # None
    PROVE  /\ job[r] \in Jobs
           /\ job[r].signed \in Admissible
           /\ job[r].signed \in SignedPackages
           /\ job[r].client \in Publishers
           /\ SlotOf(job[r].signed) \in Slots
           /\ SlotOf(job[r].signed)[2] = job[r].signed.pkg.meta.version
           /\ Len(job[r].signed.pkg.meta.version) = 3
           /\ store[SlotOf(job[r].signed)] = IF job[r].opened THEN Torn ELSE None
           /\ \A signed \in acked : SlotOf(signed) # SlotOf(job[r].signed)
<1>1. /\ job[r] \in Jobs
      /\ job[r].signed \in Admissible
      /\ Len(job[r].signed.pkg.meta.version) = 3
      /\ store[SlotOf(job[r].signed)] = IF job[r].opened THEN Torn ELSE None
  BY DEF Inv, Types, JobInv
<1>2. job[r].signed \in SignedPackages /\ job[r].client \in Publishers
  BY <1>1 DEF Jobs
<1>3. ASSUME NEW signed \in acked PROVE SlotOf(signed) # SlotOf(job[r].signed)
  <2>1. store[SlotOf(signed)] = signed /\ signed \notin {None, Torn}
    BY SignedFacts DEF Inv, Types, ReleasedStays
  <2> QED
    BY <1>1, <2>1
<1> QED
  BY <1>1, <1>2, <1>3, SignedFacts DEF SlotOf

(* Opening the file cuts off a slot that no package was answered for. *)
LEMMA OpenFileStep ==
    ASSUME Inv, OneProcess, NEW r \in Registries, OpenFile(r)
    PROVE  Inv'
<1>1. /\ job[r] # None /\ ~job[r].opened
      /\ store' = [store EXCEPT ![SlotOf(job[r].signed)] = Torn]
      /\ job' = [job EXCEPT ![r].opened = TRUE]
      /\ UNCHANGED <<acked, keyFile, minted, request>>
  BY DEF OpenFile, publisherVars
<1>2. \A q \in Registries : q = r
  BY DEF OneProcess
<1>3. /\ job'[r] = [job[r] EXCEPT !.opened = TRUE]
      /\ job'[r] \in Jobs
      /\ job'[r].signed = job[r].signed /\ job'[r].opened
  BY <1>1, SlotInHand DEF Inv, Types, Jobs
<1>4. Types'
  BY <1>1, <1>3, SlotInHand DEF Inv, Types
<1>5. JobInv'
  BY <1>1, <1>2, <1>3, SlotInHand DEF Inv, Types, JobInv
<1>6. ReleasedStays'
  BY <1>1, SlotInHand, SignedFacts DEF Inv, Types, ReleasedStays
<1>7. KeyInv'
  BY <1>1, <1>2, <1>3 DEF Inv, KeyInv, InHome
<1>8. FilesInv'
  BY <1>1, SlotInHand DEF Inv, Types, FilesInv
<1> QED
  BY <1>4, <1>5, <1>6, <1>7, <1>8 DEF Inv

(* The request of a publish that ended, well or not, is answered. *)
LEMMA EndStep ==
    ASSUME Inv, OneProcess, NEW r \in Registries, job[r] # None,
           job' = [job EXCEPT ![r] = None],
           request' = [request EXCEPT ![job[r].client] = None],
           UNCHANGED <<keyFile, minted>>,
           acked' \in {acked, acked \union {job[r].signed}}
    PROVE  JobInv' /\ KeyInv'
<1>1. \A q \in Registries : q = r
  BY DEF OneProcess
<1>2. job'[r] = None
  BY DEF Inv, Types
<1>3. JobInv'
  BY <1>1, <1>2 DEF JobInv
<1>4. KeyInv'
  BY <1>1, <1>2, SlotInHand DEF Inv, Types, KeyInv, InHome
<1> QED
  BY <1>3, <1>4

(* The file is whole when the answer goes out. *)
LEMMA WriteFileStep ==
    ASSUME Inv, OneProcess, NEW r \in Registries, NEW heard \in BOOLEAN, WriteFile(r, heard)
    PROVE  Inv'
<1>1. /\ job[r] # None
      /\ store' = [store EXCEPT ![SlotOf(job[r].signed)] = job[r].signed]
      /\ acked' \in {acked, acked \union {job[r].signed}}
      /\ job' = [job EXCEPT ![r] = None]
      /\ request' = [request EXCEPT ![job[r].client] = None]
      /\ UNCHANGED <<keyFile, minted>>
  BY DEF WriteFile, Answered
<1>2. JobInv' /\ KeyInv'
  BY <1>1, EndStep
<1>3. Types'
  BY <1>1, SlotInHand DEF Inv, Types
<1>4. store'[SlotOf(job[r].signed)] = job[r].signed
  BY <1>1, SlotInHand DEF Inv, Types
<1>5. \A signed \in acked : store'[SlotOf(signed)] = signed
  BY <1>1, SlotInHand, SignedFacts DEF Inv, Types, ReleasedStays
<1>6. ReleasedStays'
  BY <1>1, <1>4, <1>5 DEF ReleasedStays
<1>7. FilesInv'
  BY <1>1, SlotInHand DEF Inv, Types, FilesInv
<1> QED
  BY <1>2, <1>3, <1>6, <1>7 DEF Inv

(* A process that dies leaves what the directory held. *)
LEMMA DiesStep ==
    ASSUME Inv, OneProcess, NEW r \in Registries, Dies(r)
    PROVE  Inv'
<1>1. /\ job[r] # None
      /\ job' = [job EXCEPT ![r] = None]
      /\ request' = [request EXCEPT ![job[r].client] = None]
      /\ UNCHANGED <<store, acked, keyFile, minted>>
  BY DEF Dies, Answered
<1>2. JobInv' /\ KeyInv'
  BY <1>1, EndStep
<1>3. Types' /\ FilesInv' /\ ReleasedStays'
  BY <1>1, SlotInHand DEF Inv, Types, FilesInv, ReleasedStays
<1> QED
  BY <1>2, <1>3 DEF Inv

--------------------------------------------------------------------------------
(* Installers, searches and stuttering leave the registry as it is. *)
Idle == UNCHANGED <<store, job, acked, keyFile, minted, request>>

(* Such a step preserves the invariant of the registry. *)
LEMMA IdleStep == ASSUME Inv, Idle PROVE Inv'
<1>1. Types' /\ JobInv' /\ FilesInv' /\ ReleasedStays'
  BY DEF Idle, Inv, Types, JobInv, FilesInv, ReleasedStays
<1>2. KeyInv'
  BY DEF Idle, Inv, KeyInv, InHome
<1> QED
  BY <1>1, <1>2 DEF Inv

(* The kinds of step there are. *)
LEMMA Steps ==
    ASSUME [Next]_vars
    PROVE  \/ \E c \in Publishers, p \in Projects : Publish(c, p) \/ FirstPublish(c, p)
           \/ \E c \in Publishers : KeyTorn(c)
           \/ \E r \in Registries, c \in Publishers : Check(r, c)
           \/ \E r \in Registries : OpenFile(r) \/ Dies(r)
           \/ \E r \in Registries, heard \in BOOLEAN : WriteFile(r, heard)
           \/ \E i \in Installers, r \in Registries, n \in Names, spec \in Versions \union {Latest} :
                 Install(i, r, n, spec)
           \/ \E i \in Installers : InstallFile(i)
           \/ \E i \in Installers : InstallStops(i)
           \/ \E i \in Installers, r \in Registries : Search(i, r)
           \/ UNCHANGED vars
<1>1. CASE Next
  BY <1>1 DEF Next
<1>2. CASE UNCHANGED vars
  BY <1>2
<1> QED
  BY <1>1, <1>2

(* Which steps leave the registry as it is. *)
LEMMA InstallersIdle ==
    /\ \A i, r, n, spec : Install(i, r, n, spec) => Idle
    /\ \A i : InstallFile(i) => Idle
    /\ \A i : InstallStops(i) => Idle
    /\ \A i, r : Search(i, r) => Idle
    /\ UNCHANGED vars => Idle
BY DEF Install, InstallFile, InstallStops, Search, Idle, vars, registryVars, publisherVars

(* Every step preserves the invariant of the registry and the publishers. *)
LEMMA InvNext == ASSUME Inv, OneProcess, [Next]_vars PROVE Inv'
<1>1. ASSUME NEW c \in Publishers, NEW p \in Projects, Publish(c, p) \/ FirstPublish(c, p)
      PROVE  Inv'
  BY <1>1, PublishStep, FirstPublishStep
<1>2. ASSUME NEW r \in Registries, OpenFile(r) \/ Dies(r)
      PROVE  Inv'
  BY <1>2, OpenFileStep, DiesStep
<1>3. Idle => Inv'
  BY IdleStep
<1> QED
  BY <1>1, <1>2, <1>3, Steps, KeyTornStep, CheckStep, WriteFileStep, InstallersIdle

(* The invariant of the registry and the publishers. *)
LEMMA Inductive == OneProcess => (Spec => []Inv)
<1>1. OneProcess /\ Inv /\ [Next]_vars => Inv'
  BY InvNext
<1>2. SUFFICES ASSUME OneProcess PROVE Spec => []Inv
  OBVIOUS
<1> QED
  BY <1>1, <1>2, InvInit, PTL DEF Spec

--------------------------------------------------------------------------------
(* Whoever was told that a version is published finds that package under   *)
(* it, through any number of deaths in the middle of a write.              *)
THEOREM ReleasesStay ==
    ASSUME OneProcess
    PROVE  Spec => []ReleasedStays
<1>1. Inv => ReleasedStays
  BY DEF Inv
<1> QED
  BY <1>1, Inductive, PTL

(* A publisher's key stays its own. *)
THEOREM KeysStay ==
    ASSUME OneProcess
    PROVE  Spec => []StableKey
<1>1. Inv => StableKey
  BY DEF Inv, KeyInv, InHome, StableKey
<1> QED
  BY <1>1, Inductive, PTL

(* A step that leaves the slot of a publish in hand without a package, or  *)
(* with the one it had, changes nothing in the log.                        *)
LEMMA NothingPublished ==
    ASSUME Inv,
           \/ store' = store
           \/ \E slot \in Slots : store[slot] = None /\ store' = [store EXCEPT ![slot] = Torn]
    PROVE  UNCHANGED Whole
<1>1. store \in [Slots -> SignedPackages \union {None, Torn}]
  BY DEF Inv, Types
<1>2. ASSUME NEW slot \in Slots
      PROVE  (IF store'[slot] = Torn THEN None ELSE store'[slot])
                 = (IF store[slot] = Torn THEN None ELSE store[slot])
  BY <1>1
<1> QED
  BY <1>2 DEF Whole

(* Every step is one of the log or changes nothing in it. *)
LEMMA LogStep ==
    ASSUME Inv, OneProcess, [Next]_vars
    PROVE  [Log!Next]_Whole
<1>1. ASSUME NEW r \in Registries, NEW heard \in BOOLEAN, WriteFile(r, heard)
      PROVE  \E signed \in Admissible : Log!Publish(signed)
  <2> DEFINE signed == job[r].signed
  <2>1. /\ job[r] # None /\ job[r].opened
        /\ store' = [store EXCEPT ![SlotOf(signed)] = signed]
    BY <1>1 DEF WriteFile
  <2>2. /\ signed \in Admissible
        /\ signed \in SignedPackages
        /\ SlotOf(signed) \in Slots
        /\ store[SlotOf(signed)] = Torn
    BY <2>1, SlotInHand
  <2>3. signed # Torn
    BY <2>2, SignedFacts
  <2>4. Whole[SlotOf(signed)] = None
    BY <2>2 DEF Whole
  <2> HIDE DEF signed
  <2>5. store \in [Slots -> SignedPackages \union {None, Torn}]
    BY DEF Inv, Types
  <2>6. Whole' = [Whole EXCEPT ![SlotOf(signed)] = signed]
    BY <2>1, <2>2, <2>3, <2>5 DEF Whole
  <2> QED
    BY <2>2, <2>4, <2>6 DEF Log!Publish
<1>2. ASSUME NEW r \in Registries, OpenFile(r)
      PROVE  UNCHANGED Whole
  <2>1. /\ job[r] # None /\ ~job[r].opened
        /\ store' = [store EXCEPT ![SlotOf(job[r].signed)] = Torn]
    BY <1>2 DEF OpenFile
  <2>2. SlotOf(job[r].signed) \in Slots /\ store[SlotOf(job[r].signed)] = None
    BY <2>1, SlotInHand
  <2> QED
    BY <2>1, <2>2, NothingPublished
<1>3. ASSUME store' = store
      PROVE  UNCHANGED Whole
  BY <1>3, NothingPublished
<1>4. \/ \E r \in Registries, heard \in BOOLEAN : WriteFile(r, heard)
      \/ \E r \in Registries : OpenFile(r)
      \/ store' = store
  BY Steps, InstallersIdle
     DEF Idle, Publish, FirstPublish, KeyTorn, Check, Dies, registryVars
<1> QED
  BY <1>1, <1>2, <1>3, <1>4 DEF Log!Next

(* The directory with its crashes implements a log that only grows. *)
THEOREM DirectoryIsALog ==
    ASSUME OneProcess
    PROVE  Spec => ImplementsPackageLog
<1>1. Init => Log!Init
  BY DEF Init, Log!Init, Whole
<1>2. OneProcess /\ Inv /\ [Next]_vars => [Log!Next]_Whole
  BY LogStep
<1> QED
  BY <1>1, <1>2, Inductive, PTL DEF Spec, ImplementsPackageLog, Log!Spec

--------------------------------------------------------------------------------
(* Installers.  A file of the directory is never taken away. *)
LEMMA StoreGrows ==
    ASSUME Inv, [Next]_vars, NEW slot \in Slots, store[slot] # None
    PROVE  store'[slot] # None
<1>1. ASSUME NEW r \in Registries, NEW heard \in BOOLEAN, WriteFile(r, heard)
      PROVE  store'[slot] # None
  <2>1. /\ job[r] # None
        /\ store' = [store EXCEPT ![SlotOf(job[r].signed)] = job[r].signed]
    BY <1>1 DEF WriteFile
  <2> QED
    BY <2>1, SlotInHand, SignedFacts DEF Inv, Types
<1>2. ASSUME NEW r \in Registries, OpenFile(r)
      PROVE  store'[slot] # None
  <2>1. store' = [store EXCEPT ![SlotOf(job[r].signed)] = Torn]
    BY <1>2 DEF OpenFile
  <2> QED
    BY <2>1, NothingAssumption DEF Inv, Types
<1>3. \/ \E r \in Registries, heard \in BOOLEAN : WriteFile(r, heard)
      \/ \E r \in Registries : OpenFile(r)
      \/ store' = store
  BY Steps, InstallersIdle
     DEF Idle, Publish, FirstPublish, KeyTorn, Check, Dies, registryVars
<1> QED
  BY <1>1, <1>2, <1>3

(* Of a package only what was signed verifies. *)
LEMMA VerifiedIsSigned ==
    ASSUME NEW found \in SignedPackages, NEW damaged, NEW signed \in Received(found, damaged),
           parseSignedPackage(signed) # None, verifySignedPackage(signed)
    PROVE  signed = found
<1>1. PICK pkg \in Packed, key \in 1..MaxKeys : found = Sign(pkg, key)
  BY DEF SignedPackages
<1>2. CASE signed = found
  BY <1>2
<1>3. CASE signed \in Altered(found)
  <2>1. PICK path, text : signed = [found EXCEPT !.pkg.files[path] = text]
    BY <1>3 DEF Altered
  <2>2. \E altered : signed = [found EXCEPT !.pkg = altered]
    BY <1>1, <2>1 DEF Sign
  <2>3. PICK altered : signed = [found EXCEPT !.pkg = altered]
    BY <2>2
  <2>4. signed.pkg = altered /\ signed.contentSha256 = pkg
    BY <1>1, <2>3 DEF Sign
  <2>5. altered = pkg
    BY <2>4 DEF verifySignedPackage
  <2> QED
    BY <1>1, <2>3, <2>5 DEF Sign
<1> QED
  BY <1>2, <1>3 DEF Received, parseSignedPackage

(* What an install resolves to is a whole file of its name, and of the     *)
(* latest version when that was asked for.                                 *)
LEMMA Resolved ==
    ASSUME Inv, NEW name \in Names, NEW spec \in Versions \union {Latest},
           NEW found \in resolve(name, spec) \ {Torn}
    PROVE  /\ found \in SignedPackages
           /\ found.pkg.meta.name = name
           /\ found.pkg.meta.version \in Versions
           /\ store[<<name, found.pkg.meta.version>>] # None
           /\ spec = Latest => found.pkg.meta.version \in latest(name)
<1>1. PICK v \in IF spec = Latest THEN latest(name) ELSE {spec} : found = store[<<name, v>>]
  BY DEF resolve
<1>2. v \in Versions /\ <<name, v>> \in Slots
  BY <1>1 DEF latest, Published, Slots
<1>3. found \notin {None, Torn}
  BY DEF resolve
<1>4. found \in SignedPackages /\ SlotOf(found) = <<name, v>>
  BY <1>1, <1>2, <1>3 DEF Inv, Types, FilesInv
<1>5. found.pkg.meta.name = name /\ found.pkg.meta.version = v
  BY <1>4 DEF SlotOf
<1> QED
  BY <1>1, <1>2, <1>3, <1>4, <1>5

(* Nothing is installed in the beginning. *)
LEMMA InstallInit == Init => InstallInv
<1> SUFFICES ASSUME Init PROVE InstallInv
  OBVIOUS
<1>1. ASSUME NEW i \in Installers PROVE DirSound(i)
  BY DEF Init, DirSound
<1>2. ASSUME NEW i \in Installers PROVE FetchSound(i) /\ InstallSound(i) /\ SeenSound(i)
  BY DEF Init, FetchSound, InstallSound, SeenSound
<1> QED
  BY <1>1, <1>2 DEF Init, InstallInv

(* The steps of the registry and the publishers leave the installers alone, *)
(* and what was told stays there.                                          *)
LEMMA OthersStep ==
    ASSUME Inv, InstallInv, [Next]_vars, UNCHANGED <<fetched, dir, installed, seen>>
    PROVE  InstallInv'
<1>1. ASSUME NEW i \in Installers
      PROVE  DirSound(i)' /\ FetchSound(i)' /\ InstallSound(i)'
  BY DEF InstallInv, DirSound, FetchSound, InstallSound, Sound, Has
<1>2. ASSUME NEW i \in Installers, NEW n \in Names, seen[i][n] # None
      PROVE  store'[<<n, seen[i][n]>>] # None
  <2>1. seen[i][n] \in Versions /\ store[<<n, seen[i][n]>>] # None
    BY <1>2 DEF InstallInv, SeenSound
  <2> QED
    BY <2>1, StoreGrows DEF Slots
<1>3. \A i \in Installers : SeenSound(i)'
  BY <1>2 DEF SeenSound
<1> QED
  BY <1>1, <1>3 DEF InstallInv

(* An install begins with a package that was signed and is trusted. *)
LEMMA InstallStep ==
    ASSUME Inv, InstallInv, NEW i \in Installers, NEW r \in Registries, NEW name \in Names,
           NEW spec \in Versions \union {Latest}, Install(i, r, name, spec)
    PROVE  InstallInv'
<1>1. PICK found \in resolve(name, spec) \ {Torn}, damaged \in Damage :
          \E signed \in Received(found, damaged) :
             /\ parseSignedPackage(signed) # None
             /\ verifyForInstall(i, signed)
             /\ fetched' = [fetched EXCEPT ![i] =
                   [signed |-> signed, todo |-> DOMAIN signed.pkg.files]]
             /\ seen' = SeenNow(i, signed, spec)
  BY DEF Install
<1>2. /\ found \in SignedPackages
      /\ found.pkg.meta.name = name
      /\ found.pkg.meta.version \in Versions
      /\ store[<<name, found.pkg.meta.version>>] # None
  BY Resolved
<1>3. /\ fetched' = [fetched EXCEPT ![i] = [signed |-> found, todo |-> DOMAIN found.pkg.files]]
      /\ seen' = SeenNow(i, found, spec)
      /\ Trusted[i] # {} => found.publisher \in Trusted[i]
  BY <1>1, <1>2, VerifiedIsSigned DEF verifyForInstall
<1>4. installed' = [installed EXCEPT ![i] = None] /\ UNCHANGED <<dir, store>>
  BY DEF Install, registryVars
<1>5. ASSUME NEW j \in Installers
      PROVE  DirSound(j)' /\ FetchSound(j)' /\ InstallSound(j)'
  <2>1. DirSound(j)'
    BY <1>4 DEF InstallInv, DirSound, Sound, Has
  <2>2. CASE j # i
    <3>1. fetched'[j] = fetched[j] /\ installed'[j] = installed[j]
      BY <1>3, <1>4, <2>2 DEF InstallInv
    <3> QED
      BY <1>4, <2>1, <3>1 DEF InstallInv, FetchSound, InstallSound, Sound, Has
  <2>3. CASE j = i
    <3>1. /\ fetched'[i] = [signed |-> found, todo |-> DOMAIN found.pkg.files]
          /\ installed'[i] = None
      BY <1>3, <1>4 DEF InstallInv
    <3>2. Sound(i, found)
      BY <1>2, <1>3 DEF Sound
    <3> QED
      BY <2>1, <2>3, <3>1, <3>2 DEF FetchSound, InstallSound, Sound
  <2> QED
    BY <2>2, <2>3
<1>6. /\ seen' \in [Installers -> [Names -> Versions \union {None}]]
      /\ \A j \in Installers : SeenSound(j)'
  <2>1. CASE spec # Latest
    BY <1>3, <1>4, <2>1 DEF SeenNow, InstallInv, SeenSound
  <2>2. CASE spec = Latest
    <3>1. /\ seen' = [seen EXCEPT ![i][name] = found.pkg.meta.version]
          /\ found.pkg.meta.version \in Versions
          /\ store[<<name, found.pkg.meta.version>>] # None
      BY <1>2, <1>3, <2>2 DEF SeenNow
    <3> QED
      BY <1>4, <3>1 DEF InstallInv, SeenSound
  <2> QED
    BY <2>1, <2>2
<1>7. /\ fetched' = [j \in Installers |-> fetched'[j]]
      /\ dir' = [j \in Installers |-> dir'[j]]
      /\ installed' = [j \in Installers |-> installed'[j]]
  BY <1>3, <1>4 DEF InstallInv
<1> QED
  BY <1>5, <1>6, <1>7 DEF InstallInv

(* The files that are written are those of the package. *)
LEMMA InstallFileStep ==
    ASSUME Inv, InstallInv, NEW i \in Installers, InstallFile(i)
    PROVE  InstallInv'
<1> DEFINE signed == fetched[i].signed
           todo == fetched[i].todo
<1>1. PICK path \in todo :
          /\ dir' = [dir EXCEPT ![i] = Written(dir[i], path, signed.pkg.files[path])]
          /\ IF Rest(todo, path) = {}
             THEN /\ fetched' = [fetched EXCEPT ![i] = None]
                  /\ installed' = [installed EXCEPT ![i] = signed]
             ELSE /\ fetched' = [fetched EXCEPT ![i].todo = Rest(todo, path)]
                  /\ UNCHANGED installed
  BY DEF InstallFile
<1>2. UNCHANGED <<seen, store>>
  BY DEF InstallFile, registryVars
<1>3. /\ fetched[i] # None
      /\ fetched[i] = [signed |-> signed, todo |-> todo]
      /\ installed[i] = None
      /\ Sound(i, signed)
      /\ todo \subseteq DOMAIN signed.pkg.files
      /\ \A q \in DOMAIN signed.pkg.files \ todo : Has(i, q, signed)
  BY DEF InstallFile, InstallInv, FetchSound
<1>4. dir'[i] = Written(dir[i], path, signed.pkg.files[path])
  BY <1>1 DEF InstallInv
<1>5. /\ DOMAIN dir'[i] = {path} \union DOMAIN dir[i]
      /\ dir'[i][path] = signed.pkg.files[path]
      /\ \A q \in DOMAIN dir[i] \ {path} : dir'[i][q] = dir[i][q]
  BY <1>4 DEF Written
<1>6. DirSound(i)'
  <2> SUFFICES ASSUME NEW q \in DOMAIN dir'[i]
               PROVE  \E of \in SignedPackages :
                         /\ Sound(i, of) /\ q \in DOMAIN of.pkg.files
                         /\ q \in DOMAIN dir'[i] /\ dir'[i][q] = of.pkg.files[q]
    BY DEF DirSound, Sound, Has
  <2>1. CASE q = path
    BY <1>3, <1>5, <2>1 DEF Sound
  <2>2. CASE q # path
    <3>1. q \in DOMAIN dir[i] /\ dir'[i][q] = dir[i][q]
      BY <1>5, <2>2
    <3> QED
      BY <3>1 DEF InstallInv, DirSound, Has
  <2> QED
    BY <2>1, <2>2
<1>7. \A q \in DOMAIN signed.pkg.files \ (todo \ {path}) :
          q \in DOMAIN dir'[i] /\ dir'[i][q] = signed.pkg.files[q]
  BY <1>3, <1>5 DEF Has
<1>8. ASSUME NEW j \in Installers, j # i, dir'[j] = dir[j], fetched'[j] = fetched[j],
             installed'[j] = installed[j]
      PROVE  DirSound(j)' /\ FetchSound(j)' /\ InstallSound(j)'
  BY <1>8 DEF InstallInv, DirSound, FetchSound, InstallSound, Sound, Has
<1>9. \A j \in Installers : SeenSound(j)'
  BY <1>2 DEF InstallInv, SeenSound
<1>10. dir' = [j \in Installers |-> dir'[j]] /\ \A j \in Installers \ {i} : dir'[j] = dir[j]
  BY <1>1 DEF InstallInv
<1>11. CASE todo \ {path} = {}
  <2>1. /\ fetched' = [fetched EXCEPT ![i] = None]
        /\ installed' = [installed EXCEPT ![i] = signed]
    BY <1>1, <1>11 DEF Rest
  <2>2. fetched'[i] = None /\ installed'[i] = signed
    BY <2>1 DEF InstallInv
  <2>3. FetchSound(i)' /\ InstallSound(i)'
    BY <1>3, <1>7, <1>11, <2>2 DEF FetchSound, InstallSound, Sound, Has
  <2>4. /\ fetched' = [j \in Installers |-> fetched'[j]]
        /\ installed' = [j \in Installers |-> installed'[j]]
        /\ \A j \in Installers \ {i} : fetched'[j] = fetched[j] /\ installed'[j] = installed[j]
    BY <2>1 DEF InstallInv
  <2> QED
    BY <1>2, <1>6, <1>8, <1>9, <1>10, <2>3, <2>4 DEF InstallInv
<1>12. CASE todo \ {path} # {}
  <2>1. fetched' = [fetched EXCEPT ![i].todo = todo \ {path}] /\ UNCHANGED installed
    BY <1>1, <1>12 DEF Rest
  <2>2. fetched'[i] = [signed |-> signed, todo |-> todo \ {path}] /\ installed'[i] = None
    BY <1>3, <2>1 DEF InstallInv
  <2>3. FetchSound(i)' /\ InstallSound(i)'
    BY <1>3, <1>7, <2>2 DEF FetchSound, InstallSound, Sound, Has
  <2>4. /\ fetched' = [j \in Installers |-> fetched'[j]]
        /\ installed' = [j \in Installers |-> installed'[j]]
        /\ \A j \in Installers \ {i} : fetched'[j] = fetched[j] /\ installed'[j] = installed[j]
    BY <2>1 DEF InstallInv
  <2> QED
    BY <1>2, <1>6, <1>8, <1>9, <1>10, <2>3, <2>4 DEF InstallInv
<1> QED
  BY <1>11, <1>12

(* An install that stops leaves the files it wrote. *)
LEMMA InstallStopsStep ==
    ASSUME Inv, InstallInv, NEW i \in Installers, InstallStops(i)
    PROVE  InstallInv'
<1>1. fetched' = [fetched EXCEPT ![i] = None] /\ UNCHANGED <<dir, installed, seen, store>>
  BY DEF InstallStops, registryVars
<1>2. ASSUME NEW j \in Installers
      PROVE  DirSound(j)' /\ FetchSound(j)' /\ InstallSound(j)' /\ SeenSound(j)'
  <2>1. fetched'[j] = fetched[j] \/ fetched'[j] = None
    BY <1>1 DEF InstallInv
  <2> QED
    BY <1>1, <2>1
       DEF InstallInv, DirSound, FetchSound, InstallSound, SeenSound, Sound, Has
<1> QED
  BY <1>1, <1>2 DEF InstallInv

(* What a search tells is the latest of what is in the directory. *)
LEMMA ToldFacts ==
    ASSUME NEW i, NEW n
    PROVE  Told(i, n) = seen[i][n] \/ Told(i, n) \in latest(n)
<1>1. CASE latest(n) = {}
  BY <1>1 DEF Told
<1>2. CASE latest(n) # {}
  <2>1. PICK v : v \in latest(n)
    BY <1>2
  <2>2. (CHOOSE w \in latest(n) : TRUE) \in latest(n)
    BY <2>1
  <2> QED
    BY <1>2, <2>2 DEF Told
<1> QED
  BY <1>1, <1>2

(* A search tells of what is there. *)
LEMMA SearchStep ==
    ASSUME Inv, InstallInv, NEW i \in Installers, NEW r \in Registries, Search(i, r)
    PROVE  InstallInv'
<1>1. /\ seen' = [seen EXCEPT ![i] = [n \in Names |-> Told(i, n)]]
      /\ UNCHANGED <<fetched, dir, installed, store>>
  BY DEF Search, registryVars
<1>2. ASSUME NEW n \in Names
      PROVE  /\ Told(i, n) \in Versions \union {None}
             /\ Told(i, n) # None => store[<<n, Told(i, n)>>] # None
  <2>1. CASE Told(i, n) = seen[i][n]
    BY <2>1 DEF InstallInv, SeenSound
  <2>2. CASE Told(i, n) \in latest(n)
    BY <2>2 DEF latest, Published
  <2> QED
    BY <2>1, <2>2, ToldFacts
<1> HIDE DEF Told
<1>3. ASSUME NEW j \in Installers
      PROVE  DirSound(j)' /\ FetchSound(j)' /\ InstallSound(j)'
  BY <1>1 DEF InstallInv, DirSound, FetchSound, InstallSound, Sound, Has
<1>4. /\ seen' \in [Installers -> [Names -> Versions \union {None}]]
      /\ \A j \in Installers : SeenSound(j)'
  BY <1>1, <1>2 DEF InstallInv, SeenSound
<1> QED
  BY <1>1, <1>3, <1>4 DEF InstallInv

(* Every step preserves the invariant of the installers. *)
LEMMA InstallNext == ASSUME Inv, InstallInv, [Next]_vars PROVE InstallInv'
<1>1. UNCHANGED <<fetched, dir, installed, seen>> => InstallInv'
  BY OthersStep
<1>2. \/ UNCHANGED <<fetched, dir, installed, seen>>
      \/ \E i \in Installers, r \in Registries, n \in Names, spec \in Versions \union {Latest} :
            Install(i, r, n, spec)
      \/ \E i \in Installers : InstallFile(i)
      \/ \E i \in Installers : InstallStops(i)
      \/ \E i \in Installers, r \in Registries : Search(i, r)
  BY Steps
     DEF Publish, FirstPublish, KeyTorn, Check, OpenFile, WriteFile, Dies, vars, installerVars
<1> QED
  BY <1>1, <1>2, InstallStep, InstallFileStep, InstallStopsStep, SearchStep

(* Both invariants. *)
LEMMA InductiveInstall == OneProcess => (Spec => [](Inv /\ InstallInv))
<1>1. OneProcess /\ Inv /\ InstallInv /\ [Next]_vars => Inv' /\ InstallInv'
  BY InvNext, InstallNext
<1>2. SUFFICES ASSUME OneProcess PROVE Spec => [](Inv /\ InstallInv)
  OBVIOUS
<1> QED
  BY <1>1, <1>2, InvInit, InstallInit, PTL DEF Spec

--------------------------------------------------------------------------------
(* Only what a trusted publisher signed gets into a project, and all of it. *)
THEOREM OnlySignedInstalled ==
    ASSUME OneProcess
    PROVE  Spec => []InstalledAsSigned
<1>1. InstallInv => InstalledAsSigned
  BY DEF InstallInv, DirSound, InstallSound, Sound, Has, InstalledAsSigned
<1> QED
  BY <1>1, InductiveInstall, PTL

(* Every variable holds a value of its type. *)
THEOREM TypeCorrect ==
    ASSUME OneProcess
    PROVE  Spec => []TypeOK
<1>1. Inv /\ InstallInv => TypeOK
  <2> SUFFICES ASSUME Inv, InstallInv PROVE TypeOK
    OBVIOUS
  <2>1. minted \in 0..MaxKeys
    BY BoundAssumption DEF Inv, Types, KeyInv
  <2>2. keyFile \in [Publishers -> (1..MaxKeys) \union {None, Torn}]
    <3>1. \A c \in Publishers : keyFile[c] \in (1..MaxKeys) \union {None, Torn}
      BY BoundAssumption, <2>1 DEF Inv, KeyInv
    <3> QED
      BY <3>1 DEF Inv, Types
  <2>3. installed \in [Installers -> SignedPackages \union {None}]
    BY DEF InstallInv, InstallSound, Sound
  <2> QED
    BY <2>1, <2>2, <2>3 DEF Inv, Types, Jobs, InstallInv, TypeOK
<1> QED
  BY <1>1, InductiveInstall, PTL

--------------------------------------------------------------------------------
(* The order of versions is strict. *)
LEMMA NewerIsStrict ==
    ASSUME NEW v \in Seq(Nat), NEW w \in Seq(Nat), Len(v) = 3, Len(w) = 3, Newer(v, w)
    PROVE  v # w /\ ~Newer(w, v)
<1>1. \A k \in 1..3 : v[k] \in Nat /\ w[k] \in Nat
  <2>1. \A k \in 1..Len(v) : v[k] \in Nat
    BY ElementOfSeq
  <2>2. \A k \in 1..Len(w) : w[k] \in Nat
    BY ElementOfSeq
  <2> QED
    BY <2>1, <2>2
<1>2. PICK k \in 1..3 : v[k] > w[k] /\ \A j \in 1..(k - 1) : v[j] = w[j]
  BY DEF Newer
<1>3. v # w
  BY <1>1, <1>2
<1>4. ASSUME NEW l \in 1..3, w[l] > v[l], \A j \in 1..(l - 1) : w[j] = v[j]
      PROVE  FALSE
  <2>1. CASE l < k
    BY <1>1, <1>2, <1>4, <2>1
  <2>2. CASE k < l
    BY <1>1, <1>2, <1>4, <2>2
  <2>3. CASE k = l
    BY <1>1, <1>2, <1>4, <2>3
  <2> QED
    BY <2>1, <2>2, <2>3
<1> QED
  BY <1>3, <1>4 DEF Newer

(* Who is told of another version is told of the latest there is. *)
LEMMA TellsTheLatest ==
    ASSUME Inv, InstallInv, [Next]_vars, NEW i \in Installers, NEW n \in Names,
           seen'[i][n] # seen[i][n]
    PROVE  seen'[i][n] \in latest(n)
<1>1. ASSUME NEW j \in Installers, NEW r \in Registries, NEW name \in Names,
             NEW spec \in Versions \union {Latest}, Install(j, r, name, spec)
      PROVE  seen'[i][n] \in latest(n)
  <2>1. PICK found \in resolve(name, spec) \ {Torn}, damaged \in Damage :
            \E signed \in Received(found, damaged) :
               /\ parseSignedPackage(signed) # None
               /\ verifyForInstall(j, signed)
               /\ seen' = SeenNow(j, signed, spec)
    BY <1>1 DEF Install
  <2>2. /\ found \in SignedPackages
        /\ found.pkg.meta.name = name
        /\ spec = Latest => found.pkg.meta.version \in latest(name)
    BY Resolved
  <2>3. seen' = SeenNow(j, found, spec)
    BY <2>1, <2>2, VerifiedIsSigned DEF verifyForInstall
  <2>4. spec = Latest /\ seen' = [seen EXCEPT ![j][name] = found.pkg.meta.version]
    BY <2>2, <2>3 DEF SeenNow
  <2>5. i = j /\ n = name /\ seen'[i][n] = found.pkg.meta.version
    BY <2>4 DEF InstallInv
  <2> QED
    BY <2>2, <2>4, <2>5
<1>2. ASSUME NEW j \in Installers, NEW r \in Registries, Search(j, r)
      PROVE  seen'[i][n] \in latest(n)
  <2>1. seen' = [seen EXCEPT ![j] = [m \in Names |-> Told(j, m)]]
    BY <1>2 DEF Search
  <2>2. i = j /\ seen'[i][n] = Told(i, n)
    BY <2>1 DEF InstallInv
  <2> QED
    BY <2>2, ToldFacts
<1>3. \/ UNCHANGED seen
      \/ \E j \in Installers, r \in Registries, m \in Names, spec \in Versions \union {Latest} :
            Install(j, r, m, spec)
      \/ \E j \in Installers, r \in Registries : Search(j, r)
  BY Steps
     DEF Publish, FirstPublish, KeyTorn, Check, OpenFile, WriteFile, Dies, InstallFile,
         InstallStops, vars, installerVars
<1> QED
  BY <1>1, <1>2, <1>3

(* The latest version is newer than every other one that was ever told of  *)
(* or answered for.                                                        *)
LEMMA NotOlder ==
    ASSUME Inv, InstallInv, [Next]_vars, NEW i \in Installers, NEW n \in Names,
           seen'[i][n] # seen[i][n]
    PROVE  /\ seen[i][n] # None => Newer(seen'[i][n], seen[i][n])
           /\ \A signed \in acked :
                 signed.pkg.meta.name = n => ~Newer(signed.pkg.meta.version, seen'[i][n])
<1> DEFINE v == seen'[i][n]
<1>1. v \in Published(n) /\ \A w \in Published(n) : w = v \/ Newer(v, w)
  BY TellsTheLatest DEF latest
<1>2. \A w \in Published(n) : w \in Seq(Nat) /\ Len(w) = 3
  <2> TAKE w \in Published(n)
  <2>1. w \in Versions /\ <<n, w>> \in Slots /\ store[<<n, w>>] # None
    BY DEF Published, Slots
  <2> QED
    BY <2>1, VersionsAssumption DEF Inv, FilesInv
<1> HIDE DEF v
<1>3. ASSUME seen[i][n] # None
      PROVE  Newer(v, seen[i][n])
  <2>1. seen[i][n] \in Published(n)
    BY <1>3 DEF InstallInv, SeenSound, Published
  <2> QED
    BY <1>1, <2>1 DEF v
<1>4. ASSUME NEW signed \in acked, signed.pkg.meta.name = n
      PROVE  ~Newer(signed.pkg.meta.version, v)
  <2> DEFINE w == signed.pkg.meta.version
  <2>1. store[SlotOf(signed)] = signed /\ SlotOf(signed) \in Slots /\ signed # None
    BY SignedFacts DEF Inv, Types, ReleasedStays
  <2>2. w \in Published(n)
    BY <1>4, <2>1 DEF SlotOf, Slots, Published
  <2>3. CASE w = v
    <3>1. ~Newer(v, v)
      BY <1>1, <1>2, NewerIsStrict
    <3> QED
      BY <2>3, <3>1
  <2>4. CASE Newer(v, w)
    BY <1>1, <1>2, <2>2, <2>4, NewerIsStrict
  <2> QED
    BY <1>1, <2>2, <2>3, <2>4
<1> QED
  BY <1>3, <1>4 DEF v

(* Nobody who asks for the latest version is ever led back. *)
THEOREM NeverLedBack ==
    ASSUME OneProcess
    PROVE  Spec => NeverOlder
<1>1. Inv /\ InstallInv /\ [Next]_vars =>
        [\A i \in Installers, n \in Names :
            seen'[i][n] # seen[i][n] =>
                /\ seen[i][n] # None => Newer(seen'[i][n], seen[i][n])
                /\ \A signed \in acked :
                      signed.pkg.meta.name = n =>
                          ~Newer(signed.pkg.meta.version, seen'[i][n])]_vars
  BY NotOlder
<1> QED
  BY <1>1, InductiveInstall, PTL DEF Spec, NeverOlder
================================================================================
