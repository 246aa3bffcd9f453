------------------------------ MODULE Marketplace -------------------------------
(***************************************************************************)
(* The package marketplace: packing and signing a device project           *)
(* (marketplace/src/pack.ts, signing.ts, cli.ts), publishing it to a       *)
(* registry over a directory of files (registry.ts, store.ts, http.ts,     *)
(* wire.ts, client.ts), resolving, searching and installing (install.ts).  *)
(*                                                                         *)
(* A registry process, the HTTP service or a command line run on the       *)
(* machine itself, is single threaded and its store synchronous, so one    *)
(* process does one request at a time.  Nothing keeps two processes apart  *)
(* in the directory they share: between the look and the write of one, and *)
(* within its write, the other may act, and either may die.                *)
(***************************************************************************)
EXTENDS Manifest, FiniteSets

CONSTANTS
    Registries,   \* the processes that have the store directory open
    Strict,       \* those with policy.requireConformance
    Publishers,   \* users who publish, each with a home directory of its own
    Installers,   \* users who install, each into a directory of its own
    Trusted,      \* trustedPublishers of each installer, {} when not given
    Projects,     \* the project directories there are to publish
    Contents,     \* the texts of files other than the manifest
    PackageNames, \* the strings in use that match the package NAME_PATTERN
    Dotted,       \* name.replace(/_/g, ".") of a device name
    FileOrder,    \* the place of each path in use when they are sorted
    Damage,       \* may an answer or a file arrive altered?
    MaxKeys,      \* bound on the key pairs generated
    None, Torn    \* nothing; a file cut off in the middle of a write

ASSUME ProcessesAssumption == Strict \subseteq Registries
ASSUME TrustAssumption == Trusted \in [Installers -> SUBSET Nat]
ASSUME BoundAssumption == MaxKeys \in Nat /\ Damage \subseteq BOOLEAN

VARIABLES
    store,        \* the directory: a file per name and version
    keyFile,      \* publisher.key.json of each publisher's home
    minted,       \* how many key pairs were ever generated
    request,      \* the publish request of each publisher, None when it has none
    job,          \* the publish a registry process has in hand
    acked,        \* history: the packages answered with "published"
    fetched,      \* the verified package an installer is writing
    dir,          \* the files in each installer's directory
    installed,    \* history: the install that completed last, and was not begun anew
    seen          \* history: the newest version each installer was told of

registryVars == <<store, job, acked>>
publisherVars == <<keyFile, minted, request>>
installerVars == <<fetched, dir, installed, seen>>
vars == <<registryVars, publisherVars, installerVars>>

--------------------------------------------------------------------------------
(* Packages.  A path is the sequence of its parts, a version that of its   *)
(* numbers, and a file holds a manifest or a text.                         *)
DEVICE_MANIFEST_FILE == <<"device.yaml">>

isSafePackagePath(path) ==
    path # <<>> /\ \A i \in 1..Len(path) : path[i] \notin {"", ".", ".."}

metaFromManifest(m) ==
    [name |-> IF Valid(m) THEN Dotted[m.name] ELSE "device", version |-> <<0, 1, 0>>,
     description |-> "device", category |-> IF Valid(m) THEN m.category ELSE "unknown",
     license |-> "MIT"]

(* packDirectory throws: the descriptor is not JSON, there is no manifest, *)
(* or a listed file is unsafe or missing.                                  *)
PackErrors(p) ==
    \/ p.descriptor = Torn
    \/ p.manifest = None
    \/ \E path \in p.listed \ {DEVICE_MANIFEST_FILE} :
          ~isSafePackagePath(path) \/ path \notin DOMAIN p.texts

(* What the descriptor sets overrides what the manifest gives. *)
packDirectory(p) ==
    LET paths == {DEVICE_MANIFEST_FILE} \union p.listed
    IN [meta |-> p.descriptor @@ metaFromManifest(p.manifest),
        files |-> [path \in paths |->
                      IF path = DEVICE_MANIFEST_FILE THEN p.manifest ELSE p.texts[path]]]

(* validatePackage: the package is well formed and its manifest compiles. *)
WellFormed(pkg) ==
    /\ pkg.meta.name \in PackageNames
    /\ Len(pkg.meta.version) = 3
    /\ pkg.meta.description # "" /\ pkg.meta.license # ""
    /\ \A path \in DOMAIN pkg.files : isSafePackagePath(path)
    /\ DEVICE_MANIFEST_FILE \in DOMAIN pkg.files
    /\ Valid(pkg.files[DEVICE_MANIFEST_FILE])
    /\ pkg.meta.category = pkg.files[DEVICE_MANIFEST_FILE].category

(* The hash stands for the content it is the hash of. *)
Sign(pkg, key) == [pkg |-> pkg, contentSha256 |-> pkg, publisher |-> key, signature |-> <<key, pkg>>]

(* Mutant: the hash is not compared with the package. *)
verifySignedPackage_KeyOnly(signed) ==
    signed.signature = <<signed.publisher, signed.contentSha256>>

verifySignedPackage(signed) ==
    /\ signed.pkg = signed.contentSha256
    /\ signed.signature = <<signed.publisher, signed.contentSha256>>

(* Mutant: the gate lets every device pass. *)
Conforms_Never(r, pkg) == TRUE

Conforms(r, pkg) ==
    r \in Strict => conformManifest(pkg.files[DEVICE_MANIFEST_FILE]) # "nonconformant"

--------------------------------------------------------------------------------
(* The projects that can be packed, and the slots of the store. *)
Packed == {packDirectory(p) : p \in {q \in Projects : ~PackErrors(q)}}
Names == {pkg.meta.name : pkg \in Packed}
Versions == {pkg.meta.version : pkg \in Packed}
Slots == Names \X Versions
SlotOf(signed) == <<signed.pkg.meta.name, signed.pkg.meta.version>>

Init ==
    /\ store = [slot \in Slots |-> None]
    /\ keyFile = [c \in Publishers |-> None]
    /\ minted = 0
    /\ request = [c \in Publishers |-> None]
    /\ job = [r \in Registries |-> None]
    /\ acked = {}
    /\ fetched = [i \in Installers |-> None]
    /\ dir = [i \in Installers |-> <<>>]
    /\ installed = [i \in Installers |-> None]
    /\ seen = [i \in Installers |-> [n \in Names |-> None]]

(* compareVersions on two three-part versions. *)
Newer(v, w) ==
    \E k \in 1..3 : v[k] > w[k] /\ \A j \in 1..(k - 1) : v[j] = w[j]

Published(name) == {v \in Versions : store[<<name, v>>] # None}

(* Mutant: the first version of the sorted list instead of the last. *)
latest_First(name) ==
    {v \in Published(name) : \A w \in Published(name) : w = v \/ Newer(w, v)}

(* The version there is nothing newer than; {} when none is published. *)
latest(name) ==
    {v \in Published(name) : \A w \in Published(name) : w = v \/ Newer(v, w)}

(* resolve(): the file of a version, or of the latest; {} when there is none. *)
Latest == <<>>   \* the spec "latest"

resolve(name, spec) ==
    {store[<<name, v>>] : v \in IF spec = Latest THEN latest(name) ELSE {spec}} \ {None}

--------------------------------------------------------------------------------
(* chipwright publish: pack, load the key or generate and save it, sign,   *)
(* and send.                                                               *)
PublishWith(c, p, key) ==
    request' = [request EXCEPT ![c] = Sign(packDirectory(p), key)]

Publish(c, p) ==
    /\ request[c] = None
    /\ ~PackErrors(p)
    /\ keyFile[c] \notin {None, Torn}
    /\ PublishWith(c, p, keyFile[c])
    /\ UNCHANGED <<keyFile, minted, registryVars, installerVars>>

(* Mutant: the new key is used but not saved. *)
SavedKey_Not(key) == None

SavedKey(key) == key

FirstPublish(c, p) ==
    /\ request[c] = None
    /\ ~PackErrors(p)
    /\ keyFile[c] = None
    /\ minted < MaxKeys
    /\ minted' = minted + 1
    /\ keyFile' = [keyFile EXCEPT ![c] = SavedKey(minted')]
    /\ PublishWith(c, p, minted')
    /\ UNCHANGED <<registryVars, installerVars>>

(* The process dies while it saves its first key. *)
KeyTorn(c) ==
    /\ request[c] = None
    /\ keyFile[c] = None
    /\ minted < MaxKeys
    /\ minted' = minted + 1
    /\ keyFile' = [keyFile EXCEPT ![c] = Torn]
    /\ UNCHANGED <<request, registryVars, installerVars>>

--------------------------------------------------------------------------------
(* Mutant: a version that is there already is published again. *)
Free_Always(signed) == TRUE

(* store.get finds no file; of a torn file JSON.parse throws. *)
Free(signed) == store[SlotOf(signed)] = None

Accepts(r, signed) ==
    /\ verifySignedPackage(signed)
    /\ WellFormed(signed.pkg)
    /\ Free(signed)
    /\ Conforms(r, signed.pkg)

Answered(c) == request' = [request EXCEPT ![c] = None]

(* PackageRegistry.publish up to store.put; 400, 409 or 500 otherwise.     *)
Check(r, c) ==
    /\ job[r] = None
    /\ request[c] # None
    /\ \A other \in Registries : job[other] # None => job[other].client # c
    /\ IF Accepts(r, request[c])
       THEN /\ job' = [job EXCEPT ![r] = [client |-> c, signed |-> request[c], opened |-> FALSE]]
            /\ UNCHANGED request
       ELSE Answered(c) /\ UNCHANGED job
    /\ UNCHANGED <<store, acked, keyFile, minted, installerVars>>

(* store.put: mkdir and the opening half of writeFileSync, *)
OpenFile(r) ==
    /\ job[r] # None
    /\ ~job[r].opened
    /\ store' = [store EXCEPT ![SlotOf(job[r].signed)] = Torn]
    /\ job' = [job EXCEPT ![r].opened = TRUE]
    /\ UNCHANGED <<acked, publisherVars, installerVars>>

(* its end, and the answer, which may be lost on the way. *)
WriteFile(r, heard) ==
    /\ job[r] # None
    /\ job[r].opened
    /\ store' = [store EXCEPT ![SlotOf(job[r].signed)] = job[r].signed]
    /\ acked' = IF heard THEN acked \union {job[r].signed} ELSE acked
    /\ Answered(job[r].client)
    /\ job' = [job EXCEPT ![r] = None]
    /\ UNCHANGED <<keyFile, minted, installerVars>>

(* The process dies, or the disk is full, and another is started. *)
Dies(r) ==
    /\ job[r] # None
    /\ Answered(job[r].client)
    /\ job' = [job EXCEPT ![r] = None]
    /\ UNCHANGED <<store, acked, keyFile, minted, installerVars>>

--------------------------------------------------------------------------------
(* A file of the package is altered on the way. *)
Altered(signed) ==
    {[signed EXCEPT !.pkg.files[path] = text] :
        path \in DOMAIN signed.pkg.files \ {DEVICE_MANIFEST_FILE}, text \in Contents}

(* What arrives: the package, or one that was altered or lost its shape. *)
Received(signed, damaged) == IF damaged THEN {Torn} \union Altered(signed) ELSE {signed}

parseSignedPackage(value) == IF value = Torn THEN None ELSE value

verifyForInstall(i, signed) ==
    /\ verifySignedPackage(signed)
    /\ WellFormed(signed.pkg)
    /\ Trusted[i] # {} => signed.publisher \in Trusted[i]

SeenNow(i, signed, spec) ==
    IF spec = Latest
    THEN [seen EXCEPT ![i][signed.pkg.meta.name] = signed.pkg.meta.version] ELSE seen

(* chipwright install: resolve, verify, and only then begin to write.      *)
(* Nothing is written of a package that does not verify.                   *)
Install(i, r, name, spec) ==
    /\ fetched[i] = None
    /\ job[r] = None
    /\ \E found \in resolve(name, spec) \ {Torn}, damaged \in Damage :
          \E signed \in Received(found, damaged) :
             /\ parseSignedPackage(signed) # None
             /\ verifyForInstall(i, signed)
             /\ fetched' = [fetched EXCEPT ![i] =
                   [signed |-> signed, todo |-> DOMAIN signed.pkg.files]]
             /\ seen' = SeenNow(i, signed, spec)
    /\ installed' = [installed EXCEPT ![i] = None]
    /\ UNCHANGED <<dir, registryVars, publisherVars>>

(* Mutant: the last file is left out. *)
Rest_Skips(todo, path) == IF Cardinality(todo) = 2 THEN {} ELSE todo \ {path}

Rest(todo, path) == todo \ {path}

(* writeFile replaces a file or makes a new one. *)
Written(files, path, text) ==
    [q \in DOMAIN files \union {path} |-> IF q = path THEN text ELSE files[q]]

(* The next file of the package is written; the last completes the install. *)
InstallFile(i) ==
    /\ fetched[i] # None
    /\ LET signed == fetched[i].signed
           todo == fetched[i].todo
       IN \E path \in todo :
             /\ \A other \in todo : FileOrder[path] <= FileOrder[other]
             /\ dir' = [dir EXCEPT ![i] = Written(@, path, signed.pkg.files[path])]
             /\ IF Rest(todo, path) = {}
                THEN /\ fetched' = [fetched EXCEPT ![i] = None]
                     /\ installed' = [installed EXCEPT ![i] = signed]
                ELSE /\ fetched' = [fetched EXCEPT ![i].todo = Rest(todo, path)]
                     /\ UNCHANGED installed
    /\ UNCHANGED <<seen, registryVars, publisherVars>>

(* The installer is stopped, or a write fails, between two files. *)
InstallStops(i) ==
    /\ fetched[i] # None
    /\ fetched' = [fetched EXCEPT ![i] = None]
    /\ UNCHANGED <<dir, installed, seen, registryVars, publisherVars>>

(* search, list and info print the latest version of every name; one torn  *)
(* latest file fails them all.                                             *)
Told(i, n) == IF latest(n) = {} THEN seen[i][n] ELSE CHOOSE v \in latest(n) : TRUE

Search(i, r) ==
    /\ job[r] = None
    /\ \A n \in Names : Torn \notin resolve(n, Latest)
    /\ seen' = [seen EXCEPT ![i] = [n \in Names |-> Told(i, n)]]
    /\ UNCHANGED <<fetched, dir, installed, registryVars, publisherVars>>

Next ==
    \/ \E c \in Publishers : KeyTorn(c) \/ \E p \in Projects : Publish(c, p) \/ FirstPublish(c, p)
    \/ \E r \in Registries :
          \/ \E c \in Publishers : Check(r, c)
          \/ OpenFile(r) \/ Dies(r) \/ \E heard \in BOOLEAN : WriteFile(r, heard)
          \/ \E i \in Installers :
                \/ Search(i, r)
                \/ \E n \in Names, spec \in Versions \union {Latest} : Install(i, r, n, spec)
    \/ \E i \in Installers : InstallFile(i) \/ InstallStops(i)

Spec == Init /\ [][Next]_vars

--------------------------------------------------------------------------------
(* The signed packages there can be, as packed and signed by a publisher. *)
SignedPackages == {Sign(pkg, key) : pkg \in Packed, key \in 1..MaxKeys}

ASSUME NothingAssumption ==
    /\ None # Torn
    /\ {None, Torn} \intersect SignedPackages = {}
    /\ {None, Torn} \intersect Nat = {}
ASSUME VersionsAssumption == Versions \subseteq Seq(Nat) /\ None \notin Versions

(* Every variable holds a value of its type. *)
TypeOK ==
    /\ store \in [Slots -> SignedPackages \union {None, Torn}]
    /\ keyFile \in [Publishers -> (1..MaxKeys) \union {None, Torn}]
    /\ minted \in 0..MaxKeys
    /\ request \in [Publishers -> SignedPackages \union {None}]
    /\ job \in [Registries ->
          [client : Publishers, signed : SignedPackages, opened : BOOLEAN] \union {None}]
    /\ acked \subseteq SignedPackages
    /\ installed \in [Installers -> SignedPackages \union {None}]
    /\ seen \in [Installers -> [Names -> Versions \union {None}]]

(* "a released version is immutable" (registry.ts:93): whoever was told    *)
(* that a version is published finds exactly that package under it, for    *)
(* ever, whatever is published after it and however often the registry     *)
(* dies in a write.  Needs that one process has the directory open.        *)
ReleasedStays == \A signed \in acked : store[SlotOf(signed)] = signed

(* The whole files of the directory are a log of admissible packages in    *)
(* which nothing is ever replaced or taken back.                           *)
Admissible ==
    {signed \in SignedPackages :
        LET manifest == signed.pkg.files[DEVICE_MANIFEST_FILE] IN
        /\ Valid(manifest)
        /\ Strict = Registries => Verdict(DeviceIR(manifest)) # "nonconformant"}

Whole == [slot \in Slots |-> IF store[slot] = Torn THEN None ELSE store[slot]]

Log == INSTANCE PackageLog WITH Entries <- Admissible, Empty <- None, published <- Whole

ImplementsPackageLog == Log!Spec

(* "a developer has a stable publisher key" (cli.ts:61-62): whatever was   *)
(* ever published is under a key that is still in its publisher's home,    *)
(* and is the one the next version will be signed with.  Needs that no two *)
(* of a publisher's first runs overlap.                                    *)
StableKey ==
    /\ \A signed \in acked : \E c \in Publishers : keyFile[c] = signed.publisher
    /\ \A c \in Publishers : keyFile[c] \notin {None, Torn} =>
          \A d \in Publishers \ {c} : keyFile[d] # keyFile[c]

(* install.ts:1-5: a file gets into a project only from a package exactly  *)
(* as a trusted publisher signed it, and an install that says it is done   *)
(* has left every file of the package there.                               *)
InstalledAsSigned ==
    \A i \in Installers :
        /\ \A path \in DOMAIN dir[i] :
              \E signed \in SignedPackages :
                 /\ Trusted[i] # {} => signed.publisher \in Trusted[i]
                 /\ path \in DOMAIN signed.pkg.files /\ dir[i][path] = signed.pkg.files[path]
        /\ installed[i] # None =>
              /\ Trusted[i] # {} => installed[i].publisher \in Trusted[i]
              /\ \A path \in DOMAIN installed[i].pkg.files :
                    path \in DOMAIN dir[i] /\ dir[i][path] = installed[i].pkg.files[path]

(* Who asks for the latest version is never told of an older one than it   *)
(* was told before, or than one whose publisher was told it is out.        *)
NeverOlder ==
    [][\A i \in Installers, n \in Names :
          seen'[i][n] # seen[i][n] =>
              /\ seen[i][n] # None => Newer(seen'[i][n], seen[i][n])
              /\ \A signed \in acked :
                    signed.pkg.meta.name = n => ~Newer(signed.pkg.meta.version, seen'[i][n])]_vars
================================================================================
