---------------------------- MODULE FirmwareVersions ----------------------------
(***************************************************************************)
(* Which build is newest: compareVersions and FirmwareStore.latest of      *)
(* cloud/src/ota.ts on the cloud's side, compare_versions of               *)
(* sdk/firmware/targets/esp32c6-ota/main/app_main.c on the device's, and   *)
(* the device following the store.                                         *)
(*                                                                         *)
(* A version string is the sequence of its dotted components, a component  *)
(* the sequence of its character codes.  Spellings that JavaScript's       *)
(* Number reads and C's digit loop does not (exponents, 0x, signs, blanks) *)
(* are outside the alphabets used.                                         *)
(***************************************************************************)
EXTENDS Integers, Sequences, SequencesExt

CONSTANTS
    Versions,     \* the version strings in use
    Initial,      \* the version of the image the device was flashed with
    IntMax,       \* INT_MAX of the device
    MaxBuilds     \* bound on the builds published

ASSUME VersionsAssumption ==
    /\ Initial \in Versions
    /\ \A v \in Versions : v \in Seq(Seq(Nat)) /\ v # <<>>
ASSUME BoundsAssumption == IntMax \in Nat /\ MaxBuilds \in Nat

VARIABLES
    builds,       \* FirmwareStore: the versions published, in Map order
    running       \* the version of the image the device runs

vars == <<builds, running>>

Digits == 48..57
NotANumber == -1
IsNumeric(s) == \A i \in 1..Len(s) : s[i] \in Digits

(* JavaScript's Number of a component; the empty string is 0. *)
Decimal(s) == FoldLeft(LAMBDA n, c : n * 10 + (c - 48), 0, s)
Number(s) == IF IsNumeric(s) THEN Decimal(s) ELSE NotANumber

(* JavaScript's < on strings. *)
LexicallyBefore(s, t) ==
    \/ Len(s) < Len(t) /\ s = SubSeq(t, 1, Len(s))
    \/ \E i \in 1..Len(s) :
          i <= Len(t) /\ s[i] < t[i] /\ \A j \in 1..(i - 1) : s[j] = t[j]

(* Both sides read a missing component as 0. *)
Component(v, i) == IF i <= Len(v) THEN v[i] ELSE <<48>>

(* Mutant: components are compared as text, so that 10 comes before 9. *)
CompareComponents_Text(s, t) ==
    IF s = t THEN 0 ELSE IF LexicallyBefore(s, t) THEN -1 ELSE 1

(* The body of compareVersions' loop. *)
CompareComponents(s, t) ==
    IF IsNumeric(s) /\ IsNumeric(t) THEN Number(s) - Number(t)
    ELSE IF s = t THEN 0 ELSE IF LexicallyBefore(s, t) THEN -1 ELSE 1

(* The sign of the first component in which two versions differ, given the *)
(* sign of each.                                                           *)
FirstDifference(signs) ==
    LET differ == {i \in 1..Len(signs) : signs[i] # 0}
    IN IF differ = {} THEN 0 ELSE signs[CHOOSE i \in differ : \A j \in differ : i <= j]

Length(v, w) == IF Len(v) > Len(w) THEN Len(v) ELSE Len(w)

compareVersions(v, w) ==
    FirstDifference([i \in 1..Length(v, w) |->
                        CompareComponents(Component(v, i), Component(w, i))])

--------------------------------------------------------------------------------
(* Signed overflow wraps on the device's processor. *)
Wrap(n) == ((n + IntMax + 1) % (2 * (IntMax + 1))) - (IntMax + 1)

(* Mutant: only the last digit of a component is kept. *)
ReadDigits_Last(s) == IF s = <<>> THEN 0 ELSE s[Len(s)] - 48

(* The digit loop of compare_versions, which does not ask what it reads. *)
ReadDigits(s) == FoldLeft(LAMBDA n, c : Wrap(Wrap(n * 10) + (c - 48)), 0, s)

CompareRead(s, t) == Wrap(ReadDigits(s) - ReadDigits(t))

(* Mutant: any other version counts as newer. *)
compare_versions_Other(v, w) == IF v = w THEN 0 ELSE 1

compare_versions(v, w) ==
    FirstDifference([i \in 1..Length(v, w) |->
                        CompareRead(Component(v, i), Component(w, i))])

--------------------------------------------------------------------------------
(* FirmwareStore.latest: one pass over the Map in insertion order. *)
Latest ==
    FoldLeft(LAMBDA newest, v : IF compareVersions(v, newest) > 0 THEN v ELSE newest,
             builds[1], Tail(builds))

Init == builds = <<>> /\ running = Initial

(* Publishing a version again keeps its place in the Map. *)
Publish(v) ==
    /\ IF Contains(builds, v) THEN UNCHANGED builds
       ELSE Len(builds) < MaxBuilds /\ builds' = Append(builds, v)
    /\ UNCHANGED running

(* check_for_update, when the download goes through. *)
Update ==
    /\ builds # <<>>
    /\ compare_versions(Latest, running) > 0
    /\ running' = Latest
    /\ UNCHANGED builds

Next == (\E v \in Versions : Publish(v)) \/ Update

Spec == Init /\ [][Next]_vars

--------------------------------------------------------------------------------
(* What the documentation calls a version: numbers between dots, and such  *)
(* that the device's int holds them.                                       *)
Dotted == \A v \in Versions : \A i \in 1..Len(v) : IsNumeric(v[i])
Readable == \A v \in Versions : \A i \in 1..Len(v) : Decimal(v[i]) <= IntMax

(* A numeric reading of a version, every component as a number. *)
NumericallyNewer(v, w) ==
    \E i \in 1..(Len(v) + Len(w)) :
        /\ Decimal(Component(v, i)) > Decimal(Component(w, i))
        /\ \A j \in 1..(i - 1) : Decimal(Component(v, j)) = Decimal(Component(w, j))

(* "Returns the highest-versioned published build" (ota.ts:65), for dotted *)
(* numeric versions of any length, spelling (leading zeros, empty          *)
(* components) and order of publication.                                   *)
LatestIsHighest ==
    builds # <<>> =>
        /\ Contains(builds, Latest)
        /\ \A i \in 1..Len(builds) : ~NumericallyNewer(builds[i], Latest)

(* "Mirrors the cloud's compareVersions so the device and cloud agree on   *)
(* which build is newer" (app_main.c:40-41), for the builds in the store   *)
(* and the image that runs.                                                *)
InUse == {running} \union {builds[i] : i \in 1..Len(builds)}

AgreeOnNewer ==
    \A v, w \in InUse : compare_versions(v, w) > 0 <=> compareVersions(v, w) > 0

(* An update never takes the device back: its version only grows, by the   *)
(* numeric reading.                                                        *)
NeverGoesBack == [][running' # running => NumericallyNewer(running', running)]_running
================================================================================
