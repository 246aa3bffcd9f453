------------------------------- MODULE PackageLog -------------------------------
(***************************************************************************)
(* What the marketplace promises: "a released version is immutable"        *)
(* (marketplace/src/registry.ts:93).  A log of admissible packages that    *)
(* only grows, with at most one package for a name and version.            *)
(***************************************************************************)
CONSTANTS
    Slots,        \* the <<name, version>> pairs
    Entries,      \* the packages
    SlotOf(_),    \* the name and version of a package
    Empty         \* no package

VARIABLE published

Init == published = [slot \in Slots |-> Empty]

Publish(entry) ==
    /\ published[SlotOf(entry)] = Empty
    /\ published' = [published EXCEPT ![SlotOf(entry)] = entry]

Next == \E entry \in Entries : Publish(entry)

Spec == Init /\ [][Next]_published
================================================================================
