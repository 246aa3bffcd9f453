--------------------------- MODULE MCFirmwareVersions ---------------------------
(* Small instances of FirmwareVersions for TLC. *)
EXTENDS FirmwareVersions

(* "", "0", "01", "9", "10" *)
NumericComponents == {<<>>, <<48>>, <<48, 49>>, <<57>>, <<49, 48>>}

(* One component, or two. *)
VersionsOf(components) ==
    {<<c>> : c \in components} \union {<<c, d>> : c \in components, d \in components}

NumericVersions == VersionsOf(NumericComponents)
(* "9" *)
Flashed == <<<<57>>>>

ASSUME NumericAssumption == Dotted /\ Readable
================================================================================
