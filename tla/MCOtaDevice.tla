------------------------------ MODULE MCOtaDevice ------------------------------
(* Small instances of OtaDevice for TLC. *)
EXTENDS OtaDevice, TLC

CONSTANTS base, good2, fails2, crash3, good3, stale3, text3

(* A sound and a failing build of version 2, which republish each other;   *)
(* of version 3 a sound one, one that crashes on its first boot, one built *)
(* from a stale directory that still carries version 1, and one that is    *)
(* not an image at all.                                                    *)
AllArtifacts == {base, good2, fails2, crash3, good3, stale3, text3}
AllBuilds == {<<2, good2>>, <<2, fails2>>, <<3, crash3>>, <<3, good3>>,
              <<3, stale3>>, <<3, text3>>}

EmbeddedVersion ==
    base :> 1 @@ good2 :> 2 @@ fails2 :> 2 @@ crash3 :> 3 @@ good3 :> 3 @@
    stale3 :> 1 @@ text3 :> 3

FirstBoot ==
    base :> "good" @@ good2 :> "good" @@ fails2 :> "fails_test" @@
    crash3 :> "crashes" @@ good3 :> "good" @@ stale3 :> "good" @@
    text3 :> "not_an_image"

================================================================================
