----------------------------- MODULE AtomicUpdate -----------------------------
(***************************************************************************)
(* What the on-device updater promises (the header comment of              *)
(* sdk/firmware/targets/esp32c6-ota/main/app_main.c): a device always has  *)
(* one installed image; a newer signed image is first on trial, and either *)
(* becomes the installed one or is dropped, in one step.  Power loss,      *)
(* downloads, partitions and the bootloader do not show.                   *)
(***************************************************************************)
CONSTANTS
    Base,             \* the image the device was flashed with
    NoImage,          \* nothing on trial
    Newer,            \* the pairs <<a, b>> where a signed build offers a over b
    Healthy           \* the images that pass their self-test

VARIABLES installed, trial

Init == installed = Base /\ trial = NoImage

Stage(a) ==
    /\ trial = NoImage
    /\ <<a, installed>> \in Newer
    /\ trial' = a
    /\ UNCHANGED installed

Confirm ==
    /\ trial # NoImage
    /\ trial \in Healthy
    /\ installed' = trial
    /\ trial' = NoImage

Abandon ==
    /\ trial # NoImage
    /\ trial' = NoImage
    /\ UNCHANGED installed

Next == Stage(trial') \/ Confirm \/ Abandon

Spec == Init /\ [][Next]_<<installed, trial>>
================================================================================
