----------------------------- MODULE MCProvisioning -----------------------------
(* Small instances of Provisioning, and of the cloud in it, for TLC. *)
EXTENDS Provisioning, TLC

CONSTANTS d1, s1, b1, r1, k1

(* Every build is signed with the one signing key. *)
OneKey == [b \in Builds |-> k1]

(* A save may be refused, or the process may die around it, but the file   *)
(* is never left half written.                                             *)
WholeSaves == {"replied", "unheard", "refused", "killed_before", "killed_after"}

(* The process may also die in the middle of a save. *)
TornSaves == {"replied", "killed_within"}

(* Every save succeeds, but the answer may be lost. *)
LostAnswers == {"replied", "unheard"}
================================================================================
