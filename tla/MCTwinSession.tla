----------------------------- MODULE MCTwinSession -----------------------------
(* Small instances of TwinSession for TLC. *)
EXTENDS TwinSession
================================================================================
