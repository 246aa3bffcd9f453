------------------------------- MODULE MCRollout -------------------------------
(* Small instances of Rollout for TLC. *)
EXTENDS Rollout, TLC

CONSTANTS d1, d2, d3

(* One campaign: the empty list, lists of distinct devices, and one list   *)
(* that names a device twice.                                              *)
OrdersOne == {<<>>, <<d1, d2>>, <<d1, d2, d3>>, <<d1, d2, d1>>}

(* Two campaigns: lists that coincide, or one within the other. *)
OrdersTwo == {<<d1>>, <<d1, d2>>}

SizesAll == {-1, 1, 2}
SizesTwo == {-1, 1}
LimitsAll == {-1, 0, 1}
LimitsTwo == {0}

(* Campaign ids are fresh UUIDs the code only compares. *)
CampaignSymmetry == Permutations(Campaigns)
================================================================================
