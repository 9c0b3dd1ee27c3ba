------------------------------- MODULE MCSpad -------------------------------
(***************************************************************************)
(* The scratch pad with at most MaxGuards guards alive and at most MaxUsed *)
(* bytes in use: more than the region has, as publish_alloc allows.        *)
(***************************************************************************)
EXTENDS Spad

CONSTANTS MaxGuards, MaxUsed

MCNext == Next /\ guards' <= MaxGuards /\ used' <= MaxUsed

MCSpec == Init /\ [][MCNext]_vars
=============================================================================
