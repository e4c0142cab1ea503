----------------------------- MODULE MCBroadcast -----------------------------
(* Small instances of the broadcast for TLC: a cycle is named by its depth. *)
EXTENDS Broadcast

MCDepth == [k \in CycleIds |-> k]
=============================================================================
