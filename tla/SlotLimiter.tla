----------------------------- MODULE SlotLimiter -----------------------------
(***************************************************************************)
(* What the concurrency controller promises its callers, whatever decides  *)
(* the number of slots: at most one caller is admitted at a time, only     *)
(* while the limiter is open, alive and below its limit; a slot is         *)
(* returned by its holder; a failed limiter admits nobody until a reset,   *)
(* and a reset happens only when nobody holds a slot.                      *)
(***************************************************************************)
EXTENDS Naturals, FiniteSets

CONSTANTS Agents, MaxParallel

VARIABLES
  holders,  \* the agents that hold a slot
  slots,    \* how many may hold one at once
  open,     \* whether new holders are admitted
  dead      \* whether the limiter has failed

vars == <<holders, slots, open, dead>>

Init ==
  /\ holders = {}
  /\ slots \in 1..MaxParallel
  /\ open = TRUE
  /\ dead = FALSE

\* A limit that moves together with a grant already counts for it.
Grant(a) ==
  /\ a \notin holders
  /\ open /\ ~dead
  /\ holders' = holders \cup {a}
  /\ slots' \in 1..MaxParallel
  /\ Cardinality(holders') <= slots'
  /\ UNCHANGED <<open, dead>>

\* The outcome that comes back with a slot may move the limit.
Return(a) ==
  /\ a \in holders
  /\ holders' = holders \ {a}
  /\ slots' \in 1..MaxParallel
  /\ UNCHANGED <<open, dead>>

Adjust ==
  /\ slots' \in 1..MaxParallel
  /\ open' \in BOOLEAN
  /\ UNCHANGED <<holders, dead>>

Fail ==
  /\ dead' = TRUE
  /\ UNCHANGED <<holders, slots, open>>

Reset ==
  /\ holders = {}
  /\ slots' \in 1..MaxParallel
  /\ open' = TRUE
  /\ dead' = FALSE
  /\ UNCHANGED holders

Next ==
  \/ \E a \in Agents : Grant(a) \/ Return(a)
  \/ Adjust \/ Fail \/ Reset

Spec == Init /\ [][Next]_vars
=============================================================================
