------------------------------ MODULE MCInputs ------------------------------
(***************************************************************************)
(* A pure algorithm has no steps of its own: a run chooses a kind of input *)
(* and then one input of that kind, and what is checked is stated of it.   *)
(***************************************************************************)
VARIABLES kind, input

NoInput == <<>>
Given(k) == kind = k /\ input # NoInput
=============================================================================
