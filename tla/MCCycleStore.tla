---------------------------- MODULE MCCycleStore ----------------------------
(* Values for the constants of CycleStore. *)
EXTENDS CycleStore, TLC

CONSTANTS a1, a2, a3

MCAgents == {a1, a2, a3}
MCBracketOf == [a \in MCAgents |-> "quants"]

\* Three agents for two rounds, two agents for three rounds, and two agents
\* for two rounds next to commands of the same version and of an older one.
MCSetups ==
  {[roster |-> {a1, a2, a3}, rounds |-> 2, others |-> {}],
   [roster |-> {a1, a2}, rounds |-> 3, others |-> {}],
   [roster |-> {a1, a2}, rounds |-> 2, others |-> {{a1, a2}, {a3}}]}

MCKnobs ==
  [strategy |-> "stratified", limit |-> 2, minBrackets |-> 1, bracketCap |-> 2, linesThatFit |-> 1]

MCPositions == {"buy", "sell"}

Symmetry == Permutations({a1, a2})
=============================================================================
