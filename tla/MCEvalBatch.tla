---------------------------- MODULE MCEvalBatch ----------------------------
(* A small evaluation: two seeds of the named arm and one of the anonymized, *)
(* in one shell, or, with less to happen, in two, and with two tool          *)
(* processes at once.                                                        *)
EXTENDS EvalBatch, TLC

CONSTANTS r1, r2, t1, t2

SmallArms == [swarm |-> [variant |-> "named", seeds |-> {1, 2}],
              anon |-> [variant |-> "anon", seeds |-> {1}]]
SmallSetups == {[tools |-> {t1}, shells |-> {r1}, cycles |-> 3, upsets |-> 1],
                [tools |-> {t1}, shells |-> {r1}, cycles |-> 1, upsets |-> 2],
                [tools |-> {t1}, shells |-> {r1, r2}, cycles |-> 2, upsets |-> 0],
                [tools |-> {t1}, shells |-> {r1, r2}, cycles |-> 1, upsets |-> 1],
                [tools |-> {t1, t2}, shells |-> {r1}, cycles |-> 2, upsets |-> 0]}

Symmetry == Permutations(Blocks) \cup Permutations({r1, r2}) \cup Permutations({t1, t2})
=============================================================================
