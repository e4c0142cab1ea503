------------------------------ MODULE Measures ------------------------------
(***************************************************************************)
(* What is computed from one round of decisions, or from two: changes of   *)
(* position, consensus scores, majorities, agreement and the attention     *)
(* that citations show (rounds.py, metrics.py, consensus.py, influence.py, *)
(* peers.py, graph/analytics.py).  A wave maps agents to records with      *)
(* their signal, and where it matters their confidence conf (in whole      *)
(* units) and the set cited.  A quotient is the pair <<above, below>>; a   *)
(* result the code may leave out is a set with at most one member.         *)
(***************************************************************************)
EXTENDS PeerSelection, Sequences

CONSTANT Positions  \* SignalType without PARSE_ERROR

ParseError == "parse_error"
Signals == Positions \cup {ParseError}

Failed(w) == {a \in DOMAIN w : w[a].signal = ParseError}
Active(w) == DOMAIN w \ Failed(w)
Both(before, after) == Active(before) \cap Active(after)

Holding(w, S, p) == {a \in S : w[a].signal = p}
Total(f, S) == SumFunctionOnSet(f, S)

-----------------------------------------------------------------------------
(* Changes of position, each counted where the code counts it. *)

NoFlip == <<"none">>

\* Bug: an answer after a failure counts as a change of position.
FlipTypeOfErrors(before, after) == IF before = after THEN NoFlip ELSE <<before, after>>

\* compute_flip_type: from which position to which.
FlipType(before, after) ==
  IF ParseError \in {before, after} \/ before = after THEN NoFlip ELSE <<before, after>>

\* compute_shifts: how often each position was left for another one.
Shifts(before, after) ==
  [t \in {pq \in Positions \X Positions : pq[1] # pq[2]} |->
     Cardinality({a \in DOMAIN before \cap DOMAIN after :
                    before[a].signal = t[1] /\ after[a].signal = t[2]})]

TotalFlips(before, after) == SumFunction(Shifts(before, after))

\* transition_matrix: those who stayed are counted too.
Transitions(before, after) ==
  [t \in Positions \X Positions |->
     Cardinality({a \in Both(before, after) : <<before[a].signal, after[a].signal>> = t})]

Movers(before, after) == {a \in Both(before, after) : before[a].signal # after[a].signal}

\* split_flips: the movers inside a group (holdout, shock arm) and outside.
SplitFlips(before, after, group) ==
  <<Cardinality(Movers(before, after) \cap group), Cardinality(Movers(before, after) \ group)>>

\* retest_metrics: the movers between two draws of round 1, and of how many.
Retest(first, second) ==
  <<Cardinality(Movers(first, second)), Cardinality(Both(first, second))>>

\* The strict plurality among the peers shown, in the round they were shown.
PeerMajority(shown, before) ==
  LET Votes(p) == Cardinality(Holding(before, shown \cap Active(before), p)) IN
  {p \in Positions : Votes(p) > 0 /\ \A q \in Positions \ {p} : Votes(q) < Votes(p)}

\* conformity_rate: movers who moved to that plurality, of those who had one.
Conformity(before, after, shown) ==
  LET judged == {a \in Movers(before, after) : PeerMajority(shown[a], before) # {}} IN
  <<Cardinality({a \in judged : after[a].signal \in PeerMajority(shown[a], before)}),
    Cardinality(judged)>>

\* mean_abs_confidence_delta.
ConfidenceDelta(before, after) ==
  LET delta == [a \in Both(before, after) |-> Max({after[a].conf - before[a].conf, before[a].conf - after[a].conf})]
  IN  <<SumFunction(delta), Cardinality(DOMAIN delta)>>

-----------------------------------------------------------------------------
(* Consensus.  reach is influence_weight_base in whole units. *)

Direction(p) == CASE p = "buy" -> 1 [] p = "sell" -> -1 [] OTHER -> 0

\* votes_from_decisions: the decided agents that are on the roster.
Voters(w, roster) == Active(w) \cap roster

\* _weights, each times the product of the brackets' sizes.
Weights(voters, weighting, bracketOf, reach) ==
  LET size == [b \in BracketsOf(voters, bracketOf) |-> Cardinality(Members(voters, bracketOf, b))]
      common == ProductSet(Range(size))
  IN  [a \in voters |->
         CASE weighting = "headcount" -> 1
           [] weighting = "reach" -> reach[a]
           [] weighting = "bracket_equal" -> common \div size[bracketOf[a]]]

\* net_score_votes: 0 if nobody decided or nobody has any weight.
NetScore(w, roster, weighting, bracketOf, reach) ==
  LET voters == Voters(w, roster)
      weight == Weights(voters, weighting, bracketOf, reach)
      total == SumFunction(weight)
  IN  IF total <= 0 THEN <<0, 1>>
      ELSE <<SumFunction([a \in voters |-> weight[a] * Direction(w[a].signal) * w[a].conf]), total>>

\* lean_from_score: the deadband counts as hold on both sides.
LeanFromScore(score, deadband) ==
  CASE score[1] * deadband[2] > deadband[1] * score[2] -> "buy"
    [] score[1] * deadband[2] < -deadband[1] * score[2] -> "sell"
    [] OTHER -> "hold"

\* polarization: 4 p_buy p_sell.
Polarization(w) ==
  LET n == Cardinality(Active(w)) IN
  IF n = 0 THEN <<0, 1>>
  ELSE <<4 * Cardinality(Holding(w, Active(w), "buy")) * Cardinality(Holding(w, Active(w), "sell")), n * n>>

\* compute_bracket_summaries: the positions of a bracket, without failures.
SummaryTable(w, roster, bracketOf) ==
  [b \in BracketsOf(roster, bracketOf) |->
     [p \in Positions |-> Cardinality(Holding(w, Members(roster, bracketOf, b), p))]]

\* influence.majority: ties BUY, then SELL, then HOLD; nothing without votes.
Majority(w, S) ==
  LET Votes(p) == Cardinality(Holding(w, S, p))
      best == Max({Votes(p) : p \in Positions})
      leading == {p \in Positions : Votes(p) = best}
  IN  IF best = 0 THEN {}
      ELSE IF "buy" \in leading THEN {"buy"}
      ELSE IF "sell" \in leading THEN {"sell"} ELSE {"hold"}

\* Bug: of two equal camps the later one is the majority.
DissentersFromLast(w, roster, bracketOf, b) ==
  LET S == Members(Voters(w, roster), bracketOf, b)
      Votes(p) == Cardinality(Holding(w, S, p))
      majority == IF Votes("hold") >= Votes("sell") /\ Votes("hold") >= Votes("buy") THEN "hold"
                  ELSE IF Votes("sell") >= Votes("buy") THEN "sell" ELSE "buy"
  IN  S \ Holding(w, S, majority)

\* read_key_dissenters: those of a bracket who are not with its majority.
Dissenters(w, roster, bracketOf, b) ==
  LET S == Members(Voters(w, roster), bracketOf, b)
      Votes(p) == Cardinality(Holding(w, S, p))
      majority == IF Votes("buy") >= Votes("sell") /\ Votes("buy") >= Votes("hold") THEN "buy"
                  ELSE IF Votes("sell") >= Votes("hold") THEN "sell" ELSE "hold"
  IN  S \ Holding(w, S, majority)

\* aggregate_shock_impact: who pivoted across the shock, by bracket.
PivotsByBracket(before, after, bracketOf) ==
  LET comparable == Both(before, after) IN
  [b \in BracketsOf(comparable, bracketOf) |->
     Cardinality({a \in Members(comparable, bracketOf, b) : before[a].signal # after[a].signal})]

\* pairwise_agreement, and cross_group_agreement for the same-bracket pairs
\* of different groups: the pairs that agree, and of how many.
Agreement(w, pairs) ==
  <<Cardinality({q \in pairs : \A a, b \in q : w[a].signal = w[b].signal}), Cardinality(pairs)>>
PairwiseAgreement(w, groups) == Agreement(w, UNION {kSubset(2, g \cap Active(w)) : g \in groups})
CrossGroupAgreement(w, groups, roster, bracketOf) ==
  LET S == Voters(w, roster) IN
  Agreement(w, UNION {{q \in kSubset(2, Members(S, bracketOf, b)) : ~ \E g \in groups : q \subseteq g} :
                         b \in BracketsOf(S, bracketOf)})

-----------------------------------------------------------------------------
(* Citations and exposure.  shown maps each reader to the peers it saw. *)

\* citation_weights: distinct citers over active agents.
CitationWeights(ps, active) ==
  [t \in {p[2] : p \in ps} |-> <<Cardinality({p \in ps : p[2] = t}), active>>]

\* How many others cite each agent of the roster.
Received(w, roster) == [a \in roster |-> Cardinality({c \in Active(w) \ {a} : a \in w[c].cited})]

\* citation_gini, from the citation counts in ascending order.
CitationGini(w, roster) ==
  LET got == Received(w, roster)
      n == Cardinality(roster)
      place == CHOOSE f \in [roster -> 1..n] :
                 IsInjective(f) /\ \A a, b \in roster : got[a] < got[b] => f[a] < f[b]
      total == SumFunction(got)
  IN  IF total = 0 THEN {}
      ELSE {<<2 * SumFunction([a \in roster |-> place[a] * got[a]]) - (n + 1) * total, n * total>>}

\* _exposure_counts: for every agent that was shown, to how many readers, and
\* how many of those cited it.
ShownTimes(shown) ==
  [p \in UNION Range(shown) |-> Cardinality({r \in DOMAIN shown : p \in shown[r]})]
CitedTimes(shown, w) ==
  [p \in UNION Range(shown) |->
     Cardinality({r \in DOMAIN shown \cap DOMAIN w : p \in shown[r] \cap w[r].cited})]

\* exposure_normalized_influence, with the prior Beta(1, 1).
Influence(shown, w) ==
  [p \in UNION Range(shown) |-> <<CitedTimes(shown, w)[p] + 1, ShownTimes(shown)[p] + 2>>]

\* bracket_citation_rates: the same, pooled by bracket.
BracketRates(shown, w, bracketOf) ==
  [b \in BracketsOf(UNION Range(shown), bracketOf) |->
     LET S == Members(UNION Range(shown), bracketOf, b) IN
     <<Total(CitedTimes(shown, w), S) + 1, Total(ShownTimes(shown), S) + 2>>]

\* compute_exposure_metrics: the slots each bracket fills, the readers that
\* see it, and the distinct peers anybody is shown.
Slots(shown, roster, bracketOf) ==
  [b \in BracketsOf(roster, bracketOf) |->
     Cardinality({rp \in (DOMAIN shown) \X Members(roster, bracketOf, b) : rp[2] \in shown[rp[1]]})]
Readers(shown, roster, bracketOf) ==
  [b \in BracketsOf(roster, bracketOf) |->
     Cardinality({r \in DOMAIN shown : shown[r] \cap Members(roster, bracketOf, b) # {}})]
DistinctPeers(shown, roster) == Cardinality((UNION Range(shown)) \cap roster)

\* round_experiment_metrics: invalid citations are those the filter dropped.
Validity(named, shown) ==
  LET valid == [r \in DOMAIN named |-> Cardinality(ValidCitations(named[r], shown[r], r))]
  IN  <<SumFunction(valid), SumFunction([r \in DOMAIN named |-> Cardinality(named[r])])>>
=============================================================================
