----------------------------- MODULE MCMeasures -----------------------------
(***************************************************************************)
(* What is checked of Measures and of the events of Scoring: two rounds of *)
(* one roster, one round and its scores, one round and its citations, the  *)
(* sessions around an event.  The roster and its brackets are part of an   *)
(* input; MCAlgorithms says which inputs TLC tries, and the predicates     *)
(* here for which the properties are proved.                               *)
(***************************************************************************)
EXTENDS Scoring, MCInputs

\* The answers of a roster in one round; a confidence is a number of 1/Unit.
AnswersOf(roster) == [roster -> [signal : Signals, cited : SUBSET roster, conf : 0..Unit]]

\* Two rounds of a roster, what it is shown in the second, and what it reaches.
TwoRounds(m) ==
  /\ IsFiniteSet(m.agents)
  /\ m.before \in AnswersOf(m.agents) /\ m.after \in AnswersOf(m.agents)
  /\ m.shown \in [m.agents -> SUBSET m.agents]
  /\ m.reach \in [m.agents -> Nat]

\* One round of a roster, the reach of its agents, and its narrators.
OneRound(m) ==
  /\ IsFiniteSet(m.agents)
  /\ m.wave \in AnswersOf(m.agents)
  /\ m.reach \in [m.agents -> Nat]

\* What everybody is shown, never themselves, and names; who fails cites nobody.
OneExposure(m) ==
  /\ IsFiniteSet(m.agents)
  /\ m.shown \in [m.agents -> SUBSET m.agents]
  /\ \A a \in m.agents : a \notin m.shown[a]
  /\ m.named \in [m.agents -> SUBSET m.agents]
  /\ m.failed \subseteq m.agents

\* The sessions of two series, the headlines' times, and how many of which count.
OneEvent(m) ==
  /\ \A days \in {m.ticker, m.benchmark, m.horizons} : IsFiniteSet(days) /\ days \subseteq Nat \ {0}
  /\ m.horizons # {} /\ m.event \in Nat /\ m.window \in Nat
  /\ m.published \in Seq(Int) /\ m.most \in Nat

OneDay(m) == m.day \in 1..30 /\ m.first \in 0..6

-----------------------------------------------------------------------------
\* A change of position is counted in seven places, over other data each time:
\* the episodes, ShiftMetrics, the transition keys, the holdout and shock
\* splits, the retest, the report's pivots.  They always agree (metrics.py:138).
FlipsAgree ==
  Given("moves") =>
    LET Agents == input.agents
        before == input.before
        after == input.after
        flips == Cardinality({a \in Agents : FlipType(before[a].signal, after[a].signal) # NoFlip})
        cells == Transitions(before, after)
    IN  /\ TotalFlips(before, after) = flips
        /\ \A t \in DOMAIN Shifts(before, after) : Shifts(before, after)[t] = cells[t]
        /\ SumFunctionOnSet(cells, {t \in DOMAIN cells : t[1] # t[2]}) = flips
        /\ \A group \in SUBSET Agents :
             LET split == SplitFlips(before, after, group) IN split[1] + split[2] = flips
        /\ Retest(before, after) = <<flips, SumFunction(cells)>>
        /\ SumFunction(PivotsByBracket(before, after, input.bracketOf)) = flips
        /\ Conformity(before, after, input.shown)[2] <= flips

\* "PARSE_ERROR is excluded everywhere" (consensus.py:4): a failed agent might
\* as well not have been asked, for every estimator of a round.
FailuresCountNowhere ==
  Given("moves") =>
    LET Kept(w) == [a \in Active(w) |-> w[a]]
        Agents == input.agents
        BracketOf == input.bracketOf
        before == input.before
        after == input.after
        b == Kept(before)
        a == Kept(after)
        groups == Range(input.shown)
    IN  /\ \A group \in SUBSET Agents : SplitFlips(b, a, group) = SplitFlips(before, after, group)
        /\ Shifts(b, a) = Shifts(before, after) /\ Transitions(b, a) = Transitions(before, after)
        /\ Conformity(b, a, input.shown) = Conformity(before, after, input.shown)
        /\ ConfidenceDelta(b, a) = ConfidenceDelta(before, after)
        /\ Polarization(a) = Polarization(after)
        /\ \A weighting \in {"headcount", "reach", "bracket_equal"} :
             NetScore(a, Agents, weighting, BracketOf, input.reach)
               = NetScore(after, Agents, weighting, BracketOf, input.reach)
        /\ Majority(a, DOMAIN a) = Majority(after, Agents)
        /\ \A x \in BracketsOf(Agents, BracketOf) :
             Dissenters(a, Agents, BracketOf, x) = Dissenters(after, Agents, BracketOf, x)
        /\ PairwiseAgreement(a, groups) = PairwiseAgreement(after, groups)
        /\ CrossGroupAgreement(a, groups, Agents, BracketOf) = CrossGroupAgreement(after, groups, Agents, BracketOf)

Mirror(w) ==
  [a \in DOMAIN w |-> [w[a] EXCEPT !.signal = CASE @ = "buy" -> "sell" [] @ = "sell" -> "buy" [] OTHER -> @]]

AtMost(s, t) == s[1] * t[2] <= t[1] * s[2]
SamePair(s, t) == s[1] * t[2] = t[1] * s[2]

\* The two programs that score a round, and the two that find a majority, agree;
\* under every weighting a score stays in its range, does not fall when an agent
\* turns from hold to buy, and turns round when buy and sell change places; a
\* round is its narrators and the others (consensus.py:96, evaluation.py:270,
\* influence.py:73, graph/analytics.py:186).
ScoresKeepTheirSense ==
  Given("votes") =>
    LET Agents == input.agents
        BracketOf == input.bracketOf
        w == input.wave
        Net(x, weighting) == NetScore(x, Agents, weighting, BracketOf, input.reach)
        table == SummaryTable(w, Agents, BracketOf)
        forecasts == CycleForecasts(w, Agents, input.narrators, 1, 1)
    IN  /\ IF Active(w) = {} THEN Net(w, "headcount") = <<0, 1>>
           ELSE Net(w, "headcount") = HeadcountScore(w)
        /\ \A weighting \in {"headcount", "reach", "bracket_equal"} :
             LET s == Net(w, weighting) IN
             /\ AtMost(s, <<Unit, 1>>) /\ AtMost(<<-Unit, 1>>, s)
             /\ SamePair(Net(Mirror(w), weighting), <<-s[1], s[2]>>)
             /\ \A a \in Agents : w[a].signal = "hold" => AtMost(s, Net([w EXCEPT ![a].signal = "buy"], weighting))
             /\ LeanFromScore(s, <<1, 2>>) = "buy" <=> LeanFromScore(<<-s[1], s[2]>>, <<1, 2>>) = "sell"
        /\ AtMost(Polarization(w), <<1, 1>>)
        /\ \A b \in BracketsOf(Agents, BracketOf) :
             LET S == Members(Voters(w, Agents), BracketOf, b) IN
             /\ SumFunction(table[b]) = Cardinality(S)
             /\ Dissenters(w, Agents, BracketOf, b) = S \ UNION {Holding(w, S, p) : p \in Majority(w, S)}
        /\ (forecasts.narrators_only # None /\ ~(Active(w) \subseteq input.narrators)) =>
             /\ forecasts.swarm[1] = forecasts.narrators_only[1] + forecasts.ex_narrators[1]
             /\ forecasts.swarm[2] = forecasts.narrators_only[2] + forecasts.ex_narrators[2]

\* What was cited in one round of an exposure: only what was shown counts.
CitedWave(m) ==
  [a \in m.agents |->
     IF a \in m.failed THEN [signal |-> ParseError, cited |-> {}]
     ELSE [signal |-> "buy", cited |-> ValidCitations(m.named[a], m.shown[a], a)]]

\* The citations that count are of peers that were shown, so attention is the
\* same number wherever it is measured: received citations, influence weights,
\* cited of shown, valid of named (metrics.py:82, metrics.py:371, influence.py:60).
AttentionAgrees ==
  Given("cites") =>
    LET Agents == input.agents
        BracketOf == input.bracketOf
        w == CitedWave(input)
        named == [a \in Agents |-> IF a \in input.failed THEN {} ELSE input.named[a]]
        shown == input.shown
        seen == ShownTimes(shown)
        got == Received(w, Agents)
        weights == CitationWeights(UNION {{<<a, c>> : c \in w[a].cited} : a \in Agents}, Cardinality(Active(w)))
        slots == Slots(shown, Agents, BracketOf)
    IN  /\ \A p \in Agents : /\ p \in DOMAIN weights <=> got[p] > 0
                             /\ p \in DOMAIN weights => weights[p][1] = got[p]
                             /\ got[p] = IF p \in DOMAIN seen THEN CitedTimes(shown, w)[p] ELSE 0
        /\ \A p \in DOMAIN seen : LET rate == Influence(shown, w)[p] IN 0 < rate[1] /\ rate[1] < rate[2]
        /\ \A b \in DOMAIN BracketRates(shown, w, BracketOf) :
             LET rate == BracketRates(shown, w, BracketOf)[b] IN rate[1] < rate[2] /\ rate[2] = slots[b] + 2
        /\ SumFunction(slots) = SumFunction(seen) /\ DistinctPeers(shown, Agents) = Cardinality(DOMAIN seen)
        /\ \A b \in DOMAIN slots : Readers(shown, Agents, BracketOf)[b] <= slots[b]
        /\ Validity(named, shown)[1] = SumFunction(got) /\ Validity(named, shown)[1] <= Validity(named, shown)[2]

\* Whatever measures, counts or scores a round says the same of it, and a failed
\* answer nowhere weighs as a vote, a change of mind or attention
\* (metrics.py:134-153, consensus.py:96-114, evaluation.py:270-280).
MeasuresAgree == FlipsAgree /\ FailuresCountNowhere /\ ScoresKeepTheirSense /\ AttentionAgrees

-----------------------------------------------------------------------------
\* The sessions around an event, their early closes included, are told apart:
\* nothing the swarm is shown of an event is later than the event and no other
\* headline was more recent, nothing it is scored on is known by then, and with
\* both series complete the return starts at the very close that was shown
\* (build_fixtures.py:79, evaluation.py:363).
NoLookAhead ==
  /\ Given("calendar") =>
       LET Thursdays == {d \in 1..input.day - 1 : Weekday(input.first, d) = 3} IN
       IsEarlyClose(11, input.day, input.first) <=> (input.day - 1 \in Thursdays /\ Cardinality(Thursdays) = 4)
  /\ Given("events") =>
    LET early == input.early
        event == input.event
        published == input.published
        before == {i \in DOMAIN published : published[i] < event}
        eligible == EligibleHeadlines(published, event, input.most)
        shown == FixtureBar(input.ticker, early, event)
        outcome == OutcomeDays(input.ticker, input.benchmark, early, event, input.window, input.horizons)
    IN  /\ shown # None => SessionClose(shown, early) <= event
        /\ eligible \subseteq before /\ Cardinality(eligible) = Min({input.most, Cardinality(before)})
        /\ \A i \in eligible, j \in before \ eligible : published[j] <= published[i]
        /\ outcome # None =>
             /\ SessionClose(outcome.base, early) <= event
             /\ \A h \in input.horizons :
                  /\ event < SessionClose(outcome.ends[h], early)
                  /\ \A k \in input.horizons : h < k => outcome.ends[h] < outcome.ends[k]
             /\ outcome.base <= shown
             /\ input.ticker \subseteq input.benchmark => outcome.base = shown
=============================================================================
