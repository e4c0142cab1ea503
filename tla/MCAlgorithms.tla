---------------------------- MODULE MCAlgorithms ----------------------------
(***************************************************************************)
(* The algorithms of Measures and Scoring on every input of a few small    *)
(* kinds: two rounds of three agents, one round with confidences, a round  *)
(* with peers and citations, two series of numbers, forecasts of two       *)
(* events, the sessions around an event, and the days of a November.       *)
(***************************************************************************)
EXTENDS MCMeasures, MCAnswers, MCMarketContext, MCAdvisory, MCPlacement

Agents == 1..3
BracketOf == <<"quants", "quants", "doomers">>
Others(a) == Agents \ {a}

MCPositions == {"buy", "sell", "hold"}

\* A confidence that differs by agent and by round.
Wave(signals, conf) ==
  [a \in Agents |-> [signal |-> signals[a], cited |-> {}, conf |-> IF signals[a] = ParseError THEN 0 ELSE conf[a]]]

\* What is shown in round 2: to everybody all others, to nobody anything, or
\* something else to each.
Shown == {[a \in Agents |-> Others(a)], [a \in Agents |-> {}], <<{2}, {1, 3}, {1}>>}

Inputs(k) ==
  CASE k = "moves" ->
         {[agents |-> Agents, bracketOf |-> BracketOf, reach |-> <<1, 2, 0>>,
           before |-> Wave(s, <<1, 2, 1>>), after |-> Wave(t, <<2, 2, 1>>), shown |-> h] :
            s \in [Agents -> Signals], t \in [Agents -> Signals], h \in Shown}
    [] k = "votes" ->
         {[agents |-> Agents, bracketOf |-> BracketOf, wave |-> Wave(s, c), reach |-> r, narrators |-> {3}] :
            s \in [Agents -> Signals], c \in [Agents -> 1..2], r \in [Agents -> 0..2]}
    [] k = "cites" ->
         {[agents |-> Agents, bracketOf |-> BracketOf, shown |-> h, named |-> n, failed |-> f] :
            h \in {x \in [Agents -> SUBSET Agents] : \A a \in Agents : a \notin x[a]},
            n \in [Agents -> UNION {kSubset(i, Agents) : i \in 1..2}],
            f \in {{}, {3}}}
    [] k = "series" -> {[xs |-> x, ys |-> y] : x \in [1..4 -> 1..3], y \in [1..4 -> 1..3]}
    [] k = "forecasts" ->
         {[ours |-> s, theirs |-> t, labels |-> l] :
            s \in [1..2 -> -Unit..Unit], t \in [2..3 -> -Unit..Unit], l \in [1..2 -> {"up", "flat", "down"}]}
    [] k = "events" ->
         {[ticker |-> t, benchmark |-> b, early |-> e, event |-> 24 * d + h, window |-> 1, horizons |-> {1, 2},
           published |-> [i \in 1..4 |-> 24 * d + h + <<-2, 0, -1, 1>>[i]], most |-> m] :
            t \in SUBSET (1..4), b \in SUBSET (1..4), e \in SUBSET (2..3), d \in 2..3, h \in {0, 13, 15, 16, 23},
            m \in 1..2}
    [] k = "calendar" -> {[day |-> d, first |-> f] : d \in 1..30, f \in 0..6}

\* Each of them is an input the theorems about these properties speak of.
ASSUME InputsAreProved ==
  /\ \A m \in Inputs("moves") : TwoRounds(m)
  /\ \A m \in Inputs("votes") : OneRound(m)
  /\ \A m \in Inputs("cites") : OneExposure(m)
  /\ \A m \in Inputs("events") : OneEvent(m)
  /\ \A m \in Inputs("calendar") : OneDay(m)
  /\ \A m \in AnswerInputs("call") : OneCall(m)
  /\ \A m \in AnswerInputs("quotes") : OneText(m)
  /\ \A m \in AnswerInputs("reply") : OneReply(m)
  /\ \A m \in AnswerInputs("replies") : SomeTries(m)
  /\ \A m \in AnswerInputs("interview") : OneInterview(m)
  /\ \A m \in FailureInputs("wave") : OneWave(m)
  /\ \A m \in FailureInputs("endpoint") : OneEndpoint(m)

Init ==
  /\ kind \in {"moves", "votes", "cites", "series", "forecasts", "events", "calendar"}
               \cup AnswerKinds \cup MarketKinds \cup AdviceKinds \cup FailureKinds
  /\ input = NoInput

Choose ==
  /\ input = NoInput
  /\ input' \in CASE kind \in AnswerKinds -> AnswerInputs(kind)
                   [] kind \in MarketKinds -> MarketInputs(kind)
                   [] kind \in AdviceKinds -> AdviceInputs(kind)
                   [] kind \in FailureKinds -> FailureInputs(kind)
                   [] OTHER -> Inputs(kind)
  /\ UNCHANGED kind

Spec == Init /\ [][Choose]_<<kind, input>>

-----------------------------------------------------------------------------
\* The statistics are what their definitions say: bracket_equal is the mean of the
\* brackets' scores, the Gini coefficient half the mean difference over the mean,
\* tied ranks share the mean of their places and Spearman's formula follows
\* without ties, a bin for every forecast, quantiles between the extremes and in
\* order, a verdict and hits that turn round with the comparison
\* (consensus.py:96, metrics.py:82, evaluation.py:437-666).
StatsMatchDefinitions ==
  /\ Given("votes") =>
       LET w == input.wave
           Part(b) == NetScore([a \in Members(Agents, BracketOf, b) |-> w[a]], Agents, "headcount", <<>>, <<>>)
           q == Part("quants")
           d == Part("doomers")
       IN  BracketsOf(Voters(w, Agents), BracketOf) = BracketsOf(Agents, BracketOf) =>
             SamePair(NetScore(w, Agents, "bracket_equal", BracketOf, input.reach),
                      <<q[1] * d[2] + d[1] * q[2], 2 * q[2] * d[2]>>)
  /\ Given("cites") =>
       LET w == CitedWave(input)
           got == Received(w, Agents)
       IN  \A g \in CitationGini(w, Agents) :
             /\ g[1] = Abs(got[1] - got[2]) + Abs(got[1] - got[3]) + Abs(got[2] - got[3])
             /\ AtMost(g, <<2, 3>>)
  /\ Given("series") =>
       LET xs == input.xs
           ys == input.ys
           Less(i) == Cardinality({j \in 1..4 : xs[j] < xs[i]})
           Equal(i) == Cardinality({j \in 1..4 : xs[j] = xs[i]})
           rho == SpearmanRho(xs, ys)
           down == SpearmanRho(xs, [i \in 1..4 |-> -ys[i]])
       IN  /\ \A i \in 1..4 : AverageRanks(xs)[i] = 2 * Less(i) + Equal(i) + 1
           /\ rho = None <=> (Cardinality(Range(xs)) = 1 \/ Cardinality(Range(ys)) = 1)
           /\ rho # None => /\ rho[1] * rho[1] <= rho[2] * rho[3]
                            /\ down = <<-rho[1], rho[2], rho[3]>>
                            /\ xs = ys => rho[1] = rho[2]
           /\ (\A i, j \in 1..4 : i < j => xs[i] <= xs[j]) =>
                \A q \in {0, 1, 13, 20, 39, 40} : LET v == Quantile(xs, q, 40) IN
                  /\ xs[1] * 40 <= v[1] /\ v[1] <= xs[4] * 40
                  /\ \A r \in {1, 13, 39} : q < r => AtMost(v, Quantile(xs, r, 40))
           /\ LET candidates ==
                    [v \in 1..4 |-> [peers |-> [mean |-> xs[v], lo |-> xs[v] - ys[v]],
                                     brier |-> IF ys[v] = 1 THEN None ELSE [hi |-> ys[v]]]]
                  good == {v \in 1..4 : xs[v] > ys[v] /\ ys[v] <= 2}
                  widest == {v \in good : \A u \in good : xs[u] <= xs[v]}
              IN  AdviseG15(candidates, 2) = IF good = {} THEN None ELSE Min(widest)
  /\ Given("forecasts") =>
       LET ours == input.ours
           labels == input.labels
           away == [e \in 1..2 |-> -ours[e]]
           brier == BrierByEvent(ours, labels)
           difference == PairedDifference(ours, input.theirs)
           i == Interval(<<Min({ours[1], ours[2]}), Max({ours[1], ours[2]})>>, 2)
           turned == Interval(<<Min({away[1], away[2]}), Max({away[1], away[2]})>>, 2)
       IN  /\ \A e \in 1..2 : \E b \in 0..4 : \A c \in 0..4 : InBin(PUp(ours[e]), c, 5) <=> b = c
           /\ Directional(ours, labels) \ {e \in 1..2 : ours[e] = 0} = Hits(ours, labels) \cup Hits(away, labels)
           /\ Hits(ours, labels) \cap Hits(away, labels) = {}
           /\ Accuracy3(ours, labels, 0) \ Hits(ours, labels) = {e \in 1..2 : ours[e] = 0 /\ labels[e] = "flat"}
           /\ \A e \in DOMAIN brier : e \in Hits(ours, labels) <=> brier[e] < Unit * Unit
           /\ PairedDifference(input.theirs, ours) = [e \in DOMAIN difference |-> -difference[e]]
           /\ LET c == CompareArm(ours, input.theirs, 1)
                  d == CompareArm(input.theirs, ours, 1)
              IN  /\ c.delta = difference /\ c.shift = d.shift /\ c.agree = d.agree
                  /\ c.shift[2] = 0 => c.agree = 1
           /\ \A e \in 1..2 : LabelOf(ours[e], 1) = "up" <=> LabelOf(away[e], 1) = "down"
           /\ AtMost(i.lo, i.hi)
           /\ Verdict(i) = "swarm better" <=> Verdict(turned) = "swarm worse"
           /\ Verdict(i) = "swarm better" => \A e \in 1..2 : ours[e] <= 0

\* What a proposal of the orchestrator may become, what a published headline may
\* contain, and what the block of round 1 shows: see MCMarketContext.
ContextIsWhatWasFetched ==
  /\ Given("names") => TickersAgreeWithNames(input.entries, input.entity)
  /\ Given("title") => HeadlineForgesNothing(input)
  /\ Given("market") => ContextIsWhatCame(input.entities, input.fetched, input.feeds)

\* What the evidence for a holding is, what the report shows, and what the prompt
\* says of the portfolio: see MCAdvisory.
AdviceIsGrounded ==
  /\ Given("evidence") => EvidenceIsOfThoseWhoNamedIt(input)
  /\ Given("advice") => ReportIsGrounded(input.portfolio, input.reply, input.found)
  /\ Given("asked") => PromptKeepsPortfolioPrivate(input.portfolio, input.entities, input.words)

\* Where calls are made, with which limits and which schema: see MCPlacement.
CallsGoWhereConfigured ==
  /\ Given("place") => PlacementHolds(input)
  /\ Given("preflight") => PreflightRefusesForGood(input)
  /\ Given("schema") => SchemaKeepsItsMeaning(input)

-----------------------------------------------------------------------------
(* What the run checks of the parts above. *)

\* A role's host, gate, limit and schema agree, its prompt fences what comes from
\* outside, no backoff passes its cap, and a run costs what was estimated.  Not
\* among the inputs are prices that a user overrides with zero and the waits that
\* a Retry-After asks for (factory.py:229-459, retry.py:110, budget.py:225-323).
CallsAgree == WaitsAreCapped /\ PromptsFenceData /\ EstimateMeetsMeter /\ CallsGoWhereConfigured

\* What a prompt or a report says of the market, the swarm or the portfolio is
\* what was fetched, decided or held (market_context.py:38, advisory/engine.py:213).
InputsAreGrounded == ContextIsWhatWasFetched /\ AdviceIsGrounded
=============================================================================
