------------------------------- MODULE Scoring -------------------------------
(***************************************************************************)
(* How forecasts of events are made, labelled and compared                 *)
(* (evaluation.py, eval/build_fixtures.py, eval/run_eval.py).  Time is in  *)
(* hours, a session is its day; a score is a number of 1/Unit; ranks are   *)
(* doubled; a quotient is the pair <<above, below>>, and None stands for   *)
(* a result the code does not have.  Logarithms, square roots and the      *)
(* bootstrap's draws are left out: a bootstrap is the samples it drew.     *)
(***************************************************************************)
EXTENDS Measures

CONSTANTS
  Unit,  \* the score 1.0
  None   \* no result

ASSUME ScoringAssumption == Unit \in Nat \ {0}

Abs(n) == Max({n, -n})

-----------------------------------------------------------------------------
(* What the swarm is shown of an event, and what the event is scored on. *)

\* Weekdays count from Monday = 0; first is the weekday of the month's first.
Weekday(first, day) == (first + day - 1) % 7

\* is_early_close: July 3 and December 24 up to Thursday, and the day after
\* Thanksgiving.
IsEarlyClose(month, day, first) ==
  CASE <<month, day>> \in {<<7, 3>>, <<12, 24>>} -> Weekday(first, day) < 4
    [] month = 11 -> day = 1 + ((3 - first) % 7) + 21 + 1
    [] OTHER -> FALSE

\* session_close_utc, on the days in early at 13:00.
SessionClose(day, early) == 24 * day + (IF day \in early THEN 13 ELSE 16)

\* Bug: the bars of the event's own day are shown, closed or not.
ShownBarsOfTheDay(bars, early, event) == {d \in bars : 24 * d <= event}

\* fixture_window and fixture_for: of the downloaded bars those that closed.
ShownBars(bars, early, event) ==
  {d \in bars : d <= event \div 24 /\ SessionClose(d, early) <= event}

FixtureBar(bars, early, event) ==
  IF ShownBars(bars, early, event) = {} THEN None ELSE Max(ShownBars(bars, early, event))

\* eligible_headlines: the most recent of those published before.
EligibleHeadlines(published, event, most) ==
  LET before == {i \in DOMAIN published : published[i] < event}
      Later(i) == {j \in before : published[j] > published[i] \/ (published[j] = published[i] /\ j > i)}
  IN  {i \in before : Cardinality(Later(i)) < most}

\* The sessions both series have, ascending.
CommonDays(ticker, benchmark) ==
  LET S == ticker \cap benchmark IN
  CHOOSE f \in [1..Cardinality(S) -> S] : \A i, j \in DOMAIN f : i < j => f[i] < f[j]

\* base_index: the loop stops at the first session that closed later.
BaseIndex(days, early, event) ==
  Max({0} \cup {i \in DOMAIN days : \A j \in 1..i : SessionClose(days[j], early) <= event})

\* compute_outcome: the session of the base and those the returns end at,
\* with window sessions before and enough sessions after.
OutcomeDays(ticker, benchmark, early, event, window, horizons) ==
  LET days == CommonDays(ticker, benchmark)
      base == BaseIndex(days, early, event)
  IN  IF base = 0 \/ base - 1 < window \/ base + Max(horizons) > Len(days)
      THEN None
      ELSE [base |-> days[base], ends |-> [h \in horizons |-> days[base + h]]]

\* _direction: below the volatility's share a move is flat.
LabelOf(value, flat) ==
  IF Abs(value) < flat THEN "flat" ELSE IF value > 0 THEN "up" ELSE "down"

-----------------------------------------------------------------------------
(* Forecasts and their scores. *)

\* headcount_score of the baselines: the sum and the number of valid votes.
HeadcountScore(w) ==
  LET votes == {a \in DOMAIN w : w[a].signal \in {"buy", "hold", "sell"}} IN
  <<SumFunction([a \in votes |-> Direction(w[a].signal) * w[a].conf]), Cardinality(votes)>>

\* cycle_forecasts of one round: the swarm without and within the narrators.
CycleForecasts(w, roster, narrators, fewest, fewestNarrators) ==
  LET Net(S) == NetScore([a \in S |-> w[a]], roster, "headcount", <<>>, <<>>)
      enough == Cardinality(Active(w)) >= fewest
  IN  [swarm |-> IF enough THEN Net(DOMAIN w) ELSE None,
       ex_narrators |-> IF enough THEN Net(DOMAIN w \ narrators) ELSE None,
       narrators_only |->
         IF enough /\ Cardinality(Active(w) \cap narrators) >= fewestNarrators
         THEN Net(DOMAIN w \cap narrators) ELSE None]

\* lean3.
Lean3(score, deadband) ==
  CASE score > deadband -> "up" [] score < -deadband -> "down" [] OTHER -> "flat"

\* p_up, of 2 * Unit.
PUp(score) == Min({2 * Unit, Max({0, Unit + score})})

\* brier, of (2 * Unit)^2.
Brier(p, up) == LET miss == p - (IF up THEN 2 * Unit ELSE 0) IN miss * miss

\* score_forecaster: the directional events called with the right sign.
Hits(scores, labels) ==
  {e \in DOMAIN scores \cap DOMAIN labels :
     \/ scores[e] > 0 /\ labels[e] = "up"
     \/ scores[e] < 0 /\ labels[e] = "down"}

Directional(scores, labels) == {e \in DOMAIN scores \cap DOMAIN labels : labels[e] # "flat"}

Accuracy3(scores, labels, deadband) ==
  {e \in DOMAIN scores \cap DOMAIN labels : Lean3(scores[e], deadband) = labels[e]}

\* brier_by_event.
BrierByEvent(scores, labels) ==
  [e \in Directional(scores, labels) |-> Brier(PUp(scores[e]), labels[e] = "up")]

\* paired_difference: over the events both have.
PairedDifference(a, b) == [e \in DOMAIN a \cap DOMAIN b |-> a[e] - b[e]]

-----------------------------------------------------------------------------
(* Statistics. *)

\* Bug: each of several equal values has the rank of the first of them.
TiedRanksFirst(values) ==
  [i \in DOMAIN values |-> 2 * (Cardinality({j \in DOMAIN values : values[j] < values[i]}) + 1)]

\* average_ranks: values that are equal share the mean of their places.
AverageRanks(values) ==
  LET order == CHOOSE f \in [DOMAIN values -> DOMAIN values] :
                 IsInjective(f) /\ \A i, j \in DOMAIN f : i < j => values[f[i]] <= values[f[j]]
      Places(i) == {k \in DOMAIN values : values[order[k]] = values[i]}
  IN  [i \in DOMAIN values |-> Min(Places(i)) + Max(Places(i))]

\* spearman_rho: the covariance of the ranks and the two variances; none
\* for fewer than three points or a constant series.  The doubled ranks of n
\* values have the mean n + 1.
SpearmanRho(xs, ys) ==
  LET n == Len(xs)
      Deviation(ranks) == [i \in 1..n |-> ranks[i] - (n + 1)]
      Product(f, g) == SumFunction([i \in 1..n |-> f[i] * g[i]])
      dx == Deviation(AverageRanks(xs))
      dy == Deviation(AverageRanks(ys))
  IN  IF n < 3 \/ Product(dx, dx) = 0 \/ Product(dy, dy) = 0
      THEN None ELSE <<Product(dx, dy), Product(dx, dx), Product(dy, dy)>>

\* reliability_bins: the last bin keeps its upper edge.
InBin(p, b, bins) ==
  \/ b * 2 * Unit <= p * bins /\ p * bins < (b + 1) * 2 * Unit
  \/ b = bins - 1 /\ p = 2 * Unit

\* _quantile at above/below, of ascending values.
Quantile(sorted, above, below) ==
  LET place == above * (Len(sorted) - 1)
      lower == place \div below + 1
      upper == IF place % below = 0 THEN lower ELSE lower + 1
  IN  <<sorted[lower] * below + (sorted[upper] - sorted[lower]) * (place % below), below>>

\* cluster_bootstrap, given the samples it drew, ascending: no interval for
\* one event.
Interval(means, clusters) ==
  CASE clusters = 0 -> None
    [] clusters = 1 -> [lo |-> None, hi |-> None]
    [] OTHER -> [lo |-> Quantile(means, 1, 40), hi |-> Quantile(means, 39, 40)]

\* verdict on a difference of Brier scores, swarm - other.
Verdict(interval) ==
  IF interval = None \/ interval.lo = None THEN "insufficient data"
  ELSE IF interval.hi[1] < 0 THEN "swarm better"
  ELSE IF interval.lo[1] > 0 THEN "swarm worse" ELSE "inconclusive"

-----------------------------------------------------------------------------
(* The ablations.  An interval here is [mean, lo, hi]. *)

\* advise_g15: in ascending order of the boost, the first with the largest
\* gain in peers, of those whose interval is above zero at no Brier cost.
AdviseG15(candidates, mostCost) ==
  LET qualified == {v \in DOMAIN candidates :
                      /\ candidates[v].peers # None /\ candidates[v].peers.lo > 0
                      /\ candidates[v].brier = None \/ candidates[v].brier.hi <= mostCost}
      Better(v, best) == best = None \/ candidates[v].peers.mean > candidates[best].peers.mean
      Pick[S \in SUBSET qualified] ==
        IF S = {} THEN None
        ELSE LET v == Max(S) IN IF Better(v, Pick[S \ {v}]) THEN v ELSE Pick[S \ {v}]
  IN  Pick[qualified]

\* compare_arm: the metric's differences on the pairs both arms have, the
\* size of the shift, and on how many the lean agrees.
CompareArm(arm, ref, deadband) ==
  LET pairs == DOMAIN arm \cap DOMAIN ref
      both == {k \in pairs : arm[k] # None /\ ref[k] # None}
  IN  [delta |-> [k \in both |-> arm[k] - ref[k]],
       shift |-> [k \in both |-> Abs(arm[k] - ref[k])],
       agree |-> Cardinality({k \in both : Lean3(arm[k], deadband) = Lean3(ref[k], deadband)})]
=============================================================================
