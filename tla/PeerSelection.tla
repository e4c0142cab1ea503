--------------------------- MODULE PeerSelection ---------------------------
(***************************************************************************)
(* Which peers a reader is shown, and which citations of them count        *)
(* (peers.py, metrics.py filter_citations).  A random draw is an argument: *)
(* a ranking of what is drawn from, the best first; two rankings of one    *)
(* set are two states of the generator.  Fractions are percentages.        *)
(***************************************************************************)
EXTENDS Integers, FiniteSets, FiniteSetsExt, Functions

\* The part of S that a ranking puts among its first n.
Top(S, rank, n) == {x \in S : Cardinality({y \in S : rank[y] > rank[x]}) < n}

Best(S, rank) == CHOOSE x \in S : \A y \in S : rank[y] <= rank[x]

\* _sampling_key: a weight without reach draws behind every weight with reach.
Rankings(S, weight) ==
  {rank \in [S -> 1..Cardinality(S)] :
     /\ IsInjective(rank)
     /\ \A x, y \in S : weight[x] > 0 /\ weight[y] <= 0 => rank[x] > rank[y]}

Candidates(reader, roster, failed) == roster \ ({reader} \cup failed)

BracketsOf(S, bracketOf) == {bracketOf[p] : p \in S}
Members(S, bracketOf, b) == {p \in S : bracketOf[p] = b}

\* Phase 1 of select_diverse_peers: the best member of each sampled bracket.
GuaranteedPeers(S, bracketOf, rank, bracketRank, knobs) ==
  {Best(Members(S, bracketOf, b), rank) :
     b \in Top(BracketsOf(S, bracketOf), bracketRank, Min({knobs.minBrackets, knobs.limit}))}

\* The greedy fill passes over a peer whose bracket is full, so it takes the
\* best of those that find room in their bracket.
DiversePeers(S, bracketOf, rank, bracketRank, knobs) ==
  LET first == GuaranteedPeers(S, bracketOf, rank, bracketRank, knobs)
      Bracket(p) == Members(S, bracketOf, bracketOf[p])
      Before(p) == {q \in Bracket(p) : q \in first \/ rank[q] > rank[p]}
      free == {p \in S \ first : Cardinality(Before(p)) < knobs.bracketCap}
  IN  IF knobs.limit <= 0 THEN {} ELSE first \cup Top(free, rank, knobs.limit - Cardinality(first))

\* select_random_peers: any sample, whatever the weights and the brackets.
RandomPeers(S, knobs) == kSubset(Min({knobs.limit, Cardinality(S)}), S)

\* Every selection some draw makes, under the strategy of the settings.
Selections(reader, roster, failed, bracketOf, weight, knobs) ==
  LET S == Candidates(reader, roster, failed)
      reach == [b \in BracketsOf(S, bracketOf) |->
                  SumFunctionOnSet(weight, Members(S, bracketOf, b))]
  IN  CASE knobs.strategy = "none"   -> {{}}
        [] knobs.strategy = "random" -> RandomPeers(S, knobs)
        [] OTHER -> {DiversePeers(S, bracketOf, rank, bracketRank, knobs) :
                       rank \in Rankings(S, weight),
                       bracketRank \in Rankings(BracketsOf(S, bracketOf), reach)}

\* format_peer_context: the selection is shuffled, and only the lines that fit
\* in the budget are rendered.
Rendered(selection, knobs) ==
  kSubset(Min({knobs.linesThatFit, Cardinality(selection)}), selection)

\* build_round_context: what the reader may be shown; the holdout sees nobody.
Exposures(reader, roster, failed, control, bracketOf, weight, knobs) ==
  IF reader \in control
  THEN {{}}
  ELSE UNION {Rendered(s, knobs) : s \in Selections(reader, roster, failed, bracketOf, weight, knobs)}

\* subset_size: the share rounded half up, but one agent stays outside.
SubsetSize(count, percent) ==
  IF count < 2 \/ percent <= 0 THEN 0 ELSE Min({count - 1, (2 * count * percent + 100) \div 200})

\* seeded_bracket_subset: the subsets a run seed can draw, bracket by bracket.
BracketSubsets(roster, bracketOf, percent) ==
  {S \in SUBSET roster :
     \A b \in BracketsOf(roster, bracketOf) :
       Cardinality(S \cap Members(roster, bracketOf, b))
         = SubsetSize(Cardinality(Members(roster, bracketOf, b)), percent)}

\* filter_citations: shown peers only, never oneself.
ValidCitations(named, shown, self) == (named \cap shown) \ {self}
=============================================================================
