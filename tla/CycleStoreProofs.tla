--------------------------- MODULE CycleStoreProofs ---------------------------
(***************************************************************************)
(* Proofs about CycleStore, for every roster, number of rounds, peer       *)
(* strategy and mix of versions, and for any sequence of commands next to  *)
(* the run: no command strands what a cycle stored (NothingStranded), a    *)
(* round is stored whole and in order (RoundsAreWhole), the citations in   *)
(* the graph are citations of peers the author was shown (CitationsHold),  *)
(* and what the readers read back of a complete cycle is what its run      *)
(* computed (ReadsAgreeWithRun).  And about Measures, for every roster and *)
(* every answer: however a round is measured, counted or scored, it says   *)
(* the same of it, and a failure weighs nothing (MeasuresSayTheSame).      *)
(***************************************************************************)
EXTENDS CycleStore, MCMeasures, FiniteSetTheorems, FunctionTheorems, WellFoundedInduction, TLAPS

-----------------------------------------------------------------------------
(* What a reader is shown (PeerSelection). *)

\* A ranking of a set of peers that is not empty has a best one.
LEMMA BestIsThere ==
  ASSUME NEW S, S # {}, NEW n \in Nat, NEW rank, \A x \in S : rank[x] \in 1..n
  PROVE  Best(S, rank) \in S
<1> DEFINE Gap == {n - rank[x] : x \in S}
<1>1. Gap \subseteq Nat /\ Gap # {}
  OBVIOUS
<1>2. PICK g \in Gap : \A h \in Gap : <<h, g>> \notin OpToRel(<, Nat)
  BY <1>1, NatLessThanWellFounded, WFMin
<1>3. PICK x \in S : g = n - rank[x]
  OBVIOUS
<1>4. \A y \in S : rank[y] <= rank[x]
  <2> SUFFICES ASSUME NEW y \in S, rank[y] > rank[x]
               PROVE  FALSE
    OBVIOUS
  <2>1. n - rank[y] \in Gap /\ n - rank[y] \in Nat /\ g \in Nat /\ n - rank[y] < g
    BY <1>1, <1>3
  <2> QED
    BY <1>2, <2>1 DEF OpToRel
<1> QED
  BY <1>4 DEF Best

\* The diversity quota chooses among the candidates.
LEMMA DiverseAreCandidates ==
  ASSUME NEW S, IsFiniteSet(S), NEW bracketOf, NEW weight, NEW knobs,
         NEW rank \in Rankings(S, weight), NEW bracketRank
  PROVE  DiversePeers(S, bracketOf, rank, bracketRank, knobs) \subseteq S
<1>1. Cardinality(S) \in Nat /\ \A x \in S : rank[x] \in 1..Cardinality(S)
  BY FS_CardinalityType DEF Rankings
<1>2. GuaranteedPeers(S, bracketOf, rank, bracketRank, knobs) \subseteq S
  <2>1. ASSUME NEW b \in BracketsOf(S, bracketOf)
        PROVE  Best(Members(S, bracketOf, b), rank) \in S
    <3>1. Members(S, bracketOf, b) # {} /\ Members(S, bracketOf, b) \subseteq S
      BY DEF BracketsOf, Members
    <3> QED
      BY <1>1, <3>1, BestIsThere
  <2> QED
    BY <2>1 DEF GuaranteedPeers, Top
<1> QED
  BY <1>2 DEF DiversePeers, Top

\* Whatever the strategy and the draw, nobody is shown himself, a peer outside
\* the roster or one that failed, and the holdout is shown nobody.
LEMMA ShownAreCandidates ==
  ASSUME NEW reader, NEW roster, IsFiniteSet(roster), NEW failed, NEW held, NEW bracketOf,
         NEW weight, NEW knobs,
         NEW shown \in Exposures(reader, roster, failed, held, bracketOf, weight, knobs)
  PROVE  /\ shown \subseteq Candidates(reader, roster, failed)
         /\ reader \in held => shown = {}
<1> DEFINE S == Candidates(reader, roster, failed)
<1>1. CASE reader \in held
  BY <1>1 DEF Exposures
<1>2. CASE reader \notin held
  <2>1. PICK s \in Selections(reader, roster, failed, bracketOf, weight, knobs) : shown \in Rendered(s, knobs)
    BY <1>2 DEF Exposures
  <2>2. s \subseteq S
    <3>1. IsFiniteSet(S)
      BY FS_Subset DEF Candidates
    <3>2. CASE knobs.strategy = "none"
      BY <2>1, <3>2 DEF Selections
    <3>3. CASE knobs.strategy = "random"
      BY <2>1, <3>3 DEF Selections, RandomPeers, kSubset
    <3>4. CASE knobs.strategy \notin {"none", "random"}
      <4> DEFINE reach == [b \in BracketsOf(S, bracketOf) |-> SumFunctionOnSet(weight, Members(S, bracketOf, b))]
      <4>1. PICK rank \in Rankings(S, weight), bracketRank \in Rankings(BracketsOf(S, bracketOf), reach) :
              s = DiversePeers(S, bracketOf, rank, bracketRank, knobs)
        <5>1. knobs.strategy # "none" /\ knobs.strategy # "random"
          BY <3>4
        <5> QED
          BY <2>1, <5>1, SMT DEF Selections
      <4> QED
        BY <3>1, <4>1, DiverseAreCandidates
    <3> QED
      BY <3>2, <3>3, <3>4
  <2> QED
    BY <1>2, <2>1, <2>2 DEF Rendered, kSubset
<1> QED
  BY <1>1, <1>2

-----------------------------------------------------------------------------
(* What a round computes (Rounds). *)

Votes == [signal : Signals, shown : SUBSET Roster, cited : SUBSET Roster]

\* A citation names a shown peer other than its author; nobody in the holdout
\* and nobody in round 1 is shown a peer, and no one a peer that failed.
Grounded(w) ==
  \A a \in Roster :
    /\ w[a].cited \subseteq w[a].shown \ {a}
    /\ a \in control \/ Len(outcomes) = 0 => w[a].shown = {}
    /\ Len(outcomes) # 0 => w[a].shown \cap Failed(Previous) = {}

LEMMA RosterIsFinite ==
  ASSUME setup \in Setups
  PROVE  IsFiniteSet(Roster) /\ Roster # {} /\ setup.rounds \in Nat \ {0}
BY RoundsAssumption DEF Roster

LEMMA ShownInRound ==
  ASSUME setup \in Setups, NEW a \in Roster, NEW shown \in ShownTo(a)
  PROVE  /\ shown \subseteq Roster
         /\ a \in control \/ Len(outcomes) = 0 => shown = {}
         /\ Len(outcomes) # 0 => shown \cap Failed(Previous) = {}
<1>1. CASE Len(outcomes) = 0
  BY <1>1 DEF ShownTo
<1>2. CASE Len(outcomes) # 0
  <2>1. shown \in Exposures(a, Roster, Failed(Previous), control, BracketOf, [x \in Roster |-> 1], Knobs)
    BY <1>2 DEF ShownTo
  <2>2. /\ shown \subseteq Candidates(a, Roster, Failed(Previous))
        /\ a \in control => shown = {}
    BY <2>1, RosterIsFinite, ShownAreCandidates
  <2> QED
    BY <1>2, <2>2 DEF Candidates
<1> QED
  BY <1>1, <1>2

\* What dispatch_wave returns is a decision per agent, and grounded.
LEMMA WavesAreGrounded ==
  ASSUME setup \in Setups, NEW w \in Waves
  PROVE  w \in [Roster -> Votes] /\ Grounded(w)
<1> DEFINE Named == UNION {kSubset(k, Roster) : k \in 0..MaxNamed}
           Voted(a, shown) == {[signal |-> s, shown |-> shown, cited |-> ValidCitations(named, shown, a)] :
                                 s \in Positions, named \in Named}
           Lost(shown) == [signal |-> ParseError, shown |-> shown, cited |-> {}]
           Seen(a) == ShownTo(a)
           Vote(shown, a) == {v \in [signal : Signals, shown : SUBSET Roster, cited : SUBSET Roster] :
                                v.shown = shown /\ v.cited \subseteq shown \ {a}}
<1>1. /\ DOMAIN w = Roster /\ w = [a \in Roster |-> w[a]]
      /\ \A a \in Roster : w[a] \in (UNION {Voted(a, shown) : shown \in Seen(a)}) \cup {Lost(shown) : shown \in Seen(a)}
  BY DEF Waves
<1>2. ASSUME NEW a \in Roster
      PROVE  \E shown \in Seen(a) : w[a] \in Vote(shown, a)
  <2>1. ASSUME NEW shown \in Seen(a)
        PROVE  Lost(shown) \in Vote(shown, a)
    BY <2>1, ShownInRound DEF Signals
  <2>2. ASSUME NEW shown \in Seen(a), NEW v \in Voted(a, shown)
        PROVE  v \in Vote(shown, a)
    <3> HIDE DEF Named
    <3>1. PICK s \in Positions, named \in Named :
               v = [signal |-> s, shown |-> shown, cited |-> ValidCitations(named, shown, a)]
      OBVIOUS
    <3>2. ValidCitations(named, shown, a) \subseteq shown \ {a} /\ shown \subseteq Roster
      BY ShownInRound DEF ValidCitations
    <3> QED
      BY <3>1, <3>2 DEF Signals
  <2> HIDE DEF Voted, Lost, Vote, Seen
  <2> QED
    BY <1>1, <2>1, <2>2
<1>3. ASSUME NEW a \in Roster
      PROVE  /\ w[a] \in Votes
             /\ w[a].cited \subseteq w[a].shown \ {a}
             /\ a \in control \/ Len(outcomes) = 0 => w[a].shown = {}
             /\ Len(outcomes) # 0 => w[a].shown \cap Failed(Previous) = {}
  <2>1. PICK shown \in ShownTo(a) : w[a] \in Vote(shown, a)
    BY <1>2
  <2>2. /\ shown \subseteq Roster
        /\ a \in control \/ Len(outcomes) = 0 => shown = {}
        /\ Len(outcomes) # 0 => shown \cap Failed(Previous) = {}
    BY ShownInRound
  <2> QED
    BY <2>1, <2>2 DEF Votes
<1> QED
  BY <1>1, <1>3 DEF Grounded

-----------------------------------------------------------------------------
(* Types. *)

Steps == {"seeding", "describing", "round", "shock", "dispatch", "persist", "pairs", "edges",
          "finish", "metrics", "completing"}
Ended == {"recording", "over", "dead"}
Deletes == {"edges", "episodes", "decisions", "shocks", "cycle"}

\* The awaits between which a wave of decisions is at hand.
Storing == {"persist", "pairs", "edges", "finish"}
\* Those after which the round is in the graph.
Persisted == {"pairs", "edges", "finish"}

EdgeWeights == {CitationWeights(ps, n) : ps \in SUBSET (Roster \X Roster), n \in Nat}
Finished == [wave : [Roster -> Votes], weights : EdgeWeights]
Decision == [round : Nat \ {0}, agent : Roster, signal : Signals, shown : SUBSET Roster,
             cited : SUBSET Roster, control : BOOLEAN]

\* Of what type the run's memory, the cycle and the other process are.
StoreType ==
  /\ setup \in Setups
  /\ pc \in Steps \cup Ended
  /\ outcomes \in Seq(Finished)
  /\ pc \in Storing => wave \in [Roster -> Votes]
  /\ pairs \in SUBSET (Roster \X Roster)
  /\ status \in {"none", "running", "complete", "failed"}
  /\ described \in BOOLEAN
  /\ decisions \in SUBSET Decision
  /\ \A e \in episodes : e.round \in Nat \ {0} /\ e.agent \in Roster
  /\ \A e \in edges : e.round \in Nat \ {0} /\ e.source \in Roster /\ e.target \in Roster
  /\ shocks \in SUBSET Nat
  /\ command \in {"idle", "seeded", "open", "exporting"} \cup Deletes
  /\ deleting \in BOOLEAN

\* The decisions and the episodes one round stores.
DecisionsOf(w) ==
  {[round |-> Round, agent |-> a, signal |-> w[a].signal, shown |-> w[a].shown,
    cited |-> w[a].cited \cap nodes, control |-> a \in control] : a \in DOMAIN w}
EpisodesOf(w) == {[round |-> Round, agent |-> a, flip |-> FlipInRound(a, w)] : a \in DOMAIN w}

\* Which step changes what: every other step leaves it as it is.
LEMMA Writers ==
  ASSUME [StoreNext]_storeVars
  PROVE  /\ setup' = setup /\ control' = control
         /\ pc' \in Steps => pc \in Steps
         /\ pc' # pc => UNCHANGED cmdVars
         /\ decisions' = decisions \/ (PersistRound /\ UNCHANGED cmdVars) \/ DeleteDecisions
         /\ episodes' = episodes \/ (PersistRound /\ UNCHANGED cmdVars) \/ DeleteEpisodes
         /\ edges' = edges \/ (WriteEdges /\ UNCHANGED cmdVars) \/ DeleteEdges
         /\ shocks' = shocks \/ (WriteShock /\ UNCHANGED cmdVars) \/ DeleteShocks
         /\ nodes' = nodes \/ OpenRuntime \/ PruneAgents
         /\ outcomes' = outcomes \/ (FinishRound /\ UNCHANGED cmdVars) \/ (outcomes' = <<>> /\ pc' \in Ended)
         /\ wave' = wave \/ (Dispatch /\ UNCHANGED cmdVars) \/ pc' \notin Storing
         /\ pairs' = pairs \/ (ReadPairs /\ UNCHANGED cmdVars) \/ pairs' = {}
<1>1. ASSUME RunNext, UNCHANGED cmdVars
      PROVE  /\ setup' = setup /\ control' = control
             /\ pc' \in Steps => pc \in Steps
             /\ decisions' = decisions \/ PersistRound
             /\ episodes' = episodes \/ PersistRound
             /\ edges' = edges \/ WriteEdges
             /\ shocks' = shocks \/ WriteShock
             /\ nodes' = nodes
             /\ outcomes' = outcomes \/ FinishRound \/ (outcomes' = <<>> /\ pc' \in Ended)
             /\ wave' = wave \/ Dispatch \/ pc' \notin Storing
             /\ pairs' = pairs \/ ReadPairs \/ pairs' = {}
  <2>1. CASE CreateCycle
    BY <2>1 DEF CreateCycle, Reach, Leave, memory, Steps, Ended
  <2>2. CASE Describe \/ BeginRound \/ WriteShock \/ RecordMetrics
    BY <2>2 DEF Describe, BeginRound, WriteShock, RecordMetrics, memory, graph, Steps
  <2>3. CASE Dispatch
    <3>1. CASE \E w \in Waves : WaveFailed(w)
      BY <2>3 DEF Dispatch, Leave, Forget, graph, Steps, Ended
    <3>2. CASE ~ \E w \in Waves : WaveFailed(w)
      BY <2>3, <3>2 DEF Dispatch, Leave, Forget, graph, Steps, Ended
    <3> QED
      BY <3>1, <3>2
  <2>4. CASE PersistRound
    BY <2>4 DEF PersistRound, memory, Steps
  <2>5. CASE ReadPairs \/ WriteEdges
    BY <2>5 DEF ReadPairs, WriteEdges, memory, graph, Steps
  <2>6. CASE FinishRound
    BY <2>6 DEF FinishRound, graph, Steps, Storing
  <2>7. CASE Complete
    BY <2>7 DEF Complete, Reach, Leave, memory, Steps, Ended
  <2>8. CASE RunFails \/ RecordTerminal \/ Kill
    BY <2>8 DEF RunFails, RecordTerminal, Kill, Leave, Forget, memory, graph, Steps, Ended, Storing
  <2> QED
    BY <1>1, <2>1, <2>2, <2>3, <2>4, <2>5, <2>6, <2>7, <2>8 DEF RunNext
<1>2. ASSUME Commands
      PROVE  /\ UNCHANGED <<setup, control, pc, outcomes, wave, pairs>>
             /\ decisions' = decisions \/ DeleteDecisions
             /\ episodes' = episodes \/ DeleteEpisodes
             /\ edges' = edges \/ DeleteEdges
             /\ shocks' = shocks \/ DeleteShocks
             /\ nodes' = nodes \/ OpenRuntime \/ PruneAgents
  <2>1. CASE OpenRuntime \/ PruneAgents \/ CommandEnds \/ AskDelete \/ AskExport \/ Export
    BY <2>1 DEF OpenRuntime, PruneAgents, CommandEnds, AskDelete, AskExport, Export, vars, memory, graph
  <2>2. CASE DeleteEdges \/ DeleteEpisodes \/ DeleteDecisions \/ DeleteShocks \/ DeleteCycleNode
    BY <2>2 DEF DeleteEdges, DeleteEpisodes, DeleteDecisions, DeleteShocks, DeleteCycleNode, memory
  <2> QED
    BY <1>2, <2>1, <2>2 DEF Commands
<1>3. CASE UNCHANGED storeVars
  BY <1>3 DEF storeVars, vars, memory, graph
<1> QED
  BY <1>1, <1>2, <1>3 DEF StoreNext

\* The wave is the one that was dispatched for the round that is running.
LEMMA Carries ==
  ASSUME [StoreNext]_storeVars, pc' \in Storing
  PROVE  /\ outcomes' = outcomes
         /\ \/ pc \in Storing /\ wave' = wave
            \/ wave' \in Waves
<1>1. CASE Dispatch /\ pc' = "persist"
  <2>1. PICK w \in Waves : IF WaveFailed(w) THEN Leave /\ Forget
                           ELSE wave' = w /\ pc' = "persist" /\ UNCHANGED <<outcomes, pairs, applied>>
    BY <1>1 DEF Dispatch
  <2> QED
    BY <1>1, <2>1 DEF Dispatch, Leave
<1>2. CASE PersistRound \/ ReadPairs \/ WriteEdges
  BY <1>2 DEF PersistRound, ReadPairs, WriteEdges, Storing, memory
<1>3. CASE Describe \/ BeginRound \/ WriteShock \/ RecordMetrics \/ FinishRound
  BY <1>3 DEF Describe, BeginRound, WriteShock, RecordMetrics, FinishRound, Storing
<1>4. CASE CreateCycle \/ Complete \/ RunFails \/ RecordTerminal \/ Kill
  BY <1>4 DEF CreateCycle, Complete, RunFails, RecordTerminal, Kill, Reach, Leave, Storing
<1>5. CASE Dispatch /\ pc' # "persist"
  <2>1. PICK w \in Waves : IF WaveFailed(w) THEN Leave /\ Forget
                           ELSE wave' = w /\ pc' = "persist" /\ UNCHANGED <<outcomes, pairs, applied>>
    BY <1>5 DEF Dispatch
  <2> QED
    BY <1>5, <2>1 DEF Dispatch, Leave, Storing
<1>6. CASE Commands \/ UNCHANGED storeVars
  <2>1. pc' = pc /\ outcomes' = outcomes /\ wave' = wave
    BY <1>6 DEF Commands, OpenRuntime, PruneAgents, CommandEnds, AskDelete, AskExport, Export, DeleteEdges,
       DeleteEpisodes, DeleteDecisions, DeleteShocks, DeleteCycleNode, vars, memory, storeVars
  <2> QED
    BY <2>1
<1> QED
  BY <1>1, <1>2, <1>3, <1>4, <1>5, <1>6 DEF StoreNext, RunNext

LEMMA RoundIsNat ==
  ASSUME StoreType
  PROVE  Len(outcomes) \in Nat /\ Round \in Nat \ {0} /\ Round = Len(outcomes) + 1
BY DEF StoreType, Round

LEMMA StoredDecisions ==
  ASSUME StoreType, PersistRound
  PROVE  /\ decisions' = decisions \cup DecisionsOf(wave)
         /\ DecisionsOf(wave) \subseteq Decision
         /\ \A d \in DecisionsOf(wave) :
              /\ d.round = Round /\ d.agent \in Roster /\ d.signal = wave[d.agent].signal
              /\ d.shown = wave[d.agent].shown /\ d.cited = wave[d.agent].cited \cap nodes
              /\ d.control = (d.agent \in control)
         /\ \A a \in Roster : \E d \in DecisionsOf(wave) : d.agent = a
         /\ \A d, e \in DecisionsOf(wave) : d.agent = e.agent => d = e
<1>1. wave \in [Roster -> Votes] /\ DOMAIN wave = Roster
  BY DEF PersistRound, StoreType, Storing
<1>2. decisions' = decisions \cup DecisionsOf(wave)
  BY DEF PersistRound, StoreRound, DecisionsOf
<1> DEFINE Made(a) == [round |-> Round, agent |-> a, signal |-> wave[a].signal, shown |-> wave[a].shown,
                       cited |-> wave[a].cited \cap nodes, control |-> a \in control]
<1>3. DecisionsOf(wave) = {Made(a) : a \in Roster}
  BY <1>1 DEF DecisionsOf
<1>4. ASSUME NEW a \in Roster
      PROVE  /\ Made(a) \in Decision
             /\ Made(a).round = Round /\ Made(a).agent = a /\ Made(a).signal = wave[a].signal
             /\ Made(a).shown = wave[a].shown /\ Made(a).cited = wave[a].cited \cap nodes
             /\ Made(a).control = (a \in control)
  <2>1. wave[a] \in Votes
    BY <1>1
  <2>2. wave[a].signal \in Signals /\ wave[a].shown \subseteq Roster /\ wave[a].cited \subseteq Roster
    BY <2>1 DEF Votes
  <2>3. wave[a].cited \cap nodes \subseteq Roster /\ (a \in control) \in BOOLEAN
    BY <2>2
  <2> QED
    BY <2>2, <2>3, RoundIsNat DEF Decision
<1> HIDE DEF Made
<1> QED
  BY <1>2, <1>3, <1>4

LEMMA StoredEpisodes ==
  ASSUME StoreType, PersistRound
  PROVE  /\ episodes' = episodes \cup EpisodesOf(wave)
         /\ \A e \in EpisodesOf(wave) : /\ e.round = Round /\ e.agent \in Roster
                                         /\ e.flip = FlipInRound(e.agent, wave)
         /\ \A a \in Roster : \E e \in EpisodesOf(wave) : e.agent = a
         /\ \A e, f \in EpisodesOf(wave) : e.agent = f.agent => e = f
<1>1. DOMAIN wave = Roster
  BY DEF PersistRound, StoreType, Storing
<1>2. episodes' = episodes \cup EpisodesOf(wave)
  BY DEF PersistRound, StoreRound, EpisodesOf
<1> DEFINE Told(a) == [round |-> Round, agent |-> a, flip |-> FlipInRound(a, wave)]
<1>3. EpisodesOf(wave) = {Told(a) : a \in Roster}
  BY <1>1 DEF EpisodesOf
<1>4. \A a \in Roster : Told(a).round = Round /\ Told(a).agent = a /\ Told(a).flip = FlipInRound(a, wave)
  OBVIOUS
<1> HIDE DEF Told
<1> QED
  BY <1>2, <1>3, <1>4

\* A pair joins two members of the roster.
LEMMA PairsJoinAgents ==
  ASSUME StoreType, NEW r
  PROVE  CitationPairs(r) \subseteq Roster \X Roster
<1> SUFFICES ASSUME NEW d \in decisions, NEW c \in d.cited
             PROVE  d.agent \in Roster /\ c \in Roster
  BY DEF CitationPairs
<1> QED
  BY DEF StoreType, Decision

\* The edges of a round: one for each pair whose agents are both there.
LEMMA StoredEdges ==
  ASSUME StoreType, WriteEdges
  PROVE  \E New :
           /\ edges' = edges \cup New
           /\ \A e \in New : e.round = Round /\ <<e.source, e.target>> \in pairs
                             /\ {e.source, e.target} \subseteq nodes
                             /\ e.weight = CitationWeights(pairs, Cardinality(Active(wave)))[e.target]
           /\ \A p \in pairs : {p[1], p[2]} \subseteq nodes => \E e \in New : <<e.source, e.target>> = p
           /\ \A e, f \in New : e.source = f.source /\ e.target = f.target => e = f
<1> DEFINE W(t) == CitationWeights(pairs, Cardinality(Active(wave)))[t]
           Joined == {q \in pairs : {q[1], q[2]} \subseteq nodes}
           Edge(p) == [round |-> Round, source |-> p[1], target |-> p[2], weight |-> W(p[2])]
           New == {Edge(p) : p \in Joined}
<1>1. edges' = edges \cup New
  BY DEF WriteEdges, StoreEdges
<1>2. \A p \in pairs : p = <<p[1], p[2]>>
  BY DEF StoreType
<1>3. ASSUME NEW p \in Joined
      PROVE  /\ Edge(p).round = Round /\ Edge(p).source = p[1] /\ Edge(p).target = p[2]
             /\ Edge(p).weight = W(p[2])
  OBVIOUS
<1>4. ASSUME NEW p \in Joined, NEW q \in Joined, p[1] = q[1], p[2] = q[2]
      PROVE  Edge(p) = Edge(q)
  BY <1>4
<1> HIDE DEF Edge, W
<1>5. \A e \in New : /\ e.round = Round /\ <<e.source, e.target>> \in pairs /\ {e.source, e.target} \subseteq nodes
                      /\ e.weight = W(e.target)
  BY <1>2, <1>3
<1>6. \A p \in pairs : {p[1], p[2]} \subseteq nodes => \E e \in New : <<e.source, e.target>> = p
  BY <1>2, <1>3
<1>7. \A e, f \in New : e.source = f.source /\ e.target = f.target => e = f
  BY <1>3, <1>4
<1> QED
  BY <1>1, <1>5, <1>6, <1>7 DEF W

LEMMA WeightsOfPairs ==
  ASSUME StoreType, pc \in Storing
  PROVE  CitationWeights(pairs, Cardinality(Active(wave))) \in EdgeWeights
<1>1. IsFiniteSet(Active(wave))
  <2>1. DOMAIN wave = Roster /\ IsFiniteSet(Roster)
    BY RosterIsFinite DEF StoreType
  <2> QED
    BY <2>1, FS_Subset DEF Active
<1>2. Cardinality(Active(wave)) \in Nat /\ pairs \in SUBSET (Roster \X Roster)
  BY <1>1, FS_CardinalityType DEF StoreType
<1> QED
  BY <1>2 DEF EdgeWeights

LEMMA StoreTypeInit ==
  ASSUME StoreInit
  PROVE  StoreType
<1>1. <<>> \in Seq(Finished)
  OBVIOUS
<1> QED
  BY <1>1 DEF StoreInit, Init, StoreType, Steps, Storing

LEMMA StoreTypeStep ==
  ASSUME StoreType, [StoreNext]_storeVars
  PROVE  StoreType'
<1>1. setup' = setup /\ Roster' = Roster
  BY Writers DEF Roster
<1>2. /\ Votes' = Votes /\ EdgeWeights' = EdgeWeights /\ Decision' = Decision /\ Finished' = Finished
      /\ (Roster \X Roster)' = Roster \X Roster
  BY <1>1 DEF Votes, EdgeWeights, Decision, Finished
<1>3. setup' \in Setups
  BY <1>1 DEF StoreType
<1>4. pc' \in Steps \cup Ended /\ status' \in {"none", "running", "complete", "failed"} /\ described' \in BOOLEAN
  <2>1. ASSUME RunNext
        PROVE  pc' \in Steps \cup Ended /\ status' \in {"none", "running", "complete", "failed"} /\ described' \in BOOLEAN
    <3> USE DEF StoreType, Steps, Ended
    <3>1. CASE CreateCycle \/ Complete
      BY <3>1 DEF CreateCycle, Complete, Reach, Leave, SetStatus
    <3>2. CASE Describe \/ BeginRound \/ WriteShock \/ ReadPairs \/ WriteEdges \/ RecordMetrics
      BY <3>2 DEF Describe, BeginRound, WriteShock, ReadPairs, WriteEdges, RecordMetrics, graph
    <3>3. CASE Dispatch
      <4>1. UNCHANGED <<status, described>> /\ pc' \in {"over", "recording", "persist"}
        <5>1. PICK w \in Waves : IF WaveFailed(w) THEN Leave /\ Forget
                                 ELSE wave' = w /\ pc' = "persist" /\ UNCHANGED <<outcomes, pairs, applied>>
          BY <3>3 DEF Dispatch
        <5> QED
          BY <3>3, <5>1 DEF Dispatch, Leave, graph
      <4> QED
        BY <4>1
    <3>4. CASE PersistRound \/ FinishRound
      BY <3>4 DEF PersistRound, FinishRound, graph
    <3>5. CASE RunFails \/ RecordTerminal \/ Kill
      BY <3>5 DEF RunFails, RecordTerminal, Kill, Leave, SetStatus, graph
    <3> QED
      BY <2>1, <3>1, <3>2, <3>3, <3>4, <3>5 DEF RunNext
  <2>2. ASSUME Commands
        PROVE  pc' = pc /\ status' \in {status, "none"} /\ described' \in {described, FALSE}
    <3>1. CASE OpenRuntime \/ PruneAgents \/ CommandEnds \/ AskDelete \/ AskExport \/ Export
      BY <3>1 DEF OpenRuntime, PruneAgents, CommandEnds, AskDelete, AskExport, Export, vars, graph
    <3>2. CASE DeleteEdges \/ DeleteEpisodes \/ DeleteDecisions \/ DeleteShocks \/ DeleteCycleNode
      BY <3>2 DEF DeleteEdges, DeleteEpisodes, DeleteDecisions, DeleteShocks, DeleteCycleNode
    <3> QED
      BY <2>2, <3>1, <3>2 DEF Commands
  <2>3. CASE UNCHANGED storeVars
    BY <2>3 DEF storeVars, vars, graph, StoreType
  <2> QED
    BY <2>1, <2>2, <2>3 DEF StoreNext, StoreType
<1>5. command' \in {"idle", "seeded", "open", "exporting"} \cup Deletes /\ deleting' \in BOOLEAN
  <2>1. CASE OpenRuntime \/ PruneAgents \/ CommandEnds \/ AskDelete \/ AskExport \/ Export
    BY <2>1 DEF OpenRuntime, PruneAgents, CommandEnds, AskDelete, AskExport, Export, StoreType, Deletes
  <2>2. CASE DeleteEdges \/ DeleteEpisodes \/ DeleteDecisions \/ DeleteShocks \/ DeleteCycleNode
    BY <2>2 DEF DeleteEdges, DeleteEpisodes, DeleteDecisions, DeleteShocks, DeleteCycleNode, StoreType, Deletes
  <2>3. CASE UNCHANGED cmdVars
    BY <2>3 DEF cmdVars, StoreType
  <2> QED
    BY <2>1, <2>2, <2>3 DEF StoreNext, Commands, storeVars
<1>6. outcomes' \in Seq(Finished)
  <2>1. CASE FinishRound
    <3>1. pc \in Storing
      BY <2>1 DEF FinishRound, Storing
    <3> DEFINE out == [wave |-> wave, weights |-> CitationWeights(pairs, Cardinality(Active(wave)))]
    <3>2. out \in Finished
      BY <3>1, WeightsOfPairs DEF StoreType, Finished
    <3>3. outcomes' = Append(outcomes, out)
      BY <2>1 DEF FinishRound
    <3> HIDE DEF out
    <3> QED
      BY <3>2, <3>3 DEF StoreType
  <2>2. <<>> \in Seq(Finished)
    OBVIOUS
  <2> QED
    BY <2>1, <2>2, Writers DEF StoreType
<1>7. pc' \in Storing => wave' \in [Roster -> Votes]
  BY Carries, WavesAreGrounded DEF StoreType
<1>8. pairs' \in SUBSET (Roster \X Roster)
  <2>1. CASE ReadPairs
    BY <2>1, PairsJoinAgents DEF ReadPairs
  <2> QED
    BY <2>1, Writers DEF StoreType
<1>9. decisions' \in SUBSET Decision
  <2>1. CASE PersistRound
    BY <2>1, StoredDecisions DEF StoreType
  <2>2. CASE DeleteDecisions
    BY <2>2 DEF DeleteDecisions, StoreType
  <2> QED
    BY <2>1, <2>2, Writers DEF StoreType
<1>10. \A e \in episodes' : e.round \in Nat \ {0} /\ e.agent \in Roster
  <2>1. CASE PersistRound
    BY <2>1, StoredEpisodes, RoundIsNat DEF StoreType
  <2>2. CASE DeleteEpisodes
    BY <2>2 DEF DeleteEpisodes
  <2> QED
    BY <2>1, <2>2, Writers DEF StoreType
<1>11. \A e \in edges' : e.round \in Nat \ {0} /\ e.source \in Roster /\ e.target \in Roster
  <2>1. CASE WriteEdges
    <3>1. PICK New : /\ edges' = edges \cup New
                     /\ \A e \in New : e.round = Round /\ <<e.source, e.target>> \in pairs
      BY <2>1, StoredEdges
    <3>2. \A e \in New : e.round \in Nat \ {0} /\ e.source \in Roster /\ e.target \in Roster
      BY <3>1, RoundIsNat DEF StoreType
    <3> QED
      BY <3>1, <3>2 DEF StoreType
  <2>2. CASE DeleteEdges
    BY <2>2 DEF DeleteEdges
  <2> QED
    BY <2>1, <2>2, Writers DEF StoreType
<1>12. shocks' \in SUBSET Nat
  <2>1. CASE WriteShock
    BY <2>1, RoundIsNat DEF WriteShock, StoreType
  <2>2. CASE DeleteShocks
    BY <2>2 DEF DeleteShocks
  <2> QED
    BY <2>1, <2>2, Writers DEF StoreType
<1> QED
  BY <1>1, <1>2, <1>3, <1>4, <1>5, <1>6, <1>7, <1>8, <1>9, <1>10, <1>11, <1>12 DEF StoreType

-----------------------------------------------------------------------------
(* A delete and a run never write at the same time. *)

\* A cycle that is being taken apart has no run: what the run waits for tells
\* the status, and the command in front of a delete has refused that status.
\* The statements of a delete leave less and less, the Cycle for the end.
CommandInv ==
  /\ pc \in Steps => /\ ~deleting /\ command \notin Deletes
                     /\ status = IF pc = "seeding" THEN "none" ELSE "running"
  /\ command \in Deletes => status \notin {"none", "running"}
  /\ command \in Deletes \ {"edges"} => deleting
  /\ deleting => status # "running"
  /\ command \in Deletes \ {"edges"} => edges = {}
  /\ command \in Deletes \ {"edges", "episodes"} => episodes = {}
  /\ command \in {"shocks", "cycle"} => decisions = {}
  /\ command = "cycle" => shocks = {}
  /\ status = "none" => decisions = {} /\ episodes = {} /\ edges = {} /\ shocks = {}

LEMMA CommandInit ==
  ASSUME StoreInit
  PROVE  CommandInv
BY DEF StoreInit, Init, CommandInv, Deletes

LEMMA CommandStep ==
  ASSUME StoreType, CommandInv, [StoreNext]_storeVars
  PROVE  CommandInv'
<1>1. ASSUME RunNext, UNCHANGED cmdVars
      PROVE  CommandInv'
  <2> USE <1>1 DEF CommandInv, StoreType, Steps, Ended, Deletes, cmdVars
  <2>1. CASE CreateCycle
    BY <2>1 DEF CreateCycle, Reach, Leave
  <2>2. CASE Complete
    BY <2>2 DEF Complete, Reach, Leave, SetStatus
  <2>3. CASE Describe \/ BeginRound \/ RecordMetrics \/ ReadPairs \/ FinishRound
    BY <2>3 DEF Describe, BeginRound, RecordMetrics, ReadPairs, FinishRound, graph
  <2>4. CASE Dispatch
    <3>1. UNCHANGED graph /\ pc = "dispatch" /\ pc' \in {"over", "recording", "persist"}
      <4>1. PICK w \in Waves : IF WaveFailed(w) THEN Leave /\ Forget
                               ELSE wave' = w /\ pc' = "persist" /\ UNCHANGED <<outcomes, pairs, applied>>
        BY <2>4 DEF Dispatch
      <4> QED
        BY <2>4, <4>1 DEF Dispatch, Leave
    <3> QED
      BY <3>1 DEF graph
  <2>5. CASE PersistRound \/ WriteEdges \/ WriteShock
    BY <2>5 DEF PersistRound, WriteEdges, WriteShock
  <2>6. CASE RunFails \/ RecordTerminal \/ Kill
    BY <2>6 DEF RunFails, RecordTerminal, Kill, Leave, SetStatus, graph
  <2> QED
    BY <2>1, <2>2, <2>3, <2>4, <2>5, <2>6 DEF RunNext
<1>2. ASSUME Commands
      PROVE  CommandInv'
  <2>1. CASE OpenRuntime \/ PruneAgents \/ CommandEnds \/ AskExport \/ Export
    <3>1. UNCHANGED <<pc, status, decisions, episodes, edges, shocks, deleting>> /\ command' \notin Deletes
      BY <2>1 DEF OpenRuntime, PruneAgents, CommandEnds, AskExport, Export, vars, graph, Deletes
    <3> QED
      BY <3>1 DEF CommandInv, Deletes
  <2>2. CASE AskDelete
    <3>1. /\ UNCHANGED <<pc, status, decisions, episodes, edges, shocks, deleting>>
          /\ command' = "edges" /\ status \notin {"none", "running"}
      BY <2>2 DEF AskDelete, vars, graph
    <3> QED
      BY <3>1 DEF CommandInv, Deletes
  <2> USE DEF CommandInv, StoreType, Steps, Ended, Deletes
  <2>3. CASE DeleteEdges
    BY <2>3 DEF DeleteEdges
  <2>4. CASE DeleteEpisodes
    BY <2>4 DEF DeleteEpisodes
  <2>6. CASE DeleteShocks
    BY <2>6 DEF DeleteShocks
  <2>7. CASE DeleteDecisions
    <3>1. /\ UNCHANGED <<pc, status, episodes, edges, shocks, deleting>>
          /\ command = "decisions" /\ decisions' \subseteq decisions
          /\ command' = "decisions" \/ (command' = "shocks" /\ decisions' = {})
      BY <2>7 DEF DeleteDecisions
    <3>2. pc \notin Steps /\ status # "none"
      BY <3>1
    <3> QED
      BY <3>1, <3>2
  <2>5. CASE DeleteCycleNode
    BY <2>5 DEF DeleteCycleNode
  <2> HIDE DEF CommandInv, StoreType, Steps, Ended, Deletes
  <2> QED
    BY <1>2, <2>1, <2>2, <2>3, <2>4, <2>5, <2>6, <2>7 DEF Commands
<1>3. CASE UNCHANGED storeVars
  BY <1>3 DEF storeVars, vars, graph, cmdVars, CommandInv
<1> QED
  BY <1>1, <1>2, <1>3 DEF StoreNext

-----------------------------------------------------------------------------
(* How far the run is. *)

ProgressInv ==
  /\ pc \in {"seeding", "describing"} => outcomes = <<>>
  /\ pc \in {"round", "shock", "dispatch"} \cup Storing => Len(outcomes) < setup.rounds
  /\ pc \in {"metrics", "completing"} => Len(outcomes) = setup.rounds
  /\ pc \in Steps \ {"seeding", "describing"} \/ status = "complete" => described

LEMMA ProgressInit ==
  ASSUME StoreInit
  PROVE  ProgressInv
BY DEF StoreInit, Init, ProgressInv, Storing

LEMMA ProgressStep ==
  ASSUME StoreType, CommandInv, ProgressInv, [StoreNext]_storeVars
  PROVE  ProgressInv'
<1>0. setup.rounds \in Nat \ {0} /\ setup' = setup /\ Len(outcomes) \in Nat /\ Len(<<>>) = 0
  BY RosterIsFinite, Writers, RoundIsNat DEF StoreType
<1>1. ASSUME RunNext, UNCHANGED cmdVars
      PROVE  ProgressInv'
  <2> USE <1>0, <1>1 DEF ProgressInv, CommandInv, StoreType, Steps, Ended, Storing
  <2>1. CASE CreateCycle
    BY <2>1 DEF CreateCycle, Reach, Leave, memory
  <2>2. CASE Complete
    BY <2>2 DEF Complete, Reach, Leave, SetStatus, memory
  <2>3. CASE Describe
    BY <2>3 DEF Describe, memory
  <2>8. CASE BeginRound
    BY <2>8 DEF BeginRound, graph
  <2>9. CASE RecordMetrics
    BY <2>9 DEF RecordMetrics, memory
  <2>10. CASE ReadPairs
    BY <2>10 DEF ReadPairs, graph, memory
  <2>4. CASE Dispatch
    <3>1. /\ UNCHANGED graph /\ pc = "dispatch"
          /\ pc' \in {"over", "recording"} \/ (pc' = "persist" /\ outcomes' = outcomes)
      <4>1. PICK w \in Waves : IF WaveFailed(w) THEN Leave /\ Forget
                               ELSE wave' = w /\ pc' = "persist" /\ UNCHANGED <<outcomes, pairs, applied>>
        BY <2>4 DEF Dispatch
      <4> QED
        BY <2>4, <4>1 DEF Dispatch, Leave
    <3> QED
      BY <3>1 DEF graph
  <2>5. CASE PersistRound \/ WriteEdges \/ WriteShock
    BY <2>5 DEF PersistRound, WriteEdges, WriteShock, memory
  <2>6. CASE FinishRound
    <3>1. Len(outcomes') = Len(outcomes) + 1
      BY <2>6 DEF FinishRound
    <3> QED
      BY <2>6, <3>1 DEF FinishRound, Round, graph
  <2>7. CASE RunFails \/ RecordTerminal \/ Kill
    BY <2>7 DEF RunFails, RecordTerminal, Kill, Leave, SetStatus, graph
  <2> QED
    BY <2>1, <2>2, <2>3, <2>4, <2>5, <2>6, <2>7, <2>8, <2>9, <2>10 DEF RunNext
<1>2. ASSUME Commands
      PROVE  ProgressInv'
  <2> USE <1>0, <1>2 DEF ProgressInv, CommandInv, StoreType, Deletes
  <2>1. CASE OpenRuntime \/ PruneAgents \/ CommandEnds \/ AskDelete \/ AskExport \/ Export
    BY <2>1 DEF OpenRuntime, PruneAgents, CommandEnds, AskDelete, AskExport, Export, vars, graph, memory
  <2>2. CASE DeleteEdges \/ DeleteEpisodes \/ DeleteShocks \/ DeleteDecisions
    BY <2>2 DEF DeleteEdges, DeleteEpisodes, DeleteShocks, DeleteDecisions, memory
  <2>3. CASE DeleteCycleNode
    BY <2>3 DEF DeleteCycleNode, memory
  <2> QED
    BY <2>1, <2>2, <2>3 DEF Commands
<1>3. CASE UNCHANGED storeVars
  BY <1>3 DEF storeVars, vars, graph, cmdVars, memory, ProgressInv
<1> QED
  BY <1>1, <1>2, <1>3 DEF StoreNext

-----------------------------------------------------------------------------
(* A round is stored whole, and the rounds in order. *)

StoredRounds == {d.round : d \in decisions}

WholeInv ==
  /\ \A d \in decisions : \A a \in Roster : \E e \in decisions : e.round = d.round /\ e.agent = a
  /\ \A d, e \in decisions : d.round = e.round /\ d.agent = e.agent => d = e
  /\ \A e, f \in episodes : e.round = f.round /\ e.agent = f.agent => e = f
  /\ ~deleting =>
       /\ \A d \in decisions : \E e \in episodes : e.round = d.round /\ e.agent = d.agent
       /\ \A e \in episodes : e.round \in StoredRounds
       /\ \E k \in Nat : StoredRounds = 1..k
       /\ pc \in Persisted => StoredRounds = 1..Round
       /\ pc \in Steps \ Persisted => StoredRounds = 1..Len(outcomes)
       /\ status = "complete" => StoredRounds = 1..setup.rounds

LEMMA WholeInit ==
  ASSUME StoreInit
  PROVE  WholeInv
<1>1. StoredRounds = {} /\ 1..0 = {} /\ Len(outcomes) = 0
  BY DEF StoreInit, Init, StoredRounds
<1> QED
  BY <1>1 DEF StoreInit, Init, WholeInv, Persisted

\* Only PersistRound takes the run past the point where its round is stored.
LEMMA Advances ==
  ASSUME StoreType, [StoreNext]_storeVars, ~PersistRound
  PROVE  /\ pc' \in Persisted => pc \in Persisted /\ outcomes' = outcomes
         /\ pc' \in Steps \ Persisted => \/ pc \in Steps \ Persisted /\ outcomes' = outcomes
                                         \/ FinishRound /\ pc = "finish" /\ Len(outcomes') = Round
         /\ status' = "complete" => status = "complete" \/ pc = "completing"
         /\ deleting => deleting'
<1>1. ASSUME RunNext, UNCHANGED cmdVars
      PROVE  /\ pc' \in Persisted => pc \in Persisted /\ outcomes' = outcomes
             /\ pc' \in Steps \ Persisted => \/ pc \in Steps \ Persisted /\ outcomes' = outcomes
                                             \/ FinishRound /\ pc = "finish" /\ Len(outcomes') = Round
             /\ status' = "complete" => status = "complete" \/ pc = "completing"
  <2> USE DEF Persisted, Steps
  <2>1. CASE CreateCycle \/ Complete
    BY <2>1 DEF CreateCycle, Complete, Reach, Leave, SetStatus, memory
  <2>2. CASE Describe \/ BeginRound
    BY <2>2 DEF Describe, BeginRound, graph, memory
  <2>3. CASE WriteShock \/ RecordMetrics
    BY <2>3 DEF WriteShock, RecordMetrics, memory
  <2>4. CASE Dispatch
    <3>1. PICK w \in Waves : IF WaveFailed(w) THEN Leave /\ Forget
                             ELSE wave' = w /\ pc' = "persist" /\ UNCHANGED <<outcomes, pairs, applied>>
      BY <2>4 DEF Dispatch
    <3> QED
      BY <2>4, <3>1 DEF Dispatch, Leave, graph
  <2>5. CASE ReadPairs \/ WriteEdges
    BY <2>5 DEF ReadPairs, WriteEdges, memory, graph
  <2>6. CASE FinishRound
    <3>1. Len(outcomes') = Round
      BY <2>6 DEF FinishRound, StoreType, Round
    <3> QED
      BY <2>6, <3>1 DEF FinishRound, graph
  <2>7. CASE RunFails \/ RecordTerminal \/ Kill
    BY <2>7 DEF RunFails, RecordTerminal, Kill, Leave, SetStatus, graph
  <2> HIDE DEF Persisted, Steps
  <2> QED
    BY <1>1, <2>1, <2>2, <2>3, <2>4, <2>5, <2>6, <2>7 DEF RunNext
<1>2. ASSUME Commands
      PROVE  UNCHANGED <<pc, outcomes>> /\ (deleting => deleting') /\ status' \in {status, "none"}
  <2>1. CASE OpenRuntime \/ PruneAgents \/ CommandEnds \/ AskDelete \/ AskExport \/ Export
    BY <2>1 DEF OpenRuntime, PruneAgents, CommandEnds, AskDelete, AskExport, Export, vars, graph, memory
  <2>2. CASE DeleteEdges \/ DeleteEpisodes \/ DeleteDecisions \/ DeleteShocks \/ DeleteCycleNode
    BY <2>2 DEF DeleteEdges, DeleteEpisodes, DeleteDecisions, DeleteShocks, DeleteCycleNode, memory
  <2> QED
    BY <1>2, <2>1, <2>2 DEF Commands
<1>3. CASE UNCHANGED storeVars
  BY <1>3 DEF storeVars, vars, graph, memory, cmdVars
<1> QED
  BY <1>1, <1>2, <1>3 DEF StoreNext, cmdVars

\* What is stored of a whole cycle when the transaction of a round commits.
LEMMA PersistKeepsWhole ==
  ASSUME StoreType, CommandInv, ProgressInv, WholeInv, PersistRound, UNCHANGED cmdVars
  PROVE  WholeInv'
<1> DEFINE New == DecisionsOf(wave)
           Tales == EpisodesOf(wave)
<1>1. /\ pc = "persist" /\ pc' \in {"pairs", "finish"} /\ status' = status
      /\ outcomes' = outcomes /\ setup' = setup /\ deleting' = deleting
  BY DEF PersistRound, cmdVars, memory
<1>2. ~deleting /\ status = "running" /\ pc \in Steps \ Persisted /\ Roster' = Roster /\ Roster # {}
  BY <1>1, RosterIsFinite DEF CommandInv, Steps, Persisted, Roster, StoreType
<1>3. StoredRounds = 1..Len(outcomes) /\ Round \in Nat \ {0} /\ Round = Len(outcomes) + 1 /\ Round' = Round
  BY <1>1, <1>2, RoundIsNat DEF WholeInv, Round
<1>4. /\ decisions' = decisions \cup New
      /\ \A d \in New : d.round = Round /\ d.agent \in Roster
      /\ \A a \in Roster : \E d \in New : d.agent = a
      /\ \A d, e \in New : d.agent = e.agent => d = e
  BY StoredDecisions
<1>5. /\ episodes' = episodes \cup Tales
      /\ \A e \in Tales : e.round = Round /\ e.agent \in Roster
      /\ \A a \in Roster : \E e \in Tales : e.agent = a
      /\ \A e, f \in Tales : e.agent = f.agent => e = f
  BY StoredEpisodes
<1>6. \A d \in decisions : d.round # Round
  <2>1. \A d \in decisions : d.round \in StoredRounds
    BY DEF StoredRounds
  <2> QED
    BY <1>3, <2>1
<1>7. \A e \in episodes : e.round # Round
  BY <1>2, <1>3 DEF WholeInv
<1> HIDE DEF New, Tales
<1>8. StoredRounds' = 1..Round
  <2>1. StoredRounds' = StoredRounds \cup {Round}
    BY <1>2, <1>4 DEF StoredRounds
  <2> QED
    BY <2>1, <1>3
<1>9. \A d \in decisions' : \A a \in Roster : \E e \in decisions' : e.round = d.round /\ e.agent = a
  BY <1>4 DEF WholeInv
<1>10. \A d, e \in decisions' : d.round = e.round /\ d.agent = e.agent => d = e
  BY <1>4, <1>6 DEF WholeInv
<1>11. \A e, f \in episodes' : e.round = f.round /\ e.agent = f.agent => e = f
  BY <1>5, <1>7 DEF WholeInv
<1>12. \A d \in decisions' : \E e \in episodes' : e.round = d.round /\ e.agent = d.agent
  BY <1>2, <1>4, <1>5 DEF WholeInv
<1>13. \A e \in episodes' : e.round \in StoredRounds'
  BY <1>2, <1>3, <1>5, <1>8 DEF WholeInv
<1> QED
  BY <1>1, <1>2, <1>3, <1>8, <1>9, <1>10, <1>11, <1>12, <1>13 DEF WholeInv, Persisted

LEMMA WholeStep ==
  ASSUME StoreType, CommandInv, ProgressInv, WholeInv, [StoreNext]_storeVars
  PROVE  WholeInv'
<1>1. CASE PersistRound /\ UNCHANGED cmdVars
  BY <1>1, PersistKeepsWhole
<1>2. CASE DeleteDecisions
  <2>1. /\ deleting /\ deleting' = deleting /\ episodes' = episodes /\ Roster' = Roster
        /\ \/ decisions' = decisions
           \/ \E r : decisions' = decisions \ DecisionsIn(r)
    BY <1>2 DEF DeleteDecisions, CommandInv, Deletes, memory, Roster
  <2>2. \A d \in decisions' : \A a \in Roster : \E e \in decisions' : e.round = d.round /\ e.agent = a
    BY <2>1 DEF WholeInv, DecisionsIn
  <2>3. \A d, e \in decisions' : d.round = e.round /\ d.agent = e.agent => d = e
    BY <2>1 DEF WholeInv
  <2> QED
    BY <2>1, <2>2, <2>3 DEF WholeInv
<1>3. CASE DeleteEpisodes
  <2>1. deleting /\ deleting' = deleting /\ episodes' = {} /\ decisions' = decisions /\ Roster' = Roster
    BY <1>3 DEF DeleteEpisodes, CommandInv, Deletes, memory, Roster
  <2> QED
    BY <2>1 DEF WholeInv
<1>4. ASSUME ~PersistRound, decisions' = decisions, episodes' = episodes
      PROVE  WholeInv'
  <2>1. setup' = setup /\ Roster' = Roster /\ StoredRounds' = StoredRounds
    BY <1>4, Writers DEF Roster, StoredRounds
  <2>2. /\ pc' \in Persisted => pc \in Persisted /\ outcomes' = outcomes
        /\ pc' \in Steps \ Persisted => \/ pc \in Steps \ Persisted /\ outcomes' = outcomes
                                        \/ FinishRound /\ pc = "finish" /\ Len(outcomes') = Round
        /\ status' = "complete" => status = "complete" \/ pc = "completing"
        /\ deleting => deleting'
    BY <1>4, Advances
  <2>3. ASSUME ~deleting'
        PROVE  /\ pc' \in Persisted => StoredRounds = 1..Round'
               /\ pc' \in Steps \ Persisted => StoredRounds = 1..Len(outcomes')
               /\ status' = "complete" => StoredRounds = 1..setup.rounds
    <3>1. ~deleting
      BY <2>2, <2>3
    <3>2. pc' \in Persisted => StoredRounds = 1..Round'
      BY <2>2, <3>1 DEF WholeInv, Round
    <3>3. pc' \in Steps \ Persisted => StoredRounds = 1..Len(outcomes')
      BY <2>2, <3>1 DEF WholeInv, Persisted
    <3>4. status' = "complete" => StoredRounds = 1..setup.rounds
      <4>1. pc = "completing" => pc \in Steps \ Persisted /\ Len(outcomes) = setup.rounds
        BY DEF ProgressInv, Steps, Persisted
      <4> QED
        BY <2>2, <3>1, <4>1 DEF WholeInv
    <3> QED
      BY <3>2, <3>3, <3>4
  <2>4. ASSUME ~deleting'
        PROVE  /\ \A d \in decisions : \E e \in episodes : e.round = d.round /\ e.agent = d.agent
               /\ \A e \in episodes : e.round \in StoredRounds
               /\ \E k \in Nat : StoredRounds = 1..k
    BY <2>2, <2>4 DEF WholeInv
  <2> QED
    BY <1>4, <2>1, <2>3, <2>4 DEF WholeInv
<1> QED
  <2>1. DeleteEpisodes => decisions' = decisions
    BY DEF DeleteEpisodes
  <2>2. DeleteDecisions => episodes' = episodes
    BY DEF DeleteDecisions
  <2>3. PersistRound => UNCHANGED cmdVars
    BY Writers DEF PersistRound
  <2> QED
    BY <1>1, <1>2, <1>3, <1>4, <2>1, <2>2, <2>3, Writers

-----------------------------------------------------------------------------
(* What a decision cites, its author was shown. *)

\* The graph and the memory of the run agree about the rounds that are over
\* and about the one that is stored, and the citations stored are grounded.
GroundInv ==
  /\ pc \in Storing => Grounded(wave)
  /\ pc \in Steps => \A d \in decisions : d.round \in 1..Len(outcomes) =>
                        d.signal = outcomes[d.round].wave[d.agent].signal
  /\ pc \in Persisted => \A d \in decisions : d.round = Round => d.signal = wave[d.agent].signal
  /\ CitationsWereShown

LEMMA GroundInit ==
  ASSUME StoreInit
  PROVE  GroundInv
BY DEF StoreInit, Init, GroundInv, CitationsWereShown, Storing, Persisted

\* A citation of the round that is stored names someone who decided before.
LEMMA CitesTheRoundBefore ==
  ASSUME StoreType, CommandInv, WholeInv, GroundInv, PersistRound,
         NEW d \in DecisionsOf(wave), NEW c \in d.cited
  PROVE  /\ c \in d.shown /\ c # d.agent /\ ~d.control /\ d.round > 1
         /\ \E p \in decisions : p.round = d.round - 1 /\ p.agent = c /\ p.signal # ParseError
<1>1. pc = "persist" /\ pc \in Steps \ Persisted /\ pc \in Storing /\ ~deleting
  BY DEF PersistRound, Steps, Persisted, Storing, CommandInv
<1>2. StoredRounds = 1..Len(outcomes) /\ Len(outcomes) \in Nat /\ Round = Len(outcomes) + 1
  BY <1>1, RoundIsNat DEF WholeInv
<1>3. /\ d.round = Round /\ d.agent \in Roster /\ d.shown = wave[d.agent].shown
      /\ d.cited = wave[d.agent].cited \cap nodes /\ d.control = (d.agent \in control)
  BY StoredDecisions
<1>4. /\ c \in wave[d.agent].shown \ {d.agent} /\ d.agent \notin control /\ Len(outcomes) # 0
      /\ c \notin Failed(Previous)
  BY <1>1, <1>3 DEF GroundInv, Grounded
<1>5. c \in Roster
  <2>1. wave[d.agent] \in Votes
    BY <1>1, <1>3 DEF StoreType
  <2> QED
    BY <1>4, <2>1 DEF Votes
<1>6. outcomes[Len(outcomes)] \in Finished
  BY <1>2, <1>4 DEF StoreType
<1>7. Previous[c].signal # ParseError
  <2>1. DOMAIN Previous = Roster
    BY <1>6 DEF Previous, Finished
  <2> QED
    BY <1>4, <1>5, <2>1 DEF Failed
<1>8. PICK p \in decisions : p.round = Len(outcomes) /\ p.agent = c
  <2>1. Len(outcomes) \in StoredRounds
    BY <1>2, <1>4
  <2>2. PICK e \in decisions : e.round = Len(outcomes)
    BY <2>1 DEF StoredRounds
  <2> QED
    BY <1>5, <2>2 DEF WholeInv
<1>9. p.signal = outcomes[Len(outcomes)].wave[c].signal
  BY <1>1, <1>2, <1>4, <1>8 DEF GroundInv
<1>10. c \in d.shown /\ c # d.agent
  BY <1>3, <1>4
<1>11. ~d.control
  BY <1>3, <1>4
<1>12. d.round > 1 /\ d.round - 1 = Len(outcomes)
  BY <1>2, <1>3, <1>4
<1>13. p.round = d.round - 1 /\ p.agent = c /\ p.signal # ParseError
  BY <1>7, <1>8, <1>9, <1>12 DEF Previous
<1> QED
  BY <1>10, <1>11, <1>12, <1>13

\* More decisions never take the ground from a citation, and once a delete has
\* started only the part about the reader counts.
LEMMA CitationsStep ==
  ASSUME StoreType, CommandInv, WholeInv, GroundInv, [StoreNext]_storeVars
  PROVE  CitationsWereShown'
<1>1. CASE PersistRound
  <2>1. /\ decisions' = decisions \cup DecisionsOf(wave) /\ deleting' = deleting /\ ~deleting
    <3>1. UNCHANGED cmdVars
      BY <1>1, Writers DEF PersistRound
    <3> QED
      BY <1>1, <3>1, StoredDecisions DEF cmdVars, PersistRound, CommandInv, Steps
  <2>2. ASSUME NEW d \in decisions, NEW c \in d.cited
        PROVE  /\ c \in d.shown /\ c # d.agent /\ ~d.control /\ d.round > 1
               /\ \E p \in decisions : p.round = d.round - 1 /\ p.agent = c /\ p.signal # ParseError
    BY <2>1 DEF GroundInv, CitationsWereShown, DecidedIn, DecisionsIn
  <2>3. ASSUME NEW d \in decisions', NEW c \in d.cited
        PROVE  /\ c \in d.shown /\ c # d.agent /\ ~d.control /\ d.round > 1
               /\ \E p \in decisions' : p.round = d.round - 1 /\ p.agent = c /\ p.signal # ParseError
    <3>1. CASE d \in decisions
      BY <2>1, <2>2, <3>1
    <3>2. CASE d \in DecisionsOf(wave)
      BY <1>1, <2>1, <3>2, CitesTheRoundBefore
    <3> QED
      BY <2>1, <3>1, <3>2
  <2> QED
    BY <2>3 DEF CitationsWereShown, DecidedIn, DecisionsIn
<1>2. CASE ~PersistRound
  <2>1. decisions' = decisions \/ (DeleteDecisions /\ deleting /\ decisions' \subseteq decisions)
    BY <1>2, Writers DEF DeleteDecisions, CommandInv, Deletes
  <2>2. deleting => deleting'
    BY <1>2, Advances
  <2>3. CASE decisions' = decisions
    BY <2>2, <2>3 DEF GroundInv, CitationsWereShown, DecidedIn, DecisionsIn
  <2>4. CASE deleting /\ decisions' \subseteq decisions
    BY <2>2, <2>4 DEF GroundInv, CitationsWereShown
  <2> QED
    BY <2>1, <2>3, <2>4
<1> QED
  BY <1>1, <1>2

LEMMA GroundStep ==
  ASSUME StoreType, CommandInv, WholeInv, GroundInv, [StoreNext]_storeVars
  PROVE  GroundInv'
<1>1. Len(outcomes) \in Nat /\ Round = Len(outcomes) + 1 /\ Roster' = Roster /\ control' = control
  BY RoundIsNat, Writers DEF Roster
<1>2. ASSUME pc' \in Storing
      PROVE  Grounded(wave)'
  <2>1. outcomes' = outcomes /\ Previous' = Previous
    BY <1>2, Carries DEF Previous
  <2>2. Grounded(wave')
    BY <1>2, Carries, WavesAreGrounded DEF GroundInv, StoreType
  <2> QED
    BY <1>1, <2>1, <2>2 DEF Grounded, Previous, Failed
<1>3. CASE PersistRound
  <2>1. /\ pc = "persist" /\ pc \in Steps /\ pc \in Steps \ Persisted /\ ~deleting
        /\ outcomes' = outcomes /\ wave' = wave
    BY <1>3 DEF PersistRound, Steps, Persisted, CommandInv, memory
  <2>2. /\ decisions' = decisions \cup DecisionsOf(wave)
        /\ \A d \in DecisionsOf(wave) : d.round = Round /\ d.signal = wave[d.agent].signal
    BY <1>3, StoredDecisions
  <2>3. \A d \in decisions : d.round \in 1..Len(outcomes)
    BY <2>1 DEF WholeInv, StoredRounds
  <2>4. \A d \in decisions' : d.round \in 1..Len(outcomes) => d.signal = outcomes[d.round].wave[d.agent].signal
    BY <1>1, <2>1, <2>2 DEF GroundInv
  <2>5. \A d \in decisions' : d.round = Round => d.signal = wave[d.agent].signal
    BY <1>1, <2>2, <2>3
  <2>6. Round' = Round
    BY <2>1 DEF Round
  <2> QED
    BY <1>2, <2>1, <2>4, <2>5, <2>6, CitationsStep DEF GroundInv
<1>4. CASE FinishRound
  <2> DEFINE out == [wave |-> wave, weights |-> CitationWeights(pairs, Cardinality(Active(wave)))]
  <2>1. pc = "finish" /\ pc \in Steps /\ pc \in Persisted /\ pc \in Storing /\ pc' \notin Persisted
    BY <1>4 DEF FinishRound, Steps, Persisted, Storing
  <2>2. outcomes' = Append(outcomes, out) /\ decisions' = decisions /\ out \in Finished /\ out.wave = wave
    BY <1>4, <2>1, WeightsOfPairs DEF FinishRound, graph, Finished, StoreType
  <2> HIDE DEF out
  <2>3. /\ Len(outcomes') = Round /\ outcomes'[Round].wave = wave
        /\ \A i \in 1..Len(outcomes) : outcomes'[i] = outcomes[i]
    BY <1>1, <2>2 DEF StoreType
  <2>4. ASSUME NEW d \in decisions, d.round \in 1..Len(outcomes')
        PROVE  d.signal = outcomes'[d.round].wave[d.agent].signal
    <3>1. d.round \in 1..Len(outcomes) \/ d.round = Round
      BY <1>1, <2>3, <2>4
    <3>2. CASE d.round \in 1..Len(outcomes)
      BY <2>1, <2>3, <3>2 DEF GroundInv
    <3>3. CASE d.round = Round
      BY <2>1, <2>3, <3>3 DEF GroundInv
    <3> QED
      BY <3>1, <3>2, <3>3
  <2> QED
    BY <1>2, <2>1, <2>2, <2>4, CitationsStep DEF GroundInv
<1>5. CASE ~PersistRound /\ ~FinishRound
  <2>1. ASSUME pc' \in Steps
        PROVE  pc \in Steps /\ outcomes' = outcomes /\ decisions' = decisions
    <3>1. pc \in Steps
      BY <2>1, Writers
    <3>2. outcomes' = outcomes
      BY <1>5, <2>1, Writers DEF Steps, Ended
    <3>3. ~DeleteDecisions
      BY <3>1 DEF DeleteDecisions, CommandInv, Deletes
    <3> QED
      BY <1>5, <3>1, <3>2, <3>3, Writers
  <2>2. ASSUME pc' \in Persisted
        PROVE  pc \in Persisted /\ wave' = wave /\ Round' = Round /\ decisions' = decisions
    <3>1. pc \in Persisted /\ outcomes' = outcomes
      BY <1>5, <2>2, Advances
    <3>2. pc' \in Storing /\ pc' \in Steps /\ ~Dispatch
      BY <2>2, <3>1 DEF Persisted, Storing, Steps, Dispatch
    <3> QED
      BY <2>1, <3>1, <3>2, Writers DEF Round
  <2> QED
    BY <1>2, <2>1, <2>2, CitationsStep DEF GroundInv
<1> QED
  BY <1>3, <1>4, <1>5

-----------------------------------------------------------------------------
(* Who decided keeps the Agent node, and the edges are the citations. *)

AuthorInv == \A d \in decisions : d.agent \in nodes

LEMMA AuthorInit ==
  ASSUME StoreInit
  PROVE  AuthorInv
BY DEF StoreInit, Init, AuthorInv

LEMMA AuthorStep ==
  ASSUME StoreType, AuthorInv, [StoreNext]_storeVars
  PROVE  AuthorInv'
<1>1. CASE PersistRound
  <2>1. nodes' = nodes /\ Roster \subseteq nodes
    BY <1>1 DEF PersistRound, StoreRound, StoreType, Storing
  <2> QED
    BY <1>1, <2>1, StoredDecisions DEF AuthorInv
<1>2. CASE OpenRuntime \/ PruneAgents
  BY <1>2 DEF OpenRuntime, PruneAgents, AuthorInv
<1>3. CASE DeleteDecisions
  BY <1>3 DEF DeleteDecisions, AuthorInv
<1>4. CASE decisions' = decisions /\ nodes' = nodes
  BY <1>4 DEF AuthorInv
<1> QED
  <2>1. DeleteDecisions => nodes' = nodes
    BY DEF DeleteDecisions
  <2>2. OpenRuntime \/ PruneAgents => decisions' = decisions
    BY DEF OpenRuntime, PruneAgents
  <2> QED
    BY <1>1, <1>2, <1>3, <1>4, <2>1, <2>2, Writers

\* Whoever was cited has decided in the same round: a round is stored whole.
LEMMA EveryAuthorIsThere ==
  ASSUME StoreType, WholeInv, AuthorInv
  PROVE  AuthorsSurvive
<1>1. ASSUME NEW d \in decisions
      PROVE  Roster \subseteq nodes /\ d.agent \in nodes /\ d.cited \subseteq Roster
  BY DEF WholeInv, AuthorInv, StoreType, Decision
<1> QED
  BY <1>1 DEF AuthorsSurvive

Ends(r) == {<<e.source, e.target>> : e \in {f \in edges : f.round = r}}

EdgeInv ==
  /\ pc = "edges" => pairs = CitationPairs(Round)
  /\ ~deleting =>
       /\ pc \in Steps => \A e \in edges : e.round <= Len(outcomes) \/ (pc = "finish" /\ e.round = Round)
       /\ \A e, f \in edges : e.round = f.round /\ e.source = f.source /\ e.target = f.target => e = f
       /\ \A e \in edges : Ends(e.round) = CitationPairs(e.round)

LEMMA EdgeInit ==
  ASSUME StoreInit
  PROVE  EdgeInv
BY DEF StoreInit, Init, EdgeInv

\* The pairs whose edges are written all join two Agent nodes.
LEMMA PairsAreThere ==
  ASSUME StoreType, WholeInv, AuthorInv, EdgeInv, pc = "edges"
  PROVE  \A p \in pairs : {p[1], p[2]} \subseteq nodes
<1>1. ASSUME NEW d \in decisions, NEW c \in d.cited
      PROVE  d.agent \in nodes /\ c \in nodes
  BY EveryAuthorIsThere DEF AuthorsSurvive
<1> QED
  BY <1>1 DEF EdgeInv, CitationPairs

\* Only its own steps take the run past the edges of a round.
LEMMA EdgesWait ==
  ASSUME [StoreNext]_storeVars, ~WriteEdges, ~ReadPairs, ~PersistRound, ~FinishRound, pc' \in Steps,
         pc \in {"edges", "finish"} \/ pc' \in {"edges", "finish"}
  PROVE  pc' = pc /\ pairs' = pairs
<1>1. CASE Describe \/ BeginRound \/ WriteShock \/ RecordMetrics
  BY <1>1 DEF Describe, BeginRound, WriteShock, RecordMetrics
<1>2. CASE CreateCycle \/ Complete \/ RunFails \/ RecordTerminal \/ Kill
  BY <1>2 DEF CreateCycle, Complete, RunFails, RecordTerminal, Kill, Reach, Leave, Steps
<1>3. CASE Dispatch
  <2>1. PICK w \in Waves : IF WaveFailed(w) THEN Leave /\ Forget
                           ELSE wave' = w /\ pc' = "persist" /\ UNCHANGED <<outcomes, pairs, applied>>
    BY <1>3 DEF Dispatch
  <2> QED
    BY <1>3, <2>1 DEF Dispatch, Leave
<1>4. CASE Commands \/ UNCHANGED storeVars
  BY <1>4 DEF Commands, OpenRuntime, PruneAgents, CommandEnds, AskDelete, AskExport, Export, DeleteEdges,
     DeleteEpisodes, DeleteDecisions, DeleteShocks, DeleteCycleNode, vars, storeVars
<1> QED
  BY <1>1, <1>2, <1>3, <1>4 DEF StoreNext, RunNext

LEMMA EdgesOfTheRound ==
  ASSUME StoreType, CommandInv, WholeInv, AuthorInv, EdgeInv, WriteEdges
  PROVE  EdgeInv'
<1>1. /\ pc = "edges" /\ pc' = "finish" /\ decisions' = decisions /\ outcomes' = outcomes
      /\ pc \in Steps /\ ~deleting /\ Round' = Round
  BY DEF WriteEdges, memory, Steps, CommandInv, Round
<1>2. Round \in Nat /\ Len(outcomes) \in Nat /\ Round = Len(outcomes) + 1
  BY RoundIsNat
<1>3. pairs = CitationPairs(Round) /\ \A e \in edges : e.round <= Len(outcomes)
  BY <1>1 DEF EdgeInv
<1>4. \A p \in pairs : {p[1], p[2]} \subseteq nodes
  BY <1>1, PairsAreThere
<1>5. PICK New :
        /\ edges' = edges \cup New
        /\ \A e \in New : e.round = Round /\ <<e.source, e.target>> \in pairs
        /\ \A p \in pairs : \E e \in New : <<e.source, e.target>> = p
        /\ \A e, f \in New : e.source = f.source /\ e.target = f.target => e = f
  BY <1>4, StoredEdges
<1>6. \A e \in edges : e.round # Round
  <2>1. \A e \in edges : e.round \in Nat
    BY DEF StoreType
  <2> QED
    BY <1>2, <1>3, <2>1
<1>7. \A e \in edges' : e.round <= Len(outcomes) \/ e.round = Round
  BY <1>3, <1>5
<1>8. \A e, f \in edges' : e.round = f.round /\ e.source = f.source /\ e.target = f.target => e = f
  BY <1>1, <1>5, <1>6 DEF EdgeInv
<1>9. \A r : CitationPairs(r)' = CitationPairs(r)
  BY <1>1 DEF CitationPairs
<1>10. Ends(Round)' = CitationPairs(Round)
  <2>1. {f \in edges' : f.round = Round} = New
    BY <1>5, <1>6
  <2>2. {<<e.source, e.target>> : e \in New} = pairs
    BY <1>5
  <2> QED
    BY <1>1, <1>3, <2>1, <2>2 DEF Ends
<1>11. ASSUME NEW e \in edges
       PROVE  Ends(e.round)' = CitationPairs(e.round)
  <2>1. {f \in edges' : f.round = e.round} = {f \in edges : f.round = e.round}
    BY <1>5, <1>6
  <2> QED
    BY <1>1, <2>1 DEF Ends, EdgeInv
<1> QED
  <2>1. \A e \in edges' : {<<f.source, f.target>> : f \in {g \in edges' : g.round = e.round}}
                            = CitationPairs(e.round)
    BY <1>1, <1>5, <1>10, <1>11 DEF Ends
  <2> QED
    BY <1>1, <1>7, <1>8, <1>9, <2>1 DEF EdgeInv, Ends, CitationPairs

LEMMA EdgeStep ==
  ASSUME StoreType, CommandInv, WholeInv, AuthorInv, EdgeInv, [StoreNext]_storeVars
  PROVE  EdgeInv'
<1>1. CASE WriteEdges
  BY <1>1, EdgesOfTheRound
<1>2. CASE ReadPairs
  <2>1. /\ UNCHANGED <<decisions, edges, outcomes>> /\ UNCHANGED cmdVars
        /\ pc = "pairs" /\ pc' \in {"edges", "finish"} /\ pairs' = CitationPairs(Round)
        /\ pc \in Steps
    BY <1>2, Writers DEF ReadPairs, memory, graph, Steps
  <2> QED
    BY <2>1 DEF EdgeInv, Ends, CitationPairs, Round, cmdVars
<1>3. CASE PersistRound
  <2>1. /\ UNCHANGED cmdVars /\ edges' = edges /\ outcomes' = outcomes
        /\ pc = "persist" /\ pc' \in {"pairs", "finish"} /\ pc \in Steps /\ ~deleting
    BY <1>3, Writers DEF PersistRound, memory, Steps, CommandInv
  <2>2. /\ decisions' = decisions \cup DecisionsOf(wave)
        /\ \A d \in DecisionsOf(wave) : d.round = Round
    BY <1>3, StoredDecisions
  <2>3. \A e \in edges : e.round <= Len(outcomes) /\ e.round \in Nat
    BY <2>1 DEF EdgeInv, StoreType
  <2>4. ASSUME NEW e \in edges
        PROVE  CitationPairs(e.round)' = CitationPairs(e.round)
    <3>1. ~ (Round <= e.round)
      BY <2>3, RoundIsNat
    <3>2. {d \in decisions' : d.round <= e.round} = {d \in decisions : d.round <= e.round}
      BY <2>2, <3>1
    <3> QED
      BY <3>2 DEF CitationPairs
  <2>5. Ends(1)' = Ends(1) /\ \A e \in edges : {<<f.source, f.target>> : f \in {g \in edges' : g.round = e.round}} = CitationPairs(e.round)
    BY <2>1 DEF EdgeInv, Ends
  <2> QED
    BY <2>1, <2>3, <2>4, <2>5 DEF EdgeInv, Ends, CitationPairs
<1>4. CASE FinishRound
  <2>1. /\ UNCHANGED <<decisions, edges>> /\ pc = "finish" /\ pc \in Steps /\ pc' \notin {"edges", "finish"}
        /\ UNCHANGED cmdVars
    BY <1>4, Writers DEF FinishRound, graph, Steps
  <2>2. Len(outcomes') = Round /\ Round = Len(outcomes) + 1 /\ Len(outcomes) \in Nat
    BY <1>4, RoundIsNat DEF FinishRound, StoreType
  <2>3. \A e \in edges : e.round \in Nat
    BY DEF StoreType
  <2>4. ~deleting => \A e \in edges : e.round <= Len(outcomes')
    BY <2>1, <2>2, <2>3 DEF EdgeInv
  <2> QED
    BY <2>1, <2>4 DEF EdgeInv, Ends, CitationPairs, cmdVars
<1>5. CASE ~WriteEdges /\ ~ReadPairs /\ ~PersistRound /\ ~FinishRound
  <2>1. deleting => deleting'
    BY <1>5, Advances
  <2>2. ASSUME ~deleting'
        PROVE  decisions' = decisions /\ edges' = edges
    <3>1. ~DeleteDecisions /\ ~DeleteEdges
      BY <2>1, <2>2 DEF DeleteDecisions, DeleteEdges, CommandInv, Deletes
    <3> QED
      BY <1>5, <3>1, Writers
  <2>3. ASSUME pc' \in Steps
        PROVE  /\ outcomes' = outcomes /\ pc \in Steps /\ decisions' = decisions
               /\ pc = "finish" \/ pc' \in {"edges", "finish"} => pc' = pc /\ pairs' = pairs
    <3>1. outcomes' = outcomes /\ pc \in Steps
      BY <1>5, <2>3, Writers DEF Steps, Ended
    <3>2. decisions' = decisions
      BY <1>5, <3>1, Writers DEF DeleteDecisions, CommandInv, Deletes
    <3>3. pc = "finish" \/ pc' \in {"edges", "finish"} => pc' = pc /\ pairs' = pairs
      BY <1>5, <2>3, EdgesWait
    <3> QED
      BY <3>1, <3>2, <3>3
  <2>4. pc' = "edges" => pairs' = CitationPairs(Round)'
    <3>1. ASSUME pc' = "edges"
          PROVE  pc = "edges" /\ pairs' = pairs /\ decisions' = decisions /\ outcomes' = outcomes
      BY <2>3, <3>1 DEF Steps
    <3> QED
      BY <3>1 DEF EdgeInv, CitationPairs, Round
  <2>5. ASSUME ~deleting', pc' \in Steps
        PROVE  \A e \in edges' : e.round <= Len(outcomes') \/ (pc' = "finish" /\ e.round = Round')
    BY <2>1, <2>2, <2>3, <2>5 DEF EdgeInv, Round
  <2>6. ASSUME ~deleting'
        PROVE  /\ \A e, f \in edges' : e.round = f.round /\ e.source = f.source /\ e.target = f.target => e = f
               /\ \A e \in edges' : Ends(e.round)' = CitationPairs(e.round)'
    BY <2>1, <2>2, <2>6 DEF EdgeInv, Ends, CitationPairs
  <2> QED
    BY <2>4, <2>5, <2>6 DEF EdgeInv
<1> QED
  BY <1>1, <1>2, <1>3, <1>4, <1>5

-----------------------------------------------------------------------------
(* The theorems. *)

StoreInv == StoreType /\ CommandInv /\ ProgressInv /\ WholeInv /\ GroundInv /\ AuthorInv /\ EdgeInv

THEOREM StoreHolds == StoreSpec => []StoreInv
<1>1. StoreInit => StoreInv
  BY StoreTypeInit, CommandInit, ProgressInit, WholeInit, GroundInit, AuthorInit, EdgeInit DEF StoreInv
<1>2. StoreInv /\ [StoreNext]_storeVars => StoreInv'
  BY StoreTypeStep, CommandStep, ProgressStep, WholeStep, GroundStep, AuthorStep, EdgeStep DEF StoreInv
<1> QED
  BY <1>1, <1>2, PTL DEF StoreSpec

\* Two sets of which one is finite, with a bijection between them.
LEMMA SameSize ==
  ASSUME NEW S, NEW T, IsFiniteSet(T), NEW f \in [S -> T],
         \A x, y \in S : f[x] = f[y] => x = y,
         \A z \in T : \E x \in S : f[x] = z
  PROVE  Cardinality(S) = Cardinality(T)
<1>1. f \in Injection(S, T) /\ f \in Surjection(S, T)
  BY Fun_IsInj, Fun_IsSurj
<1> QED
  BY <1>1, FS_Injection

LEMMA StoredWhole ==
  ASSUME StoreInv
  PROVE  RoundsAreWhole
<1> USE DEF StoreInv
<1> SUFFICES ASSUME ~deleting
             PROVE  /\ StoredRounds = 1..Cardinality(StoredRounds)
                    /\ \A r \in StoredRounds : /\ {d.agent : d \in DecisionsIn(r)} = Roster
                                               /\ Cardinality(DecisionsIn(r)) = Cardinality(Roster)
                                               /\ \A d \in DecisionsIn(r) : Cardinality(EpisodeOf(d)) = 1
                    /\ status = "complete" => described /\ StoredRounds = 1..FinalRound
  BY DEF RoundsAreWhole, StoredRounds
<1>1. StoredRounds = 1..Cardinality(StoredRounds)
  <2>1. PICK k \in Nat : StoredRounds = 1..k
    BY DEF WholeInv
  <2>2. Cardinality(1..k) = k
    BY FS_Interval
  <2> QED
    BY <2>1, <2>2
<1>2. ASSUME NEW r \in StoredRounds
      PROVE  /\ {d.agent : d \in DecisionsIn(r)} = Roster
             /\ Cardinality(DecisionsIn(r)) = Cardinality(Roster)
             /\ \A d \in DecisionsIn(r) : Cardinality(EpisodeOf(d)) = 1
  <2>1. \A d \in DecisionsIn(r) : d.agent \in Roster
    BY DEF DecisionsIn, StoreType, Decision
  <2>2. \A a \in Roster : \E d \in DecisionsIn(r) : d.agent = a
    BY DEF WholeInv, StoredRounds, DecisionsIn
  <2>3. Cardinality(DecisionsIn(r)) = Cardinality(Roster)
    <3> DEFINE author == [d \in DecisionsIn(r) |-> d.agent]
    <3>1. author \in [DecisionsIn(r) -> Roster]
      BY <2>1
    <3>2. \A d, e \in DecisionsIn(r) : author[d] = author[e] => d = e
      BY DEF WholeInv, DecisionsIn
    <3>3. \A a \in Roster : \E d \in DecisionsIn(r) : author[d] = a
      BY <2>2
    <3> HIDE DEF author
    <3> QED
      BY <3>1, <3>2, <3>3, SameSize, RosterIsFinite DEF StoreType
  <2>4. ASSUME NEW d \in DecisionsIn(r)
        PROVE  Cardinality(EpisodeOf(d)) = 1
    <3>1. PICK e \in episodes : e.round = d.round /\ e.agent = d.agent
      BY DEF WholeInv, DecisionsIn
    <3>2. EpisodeOf(d) = {e}
      BY <3>1 DEF WholeInv, EpisodeOf
    <3> QED
      BY <3>2, FS_Singleton
  <2> QED
    BY <2>1, <2>2, <2>3, <2>4
<1>3. status = "complete" => described /\ StoredRounds = 1..FinalRound
  BY DEF ProgressInv, WholeInv, FinalRound
<1> QED
  BY <1>1, <1>2, <1>3

LEMMA EdgesAreStored ==
  ASSUME StoreInv
  PROVE  EdgesAreCitations
<1> USE DEF StoreInv
<1> DEFINE Found(r) == {e \in edges : e.round = r}
           Cited(r) == UNION {{<<d.agent, c>> : c \in d.cited} : d \in {x \in decisions : x.round \in 1..r}}
<1> SUFFICES ASSUME ~deleting, NEW g \in edges
             PROVE  /\ {<<e.source, e.target>> : e \in Found(g.round)} = Cited(g.round)
                    /\ Cardinality(Found(g.round)) = Cardinality(Cited(g.round))
  BY DEF EdgesAreCitations
<1> DEFINE r == g.round
<1>1. r \in Nat /\ \A d \in decisions : d.round \in Nat \ {0}
  BY DEF StoreType, Decision
<1>2. Cited(r) = CitationPairs(r)
  <2>1. {x \in decisions : x.round \in 1..r} = {x \in decisions : x.round <= r}
    BY <1>1
  <2>2. \A d \in decisions : d.cited \ {d.agent} = d.cited
    BY DEF GroundInv, CitationsWereShown
  <2> HIDE DEF r
  <2> QED
    BY <2>1, <2>2 DEF CitationPairs
<1>3. {<<e.source, e.target>> : e \in Found(r)} = Cited(r)
  BY <1>2 DEF EdgeInv, Ends
<1>4. IsFiniteSet(Cited(r))
  <2>1. Cited(r) \subseteq Roster \X Roster
    BY <1>2, PairsJoinAgents
  <2>2. IsFiniteSet(Roster \X Roster)
    BY RosterIsFinite, FS_Product DEF StoreType
  <2> HIDE DEF Cited
  <2> QED
    BY <2>1, <2>2, FS_Subset
<1> DEFINE ends == [e \in Found(r) |-> <<e.source, e.target>>]
<1>5. ends \in [Found(r) -> Cited(r)]
  BY <1>3
<1>6. \A e, f \in Found(r) : ends[e] = ends[f] => e = f
  BY DEF EdgeInv
<1>7. \A z \in Cited(r) : \E e \in Found(r) : ends[e] = z
  BY <1>3
<1> HIDE DEF ends, Found, Cited, r
<1>8. Cardinality(Found(r)) = Cardinality(Cited(r))
  BY <1>4, <1>5, <1>6, <1>7, SameSize
<1> QED
  BY <1>3, <1>8 DEF r

\* A delete that stopped in the middle can be run again: whatever is left
\* hangs on a Cycle that the command finds and does not refuse (graph/manager
\* delete_cycle); and no version of the roster prunes the Agent of a decision
\* or of a citation that is stored (schema_writes.py:242).
THEOREM NothingIsStranded == StoreSpec => []NothingStranded
<1>1. StoreInv => NothingStranded
  BY EveryAuthorIsThere DEF StoreInv, CommandInv, NothingStranded, LeftoversReachable
<1> QED
  BY <1>1, StoreHolds, PTL

\* Whatever fails and whoever else uses the graph, a round is stored for every
\* agent or for none, in order, with one episode each, and a complete cycle
\* has all of them (_persist_round_records, rounds.py:233).
THEOREM WholeRounds == StoreSpec => []RoundsAreWhole
<1>1. StoreInv => RoundsAreWhole
  BY StoredWhole
<1> QED
  BY <1>1, StoreHolds, PTL

\* For every strategy of showing peers and every draw: a stored citation names
\* a peer its author was shown and that had decided in the round before, and
\* the edges of a round are the citations so far, one for each pair.
THEOREM CitationsAreSound == StoreSpec => []CitationsHold
<1>1. StoreInv => CitationsHold
  BY EdgesAreStored DEF StoreInv, GroundInv, CitationsHold
<1> QED
  BY <1>1, StoreHolds, PTL

-----------------------------------------------------------------------------
(* What the graph holds is what the run computed. *)

FlipAt(r, a) == IF r = 1 THEN NoFlip ELSE FlipType(Wave(r - 1)[a].signal, Wave(r)[a].signal)

\* Each record of a round that the run remembers says what its wave said, and
\* so do the records of a round that is stored and not finished.
KeptInv == ~deleting =>
  /\ \A d \in decisions : d.round \in Rounds => /\ d.signal = Wave(d.round)[d.agent].signal
                                                /\ d.cited = Wave(d.round)[d.agent].cited
  /\ \A e \in episodes : e.round \in Rounds => e.flip = FlipAt(e.round, e.agent)
  /\ pc \in Persisted =>
       /\ \A d \in decisions : d.round = Round => /\ d.signal = wave[d.agent].signal
                                                  /\ d.cited = wave[d.agent].cited
       /\ \A e \in episodes : e.round = Round => e.flip = FlipInRound(e.agent, wave)

\* The edges of a round that is over carry the weights the run remembers, and
\* before that the pairs at hand are those of the edges.
WeightInv == ~deleting =>
  /\ \A r \in Rounds : outcomes[r].weights = CitationWeights(Ends(r), Cardinality(Active(Wave(r))))
  /\ \A e \in edges : e.round \in Rounds => e.weight = outcomes[e.round].weights[e.target]
  /\ pc \in Steps \ {"edges", "finish"} => pairs = {}
  /\ pc = "finish" =>
       /\ Ends(Round) = pairs
       /\ \A e \in edges : e.round = Round =>
            e.weight = CitationWeights(pairs, Cardinality(Active(wave)))[e.target]

\* While the run remembers anything, or may yet.
Remembers == pc \in Steps \/ outcomes # <<>>

\* A shock that was consumed is stored before the round goes on.
ShockInv ==
  /\ applied \subseteq 2..setup.rounds
  /\ ~deleting /\ Remembers => applied = IF pc = "shock" THEN shocks \cup {Round} ELSE shocks

\* A run that ends and remembers has had all its rounds, and the metrics, if
\* they are there, are those of all rounds.
EndInv ==
  /\ pc \in Ended /\ outcomes # <<>> => Len(outcomes) = setup.rounds
  /\ ~deleting /\ Remembers =>
       metrics = NoMetrics \/ (Len(outcomes) = setup.rounds /\ metrics = CycleMetrics)

\* While the cycle is not taken apart and the run remembers, only a step of
\* the run writes a record.
LEMMA OnlyTheRunWrites ==
  ASSUME StoreType, CommandInv, [StoreNext]_storeVars, ~deleting', Remembers'
  PROVE  /\ ~deleting /\ Remembers
         /\ decisions' = decisions \/ PersistRound
         /\ episodes' = episodes \/ PersistRound
         /\ edges' = edges \/ WriteEdges
         /\ shocks' = shocks \/ WriteShock
         /\ outcomes' = outcomes \/ FinishRound
         /\ applied' = applied \/ BeginRound
         /\ metrics' = metrics \/ RecordMetrics
<1>1. ~deleting
  <2>1. PersistRound => deleting' = deleting
    BY Writers DEF PersistRound, cmdVars
  <2> QED
    BY <2>1, Advances
<1>2. ~DeleteDecisions /\ ~DeleteEpisodes /\ ~DeleteEdges /\ ~DeleteShocks /\ ~DeleteCycleNode
  BY <1>1 DEF DeleteDecisions, DeleteEpisodes, DeleteEdges, DeleteShocks, DeleteCycleNode, CommandInv, Deletes
<1>3. outcomes' = outcomes \/ FinishRound
  BY Writers DEF Remembers, Steps, Ended
<1>4. Remembers
  <2>1. FinishRound => pc \in Steps
    BY DEF FinishRound, Steps
  <2> QED
    BY <1>3, <2>1, Writers DEF Remembers
<1>5. /\ applied' = applied \/ BeginRound \/ (applied' = {} /\ ~Remembers')
      /\ metrics' = metrics \/ RecordMetrics
  <2>1. CASE Commands \/ UNCHANGED storeVars
    BY <1>2, <2>1 DEF Commands, OpenRuntime, PruneAgents, CommandEnds, AskDelete, AskExport, Export,
       vars, storeVars, memory, graph
  <2>2. CASE CreateCycle \/ Describe \/ WriteShock \/ PersistRound \/ ReadPairs \/ WriteEdges \/ FinishRound
    BY <2>2 DEF CreateCycle, Describe, WriteShock, PersistRound, ReadPairs, WriteEdges, FinishRound, memory, graph
  <2>3. CASE BeginRound \/ RecordMetrics \/ Complete \/ RecordTerminal
    BY <2>3 DEF BeginRound, RecordMetrics, Complete, RecordTerminal, memory, graph
  <2>4. CASE Dispatch
    <3>1. PICK w \in Waves : IF WaveFailed(w) THEN Leave /\ Forget
                             ELSE wave' = w /\ pc' = "persist" /\ UNCHANGED <<outcomes, pairs, applied>>
      BY <2>4 DEF Dispatch
    <3> QED
      BY <2>4, <3>1 DEF Dispatch, Leave, Forget, Remembers, Steps, graph
  <2>5. CASE RunFails \/ Kill
    BY <2>5 DEF RunFails, Kill, Leave, Forget, Remembers, Steps, graph
  <2> QED
    BY <2>1, <2>2, <2>3, <2>4, <2>5 DEF StoreNext, RunNext
<1> QED
  BY <1>1, <1>2, <1>3, <1>4, <1>5, Writers

\* How a round's outcome enters the run's memory.
LEMMA RoundFinishes ==
  ASSUME StoreType, FinishRound
  PROVE  /\ UNCHANGED <<graph, applied, setup>>
         /\ pc = "finish" /\ pc' \in {"round", "metrics"} /\ pairs' = {}
         /\ Rounds' = Rounds \cup {Round} /\ Round \notin Rounds /\ Len(outcomes') = Round
         /\ outcomes'[Round].wave = wave
         /\ outcomes'[Round].weights = CitationWeights(pairs, Cardinality(Active(wave)))
         /\ \A r \in Rounds : outcomes'[r] = outcomes[r]
<1> DEFINE out == [wave |-> wave, weights |-> CitationWeights(pairs, Cardinality(Active(wave)))]
<1>1. /\ outcomes' = Append(outcomes, out) /\ pc = "finish" /\ pc' \in {"round", "metrics"} /\ pairs' = {}
      /\ UNCHANGED <<graph, applied, setup>>
  BY DEF FinishRound
<1>2. out \in Finished
  BY <1>1, WeightsOfPairs DEF Storing, Finished, StoreType
<1>3. out.wave = wave /\ out.weights = CitationWeights(pairs, Cardinality(Active(wave)))
  OBVIOUS
<1> HIDE DEF out
<1>4. Len(outcomes) \in Nat /\ Round = Len(outcomes) + 1
  BY RoundIsNat
<1>5. /\ Len(outcomes') = Round /\ outcomes'[Round] = out
      /\ \A i \in 1..Len(outcomes) : outcomes'[i] = outcomes[i]
  BY <1>1, <1>2, <1>4 DEF StoreType
<1>6. Rounds' = 1..Round /\ Rounds = 1..Len(outcomes)
  BY <1>5 DEF Rounds
<1>7. Rounds' = Rounds \cup {Round} /\ Round \notin Rounds
  BY <1>4, <1>6
<1> QED
  BY <1>1, <1>3, <1>5, <1>6, <1>7

\* The wave stands for itself in what is stored of its round.
LEMMA WaveIsStored ==
  ASSUME StoreType, PersistRound
  PROVE  /\ \A d \in DecisionsOf(wave) : /\ d.round = Round /\ d.signal = wave[d.agent].signal
                                         /\ d.cited = wave[d.agent].cited
         /\ \A e \in EpisodesOf(wave) : e.round = Round /\ e.flip = FlipInRound(e.agent, wave)
<1>1. ASSUME NEW d \in DecisionsOf(wave)
      PROVE  d.cited = wave[d.agent].cited
  <2>1. wave \in [Roster -> Votes] /\ Roster \subseteq nodes
    BY DEF PersistRound, StoreRound, StoreType, Storing
  <2>2. wave[d.agent] \in Votes /\ d.cited = wave[d.agent].cited \cap nodes
    BY <2>1, StoredDecisions
  <2> QED
    BY <2>1, <2>2 DEF Votes
<1> QED
  BY <1>1, StoredDecisions, StoredEpisodes

LEMMA KeptStep ==
  ASSUME StoreType, CommandInv, WholeInv, KeptInv, [StoreNext]_storeVars
  PROVE  KeptInv'
<1>0. CASE ~Remembers'
  <2>1. Rounds' = 1..0 /\ pc' \notin Persisted
    BY <1>0 DEF Remembers, Rounds, Steps, Persisted
  <2> QED
    BY <2>1 DEF KeptInv
<1> SUFFICES ASSUME ~deleting', Remembers'
             PROVE  KeptInv'
  BY <1>0 DEF KeptInv
<1>1. /\ ~deleting /\ Remembers /\ Len(outcomes) \in Nat /\ Round = Len(outcomes) + 1
      /\ Rounds = 1..Len(outcomes)
  BY OnlyTheRunWrites, RoundIsNat DEF Rounds
<1>2. CASE PersistRound
  <2>1. pc = "persist" /\ pc \in Steps \ Persisted /\ outcomes' = outcomes /\ wave' = wave
    BY <1>2 DEF PersistRound, Steps, Persisted, memory
  <2>2. /\ \A d \in decisions : d.round \in Rounds
        /\ \A e \in episodes : e.round \in Rounds
    BY <1>1, <2>1 DEF WholeInv, StoredRounds
  <2>3. Round \notin Rounds /\ Round' = Round /\ Rounds' = Rounds
    BY <1>1, <2>1 DEF Round, Rounds
  <2>4. decisions' = decisions \cup DecisionsOf(wave) /\ episodes' = episodes \cup EpisodesOf(wave)
    BY <1>2, StoredDecisions, StoredEpisodes
  <2>5. /\ \A d \in decisions' : d.round \in Rounds => d.signal = Wave(d.round)[d.agent].signal
                                                     /\ d.cited = Wave(d.round)[d.agent].cited
        /\ \A e \in episodes' : e.round \in Rounds => e.flip = FlipAt(e.round, e.agent)
    BY <1>1, <1>2, <2>3, <2>4, WaveIsStored DEF KeptInv
  <2>6. /\ \A d \in decisions' : d.round = Round => d.signal = wave[d.agent].signal
                                                  /\ d.cited = wave[d.agent].cited
        /\ \A e \in episodes' : e.round = Round => e.flip = FlipInRound(e.agent, wave)
    BY <1>2, <2>2, <2>3, <2>4, WaveIsStored
  <2> QED
    BY <2>1, <2>3, <2>5, <2>6 DEF KeptInv, Wave, FlipAt, FlipInRound, Previous
<1>3. CASE FinishRound
  <2>1. /\ pc = "finish" /\ pc' \notin Persisted /\ decisions' = decisions /\ episodes' = episodes
        /\ Rounds' = Rounds \cup {Round} /\ Round \notin Rounds
        /\ outcomes'[Round].wave = wave /\ \A r \in Rounds : outcomes'[r] = outcomes[r]
    BY <1>3, RoundFinishes DEF graph, Persisted
  <2>2. ASSUME NEW d \in decisions, d.round \in Rounds'
        PROVE  /\ d.signal = outcomes'[d.round].wave[d.agent].signal
               /\ d.cited = outcomes'[d.round].wave[d.agent].cited
    <3>1. CASE d.round \in Rounds
      BY <1>1, <2>1, <3>1 DEF KeptInv, Wave
    <3>2. CASE d.round = Round
      BY <1>1, <2>1, <3>2 DEF KeptInv, Persisted
    <3> QED
      BY <2>1, <2>2, <3>1, <3>2
  <2>3. ASSUME NEW e \in episodes, e.round \in Rounds'
        PROVE  e.flip = IF e.round = 1 THEN NoFlip
                        ELSE FlipType(outcomes'[e.round - 1].wave[e.agent].signal,
                                      outcomes'[e.round].wave[e.agent].signal)
    <3>1. CASE e.round \in Rounds
      <4>1. e.round # 1 => e.round - 1 \in Rounds
        BY <1>1, <3>1
      <4> QED
        BY <1>1, <2>1, <3>1, <4>1 DEF KeptInv, Wave, FlipAt
    <3>2. CASE e.round = Round
      <4>1. e.flip = FlipInRound(e.agent, wave)
        BY <1>1, <2>1, <3>2 DEF KeptInv, Persisted
      <4>2. (Len(outcomes) = 0) <=> (e.round = 1)
        BY <1>1, <3>2
      <4>3. e.round # 1 => e.round - 1 \in Rounds /\ e.round - 1 = Len(outcomes)
        BY <1>1, <3>2
      <4> QED
        BY <2>1, <3>2, <4>1, <4>2, <4>3 DEF FlipInRound, Previous
    <3> QED
      BY <2>1, <2>3, <3>1, <3>2
  <2> QED
    BY <2>1, <2>2, <2>3 DEF KeptInv, Wave, FlipAt
<1>4. CASE ~PersistRound /\ ~FinishRound
  <2>1. outcomes' = outcomes /\ decisions' = decisions /\ episodes' = episodes
    BY <1>4, OnlyTheRunWrites
  <2>2. pc' \in Persisted => pc \in Persisted /\ wave' = wave
    <3>1. ASSUME pc' \in Persisted
          PROVE  pc \in Persisted /\ pc' \in Storing /\ ~Dispatch
      BY <1>4, <3>1, Advances DEF Persisted, Storing, Dispatch
    <3> QED
      BY <3>1, Writers
  <2> QED
    BY <1>1, <2>1, <2>2 DEF KeptInv, Wave, Rounds, Round, FlipAt, FlipInRound, Previous
<1> QED
  BY <1>2, <1>3, <1>4

LEMMA WeightStep ==
  ASSUME StoreType, CommandInv, WholeInv, AuthorInv, EdgeInv, WeightInv, [StoreNext]_storeVars
  PROVE  WeightInv'
<1>0. CASE ~Remembers'
  <2>1. Rounds' = 1..0 /\ pc' \notin Steps /\ pc' # "finish"
    BY <1>0 DEF Remembers, Rounds, Steps
  <2> QED
    BY <2>1 DEF WeightInv
<1> SUFFICES ASSUME ~deleting', Remembers'
             PROVE  WeightInv'
  BY <1>0 DEF WeightInv
<1>1. /\ ~deleting /\ Remembers /\ Len(outcomes) \in Nat /\ Round = Len(outcomes) + 1
      /\ Rounds = 1..Len(outcomes) /\ Round \notin Rounds
  BY OnlyTheRunWrites, RoundIsNat DEF Rounds
<1>2. CASE WriteEdges
  <2>1. /\ pc = "edges" /\ pc \in Steps /\ pc' = "finish" /\ pairs' = pairs
        /\ outcomes' = outcomes /\ wave' = wave /\ Round' = Round /\ Rounds' = Rounds
    BY <1>2 DEF WriteEdges, memory, Round, Rounds, Steps
  <2>2. \A p \in pairs : {p[1], p[2]} \subseteq nodes
    BY <2>1, PairsAreThere
  <2>3. PICK New :
          /\ edges' = edges \cup New
          /\ \A e \in New : /\ e.round = Round /\ <<e.source, e.target>> \in pairs
                            /\ e.weight = CitationWeights(pairs, Cardinality(Active(wave)))[e.target]
          /\ \A p \in pairs : \E e \in New : <<e.source, e.target>> = p
    BY <1>2, <2>2, StoredEdges
  <2>4. \A e \in edges : e.round # Round
    BY <1>1, <2>1 DEF EdgeInv, StoreType
  <2>5. ASSUME NEW r \in Rounds
        PROVE  {f \in edges' : f.round = r} = {f \in edges : f.round = r}
    BY <1>1, <2>3
  <2>6. {f \in edges' : f.round = Round} = New /\ {<<e.source, e.target>> : e \in New} = pairs
    BY <2>3, <2>4
  <2>7. \A r \in Rounds : outcomes[r].weights
          = CitationWeights({<<e.source, e.target>> : e \in {f \in edges' : f.round = r}}, Cardinality(Active(Wave(r))))
    BY <1>1, <2>5 DEF WeightInv, Ends
  <2>8. \A e \in edges' : e.round \in Rounds => e.weight = outcomes[e.round].weights[e.target]
    BY <1>1, <2>3 DEF WeightInv
  <2>9. /\ {<<e.source, e.target>> : e \in {f \in edges' : f.round = Round}} = pairs
        /\ \A e \in edges' : e.round = Round =>
             e.weight = CitationWeights(pairs, Cardinality(Active(wave)))[e.target]
    BY <2>3, <2>4, <2>6
  <2> QED
    BY <2>1, <2>7, <2>8, <2>9 DEF WeightInv, Ends, Wave, Active, Failed
<1>3. CASE FinishRound
  <2>1. /\ pc = "finish" /\ pc' # "finish" /\ pairs' = {} /\ edges' = edges
        /\ Rounds' = Rounds \cup {Round} /\ outcomes'[Round].wave = wave
        /\ outcomes'[Round].weights = CitationWeights(pairs, Cardinality(Active(wave)))
        /\ \A r \in Rounds : outcomes'[r] = outcomes[r]
    BY <1>3, RoundFinishes DEF graph
  <2>2. ASSUME NEW r \in Rounds'
        PROVE  /\ outcomes'[r].weights
                    = CitationWeights({<<e.source, e.target>> : e \in {f \in edges : f.round = r}},
                                      Cardinality(Active(outcomes'[r].wave)))
               /\ \A e \in edges : e.round = r => e.weight = outcomes'[r].weights[e.target]
    <3>1. CASE r \in Rounds
      BY <1>1, <2>1, <3>1 DEF WeightInv, Ends, Wave
    <3>2. CASE r = Round
      BY <1>1, <2>1, <3>2 DEF WeightInv, Ends
    <3> QED
      BY <2>1, <2>2, <3>1, <3>2
  <2> QED
    BY <2>1, <2>2 DEF WeightInv, Ends, Wave, Active, Failed
<1>4. CASE ~WriteEdges /\ ~FinishRound
  <2>1. outcomes' = outcomes /\ edges' = edges /\ Round' = Round /\ Rounds' = Rounds
    BY <1>4, OnlyTheRunWrites DEF Round, Rounds
  <2>2. ASSUME pc' \in Steps \ {"edges", "finish"}
        PROVE  pairs' = {}
    <3>1. pc \in Steps /\ ~ReadPairs
      BY <2>2, Writers DEF ReadPairs
    <3>2. CASE PersistRound
      BY <1>1, <3>1, <3>2 DEF PersistRound, WeightInv
    <3>3. CASE pc \in {"edges", "finish"} /\ ~PersistRound
      BY <1>4, <2>2, <3>1, <3>3, EdgesWait
    <3>4. CASE pc \notin {"edges", "finish"}
      BY <1>1, <3>1, <3>4, Writers DEF WeightInv
    <3> QED
      BY <3>2, <3>3, <3>4
  <2>3. ASSUME pc' = "finish"
        PROVE  \/ pc = "finish" /\ pairs' = pairs /\ wave' = wave
               \/ pairs' = {} /\ \A e \in edges : e.round # Round
    <3>1. CASE ReadPairs \/ PersistRound
      <4>1. pc \in {"pairs", "persist"} /\ pc \in Steps \ {"edges", "finish"}
        BY <3>1 DEF ReadPairs, PersistRound, Steps
      <4>2. pairs' = {}
        BY <1>1, <2>3, <3>1, <4>1 DEF ReadPairs, PersistRound, WeightInv
      <4> QED
        BY <1>1, <4>1, <4>2 DEF EdgeInv, StoreType
    <3>2. CASE ~ReadPairs /\ ~PersistRound
      <4>1. pc = "finish" /\ pairs' = pairs
        BY <1>4, <2>3, <3>2, EdgesWait DEF Steps
      <4>2. pc' \in Storing /\ ~Dispatch
        BY <2>3, <4>1 DEF Storing, Dispatch
      <4> QED
        BY <4>1, <4>2, Writers
    <3> QED
      BY <3>1, <3>2
  <2>4. pc' = "finish" =>
          /\ {<<e.source, e.target>> : e \in {f \in edges : f.round = Round}} = pairs'
          /\ \A e \in edges : e.round = Round =>
               e.weight = CitationWeights(pairs', Cardinality(Active(wave')))[e.target]
    BY <1>1, <2>3 DEF WeightInv, Ends
  <2> QED
    BY <1>1, <2>1, <2>2, <2>4 DEF WeightInv, Ends, Wave, Active, Failed
<1> QED
  BY <1>2, <1>3, <1>4

LEMMA ShockStep ==
  ASSUME StoreType, CommandInv, ProgressInv, ShockInv, [StoreNext]_storeVars
  PROVE  ShockInv'
<1>1. Len(outcomes) \in Nat /\ Round = Len(outcomes) + 1 /\ setup' = setup /\ setup.rounds \in Nat
  BY RoundIsNat, Writers, RosterIsFinite DEF StoreType
<1>2. applied' \subseteq 2..setup.rounds
  <2>1. CASE BeginRound
    <3>1. Round <= setup.rounds /\ (applied' = applied \/ (Round >= 2 /\ applied' = applied \cup {Round}))
      BY <1>1, <2>1 DEF BeginRound
    <3>2. Round >= 2 => Round \in 2..setup.rounds
      BY <1>1, <3>1
    <3> QED
      BY <3>1, <3>2 DEF ShockInv
  <2>2. CASE applied' = applied \/ applied' = {}
    BY <2>2 DEF ShockInv
  <2>3. ASSUME ~BeginRound
        PROVE  applied' = applied \/ applied' = {}
    <3>1. CASE Commands \/ UNCHANGED storeVars
      BY <3>1 DEF Commands, OpenRuntime, PruneAgents, CommandEnds, AskDelete, AskExport, Export, DeleteEdges,
         DeleteEpisodes, DeleteDecisions, DeleteShocks, DeleteCycleNode, vars, storeVars, memory
    <3>2. CASE CreateCycle \/ Describe \/ WriteShock \/ PersistRound \/ ReadPairs \/ WriteEdges \/ FinishRound
               \/ RecordMetrics \/ Complete \/ RecordTerminal
      BY <3>2 DEF CreateCycle, Describe, WriteShock, PersistRound, ReadPairs, WriteEdges, FinishRound,
         RecordMetrics, Complete, RecordTerminal, memory
    <3>3. CASE Dispatch \/ RunFails \/ Kill
      BY <3>3 DEF Dispatch, RunFails, Kill, Forget
    <3> QED
      BY <2>3, <3>1, <3>2, <3>3 DEF StoreNext, RunNext
  <2> QED
    BY <2>1, <2>2, <2>3
<1>3. ASSUME ~deleting', Remembers'
      PROVE  applied' = IF pc' = "shock" THEN shocks' \cup {Round'} ELSE shocks'
  <2>0. ~deleting /\ Remembers /\ applied = IF pc = "shock" THEN shocks \cup {Round} ELSE shocks
    BY <1>3, OnlyTheRunWrites DEF ShockInv
  <2>1. CASE BeginRound
    <3>1. pc = "round" /\ UNCHANGED <<outcomes, graph>> /\ Round' = Round
      BY <2>1 DEF BeginRound, Round
    <3>2. \/ applied' = applied \cup {Round} /\ pc' = "shock"
          \/ applied' = applied /\ pc' = "dispatch"
      BY <2>1 DEF BeginRound
    <3> QED
      BY <2>0, <3>1, <3>2 DEF graph
  <2>2. CASE WriteShock
    <3>1. pc = "shock" /\ pc \in Steps /\ pc' = "dispatch" /\ applied' = applied
      BY <2>2 DEF WriteShock, memory, Steps
    <3>2. shocks' = shocks \cup {Round}
      BY <2>2, <3>1 DEF WriteShock, CommandInv
    <3> QED
      BY <2>0, <3>1, <3>2
  <2>3. CASE FinishRound
    <3>1. pc = "finish" /\ pc' # "shock" /\ shocks' = shocks /\ applied' = applied
      BY <2>3, RoundFinishes DEF graph
    <3> QED
      BY <2>0, <3>1
  <2>4. CASE ~BeginRound /\ ~WriteShock /\ ~FinishRound
    <3>1. outcomes' = outcomes /\ applied' = applied /\ shocks' = shocks /\ Round' = Round
      BY <1>3, <2>4, OnlyTheRunWrites DEF Round
    <3>2. (pc' = "shock") <=> (pc = "shock")
      <4>1. CASE Commands \/ UNCHANGED storeVars
        BY <4>1 DEF Commands, OpenRuntime, PruneAgents, CommandEnds, AskDelete, AskExport, Export, DeleteEdges,
           DeleteEpisodes, DeleteDecisions, DeleteShocks, DeleteCycleNode, vars, storeVars, memory
      <4>2. CASE CreateCycle \/ Describe \/ PersistRound \/ ReadPairs \/ WriteEdges \/ RecordMetrics
                 \/ Complete \/ RecordTerminal
        BY <4>2 DEF CreateCycle, Describe, PersistRound, ReadPairs, WriteEdges,
           RecordMetrics, Complete, RecordTerminal, Reach, Leave
      <4>3. CASE Dispatch
        <5>1. PICK w \in Waves : IF WaveFailed(w) THEN Leave /\ Forget
                                 ELSE wave' = w /\ pc' = "persist" /\ UNCHANGED <<outcomes, pairs, applied>>
          BY <4>3 DEF Dispatch
        <5> QED
          BY <4>3, <5>1 DEF Dispatch, Leave
      <4>4. CASE RunFails \/ Kill
        BY <1>3, <4>4 DEF RunFails, Kill, Leave, Forget, Remembers, Steps
      <4> QED
        BY <2>4, <4>1, <4>2, <4>3, <4>4 DEF StoreNext, RunNext
    <3> QED
      BY <2>0, <3>1, <3>2
  <2> QED
    BY <2>1, <2>2, <2>3, <2>4
<1> QED
  BY <1>1, <1>2, <1>3 DEF ShockInv

LEMMA EndStep ==
  ASSUME StoreType, CommandInv, ProgressInv, EndInv, [StoreNext]_storeVars
  PROVE  EndInv'
<1>1. Len(outcomes) \in Nat /\ Round = Len(outcomes) + 1 /\ setup' = setup /\ setup.rounds \in Nat
      /\ Roster' = Roster
  BY RoundIsNat, Writers, RosterIsFinite DEF StoreType, Roster
<1>2. ASSUME pc' \in Ended, outcomes' # <<>>
      PROVE  Len(outcomes') = setup.rounds
  <2>1. pc' \notin Steps
    BY <1>2 DEF Ended, Steps
  <2>2. CASE Commands \/ UNCHANGED storeVars
    BY <1>2, <2>2 DEF Commands, OpenRuntime, PruneAgents, CommandEnds, AskDelete, AskExport, Export, DeleteEdges,
       DeleteEpisodes, DeleteDecisions, DeleteShocks, DeleteCycleNode, vars, storeVars, memory, EndInv
  <2>3. CASE CreateCycle \/ Complete
    BY <1>2, <2>3 DEF CreateCycle, Complete, memory, ProgressInv
  <2>4. CASE Describe \/ BeginRound \/ WriteShock \/ PersistRound \/ ReadPairs \/ WriteEdges \/ FinishRound
             \/ RecordMetrics
    BY <2>1, <2>4 DEF Describe, BeginRound, WriteShock, PersistRound, ReadPairs, WriteEdges, FinishRound,
       RecordMetrics, Steps
  <2>5. CASE Dispatch
    <3>1. PICK w \in Waves : IF WaveFailed(w) THEN Leave /\ Forget
                             ELSE wave' = w /\ pc' = "persist" /\ UNCHANGED <<outcomes, pairs, applied>>
      BY <2>5 DEF Dispatch
    <3> QED
      BY <1>2, <2>1, <3>1 DEF Forget, Steps
  <2>6. CASE RecordTerminal
    BY <1>2, <2>6 DEF RecordTerminal, memory, EndInv, Ended
  <2>7. CASE RunFails \/ Kill
    BY <1>2, <2>7 DEF RunFails, Kill, Forget
  <2> QED
    BY <2>2, <2>3, <2>4, <2>5, <2>6, <2>7 DEF StoreNext, RunNext
<1>3. ASSUME ~deleting', Remembers'
      PROVE  metrics' = NoMetrics \/ (Len(outcomes') = setup.rounds /\ metrics' = CycleMetrics')
  <2>0. ~deleting /\ Remembers /\ (metrics = NoMetrics \/ (Len(outcomes) = setup.rounds /\ metrics = CycleMetrics))
    BY <1>3, OnlyTheRunWrites DEF EndInv
  <2>1. CASE FinishRound
    <3>1. Len(outcomes) < setup.rounds /\ metrics' = metrics
      BY <2>1, RoundFinishes DEF ProgressInv, Storing, graph
    <3> QED
      BY <1>1, <2>0, <3>1
  <2>2. CASE RecordMetrics
    <3>1. /\ Len(outcomes) = setup.rounds /\ outcomes' = outcomes
          /\ metrics' = metrics \/ metrics' = CycleMetrics
      BY <2>2 DEF RecordMetrics, ProgressInv, memory
    <3>2. CycleMetrics' = CycleMetrics
      BY <1>1, <3>1 DEF CycleMetrics, Previous
    <3> QED
      BY <2>0, <3>1, <3>2
  <2>3. CASE ~FinishRound /\ ~RecordMetrics
    <3>1. outcomes' = outcomes /\ metrics' = metrics
      BY <1>3, <2>3, OnlyTheRunWrites
    <3>2. CycleMetrics' = CycleMetrics
      BY <1>1, <3>1 DEF CycleMetrics, Previous
    <3> QED
      BY <2>0, <3>1, <3>2
  <2> QED
    BY <2>1, <2>2, <2>3
<1> QED
  BY <1>1, <1>2, <1>3 DEF EndInv

ReadInv == KeptInv /\ WeightInv /\ ShockInv /\ EndInv

LEMMA ReadInit ==
  ASSUME StoreInit
  PROVE  ReadInv
<1>1. Rounds = {} /\ pc = "seeding" /\ pairs = {} /\ applied = {} /\ shocks = {} /\ metrics = NoMetrics
      /\ outcomes = <<>>
  <2>1. Len(<<>>) = 0 /\ 1..0 = {}
    OBVIOUS
  <2> QED
    BY <2>1 DEF StoreInit, Init, Rounds
<1> QED
  BY <1>1 DEF ReadInv, KeptInv, WeightInv, ShockInv, EndInv, Persisted, Ended

THEOREM MemoryIsStored == StoreSpec => [](StoreInv /\ ReadInv)
<1>1. StoreInit => ReadInv
  BY ReadInit
<1>2. StoreInv /\ ReadInv /\ [StoreNext]_storeVars => ReadInv'
  BY KeptStep, WeightStep, ShockStep, EndStep DEF StoreInv, ReadInv
<1> QED
  BY <1>1, <1>2, StoreHolds, PTL DEF StoreSpec

\* Of a whole cycle that the run remembers: which records there are.
LEMMA Records ==
  ASSUME StoreInv, ReadInv, Whole
  PROVE  /\ FinalRound \in Nat \ {0} /\ Len(outcomes) = FinalRound /\ Rounds = 1..FinalRound
         /\ IsFiniteSet(Roster) /\ \A r \in Rounds : Wave(r) \in [Roster -> Votes]
         /\ \A d \in decisions : /\ d.round \in Rounds /\ d.agent \in Roster
                                 /\ d.signal = Wave(d.round)[d.agent].signal
                                 /\ d.cited = Wave(d.round)[d.agent].cited
         /\ \A r \in Rounds, a \in Roster : \E d \in decisions : d.round = r /\ d.agent = a
         /\ \A d, e \in decisions : d.round = e.round /\ d.agent = e.agent => d = e
         /\ \A e \in episodes : e.round \in Rounds /\ e.agent \in Roster /\ e.flip = FlipAt(e.round, e.agent)
         /\ \A r \in Rounds, a \in Roster : \E e \in episodes : e.round = r /\ e.agent = a
<1> USE DEF StoreInv, ReadInv, Whole
<1>1. /\ ~deleting /\ status = "complete" /\ outcomes # <<>> /\ pc \in Ended
      /\ FinalRound \in Nat \ {0} /\ IsFiniteSet(Roster)
  BY RosterIsFinite DEF CommandInv, StoreType, FinalRound
<1>2. Len(outcomes) = FinalRound
  BY <1>1 DEF EndInv, FinalRound
<1>3. Rounds = 1..FinalRound /\ StoredRounds = Rounds
  BY <1>1, <1>2 DEF WholeInv, Rounds, FinalRound
<1>4. \A r \in Rounds : Wave(r) \in [Roster -> Votes]
  <2>1. \A r \in Rounds : outcomes[r] \in Finished
    BY DEF StoreType, Rounds
  <2> QED
    BY <2>1 DEF Wave, Finished
<1>5. \A d \in decisions : d.round \in Rounds /\ d.agent \in Roster
  BY <1>3 DEF StoredRounds, StoreType, Decision
<1>6. \A r \in Rounds, a \in Roster : \E d \in decisions : d.round = r /\ d.agent = a
  BY <1>3 DEF StoredRounds, WholeInv
<1>7. \A e \in episodes : e.round \in Rounds /\ e.agent \in Roster
  BY <1>1, <1>3 DEF StoreType, WholeInv
<1>8. \A r \in Rounds, a \in Roster : \E e \in episodes : e.round = r /\ e.agent = a
  <2>1. \A d \in decisions : \E e \in episodes : e.round = d.round /\ e.agent = d.agent
    BY <1>1 DEF WholeInv
  <2> QED
    BY <1>6, <2>1
<1>9. /\ \A d \in decisions : d.signal = Wave(d.round)[d.agent].signal /\ d.cited = Wave(d.round)[d.agent].cited
      /\ \A e \in episodes : e.flip = FlipAt(e.round, e.agent)
  BY <1>1, <1>5, <1>7 DEF KeptInv
<1>10. \A d, e \in decisions : d.round = e.round /\ d.agent = e.agent => d = e
  BY DEF WholeInv
<1> QED
  BY <1>1, <1>2, <1>3, <1>4, <1>5, <1>6, <1>7, <1>8, <1>9, <1>10

\* A count of decisions is a count of agents.
LEMMA CountsOfAgents ==
  ASSUME StoreInv, ReadInv, Whole, NEW r \in Rounds, NEW A \in SUBSET Roster
  PROVE  Cardinality({d \in DecisionsIn(r) : d.agent \in A}) = Cardinality(A)
<1> DEFINE S == {d \in DecisionsIn(r) : d.agent \in A}
           author == [d \in S |-> d.agent]
<1>1. IsFiniteSet(A)
  BY Records, FS_Subset
<1>2. author \in [S -> A]
  OBVIOUS
<1>3. \A d, e \in S : author[d] = author[e] => d = e
  BY Records DEF DecisionsIn
<1>4. \A a \in A : \E d \in S : author[d] = a
  BY Records DEF DecisionsIn
<1> HIDE DEF author, S
<1>5. Cardinality(S) = Cardinality(A)
  BY <1>1, <1>2, <1>3, <1>4, SameSize
<1> QED
  BY <1>5 DEF S

LEMMA SummariesAgree ==
  ASSUME StoreInv, ReadInv, Whole, NEW r \in Rounds
  PROVE  /\ \A s \in Signals : SignalCount(r, s) = Cardinality({a \in Roster : Wave(r)[a].signal = s})
         /\ BracketCounts(r) = SummaryTable(Wave(r), Roster, BracketOf)
<1>1. \A d \in DecisionsIn(r) : d.agent \in Roster /\ d.signal = Wave(r)[d.agent].signal
  BY Records DEF DecisionsIn
<1>2. ASSUME NEW s
      PROVE  SignalCount(r, s) = Cardinality({a \in Roster : Wave(r)[a].signal = s})
  <2> DEFINE A == {a \in Roster : Wave(r)[a].signal = s}
  <2>1. {d \in DecisionsIn(r) : d.signal = s} = {d \in DecisionsIn(r) : d.agent \in A}
    BY <1>1
  <2>2. A \in SUBSET Roster
    OBVIOUS
  <2> HIDE DEF A
  <2>3. SignalCount(r, s) = Cardinality(A)
    BY <2>1, <2>2, CountsOfAgents DEF SignalCount
  <2> QED
    BY <2>3 DEF A
<1>3. {BracketOf[d.agent] : d \in DecisionsIn(r)} = BracketsOf(Roster, BracketOf)
  <2>1. \A a \in Roster : \E d \in DecisionsIn(r) : d.agent = a
    BY Records DEF DecisionsIn
  <2> QED
    BY <1>1, <2>1 DEF BracketsOf
<1>4. ASSUME NEW b, NEW p
      PROVE  Cardinality({d \in DecisionsIn(r) : BracketOf[d.agent] = b /\ d.signal = p})
               = Cardinality(Holding(Wave(r), Members(Roster, BracketOf, b), p))
  <2> DEFINE A == {a \in Roster : BracketOf[a] = b /\ Wave(r)[a].signal = p}
  <2>1. {d \in DecisionsIn(r) : BracketOf[d.agent] = b /\ d.signal = p} = {d \in DecisionsIn(r) : d.agent \in A}
    BY <1>1
  <2>2. Holding(Wave(r), Members(Roster, BracketOf, b), p) = A
    BY DEF Holding, Members
  <2>3. A \in SUBSET Roster
    OBVIOUS
  <2> HIDE DEF A
  <2> QED
    BY <2>1, <2>2, <2>3, CountsOfAgents
<1>5. BracketCounts(r) = SummaryTable(Wave(r), Roster, BracketOf)
  BY <1>3, <1>4 DEF BracketCounts, SummaryTable
<1> QED
  BY <1>2, <1>5

\* Who changed position in a round, and how.
Moved(r) == {a \in Active(Wave(r)) \cap Active(Wave(r - 1)) : Wave(r - 1)[a].signal # Wave(r)[a].signal}
FlipsOf(r) == {<<r, a, FlipType(Wave(r - 1)[a].signal, Wave(r)[a].signal)>> : a \in Moved(r)}

LEMMA MoversFlip ==
  ASSUME StoreInv, ReadInv, Whole, NEW r \in Rounds, NEW a \in Roster
  PROVE  /\ r # 1 => r - 1 \in Rounds
         /\ FlipAt(r, a) # NoFlip <=> r # 1 /\ a \in Moved(r)
<1>1. r # 1 => r - 1 \in Rounds
  BY Records
<1>2. CASE r = 1
  BY <1>2 DEF FlipAt
<1>3. CASE r # 1
  <2> DEFINE x == Wave(r - 1)[a].signal
             y == Wave(r)[a].signal
  <2>1. DOMAIN Wave(r) = Roster /\ DOMAIN Wave(r - 1) = Roster
    BY <1>1, <1>3, Records
  <2>2. a \in Moved(r) <=> x # ParseError /\ y # ParseError /\ x # y
    BY <2>1 DEF Moved, Active, Failed
  <2>3. <<x, y>> # NoFlip
    <3>1. Len(<<x, y>>) = 2 /\ Len(<<"none">>) = 1
      OBVIOUS
    <3> QED
      BY <3>1 DEF NoFlip
  <2>4. FlipAt(r, a) = FlipType(x, y)
    BY <1>3 DEF FlipAt
  <2> HIDE DEF x, y
  <2> QED
    BY <1>1, <1>3, <2>2, <2>3, <2>4 DEF FlipType
<1> QED
  BY <1>1, <1>2, <1>3

LEMMA FlipsAreMoves ==
  ASSUME StoreInv, ReadInv, Whole
  PROVE  SignalFlips = UNION {FlipsOf(r) : r \in Rounds \ {1}}
<1> DEFINE All == UNION {FlipsOf(r) : r \in Rounds \ {1}}
<1>1. ASSUME NEW e \in episodes, e.flip # NoFlip
      PROVE  <<e.round, e.agent, e.flip>> \in All
  <2>1. e.round \in Rounds /\ e.agent \in Roster /\ e.flip = FlipAt(e.round, e.agent)
    BY Records
  <2>2. e.round # 1 /\ e.agent \in Moved(e.round)
    BY <1>1, <2>1, MoversFlip
  <2>3. <<e.round, e.agent, e.flip>> \in FlipsOf(e.round)
    BY <2>1, <2>2 DEF FlipAt, FlipsOf
  <2> QED
    BY <2>1, <2>2, <2>3
<1>2. ASSUME NEW r \in Rounds \ {1}, NEW a \in Moved(r)
      PROVE  <<r, a, FlipType(Wave(r - 1)[a].signal, Wave(r)[a].signal)>> \in SignalFlips
  <2>1. a \in Roster
    <3>1. DOMAIN Wave(r) = Roster
      BY Records
    <3> QED
      BY <3>1 DEF Moved, Active
  <2>2. PICK e \in episodes : e.round = r /\ e.agent = a
    BY <2>1, Records
  <2>3. e.flip = FlipAt(r, a) /\ e.flip # NoFlip
    BY <2>1, <2>2, Records, MoversFlip
  <2>4. e.flip = FlipType(Wave(r - 1)[a].signal, Wave(r)[a].signal)
    BY <2>3 DEF FlipAt
  <2> QED
    BY <2>2, <2>3, <2>4 DEF SignalFlips
<1>3. SignalFlips \subseteq All
  BY <1>1 DEF SignalFlips
<1>4. All \subseteq SignalFlips
  BY <1>2 DEF FlipsOf
<1> QED
  BY <1>3, <1>4

-----------------------------------------------------------------------------
(* Sums (Functions.SumFunctionOnSet).  A fold is a function by recursion   *)
(* on the subsets.  That it exists is shown by the counts, which satisfy   *)
(* its equation; that it is the counts, by a smallest set on which the two *)
(* would differ.                                                           *)

Any(s) == CHOOSE x \in s : TRUE

\* A sum is the function that the fold recurses through, at the whole set.
LEMMA SumUnfolds ==
  ASSUME NEW S, NEW fun
  PROVE  SumFunctionOnSet(fun, S) =
           (CHOOSE g : g = [s \in SUBSET S |-> IF s = {} THEN 0 ELSE fun[Any(s)] + g[s \ {Any(s)}]])[S]
BY DEF SumFunctionOnSet, FoldFunctionOnSet, MapThenFoldSet, Any

\* A set of naturals that is not empty has a least one.
LEMMA LeastNatural ==
  ASSUME NEW N, N \subseteq Nat, N # {}
  PROVE  \E n \in N : \A m \in N : n <= m
<1>1. PICK n \in N : \A m \in N : ~(<<m, n>> \in OpToRel(<, Nat))
  BY NatLessThanWellFounded, WFMin, Zenon
<1>2. ASSUME NEW m \in N, m < n
      PROVE  FALSE
  <2>1. <<m, n>> \in OpToRel(<, Nat)
    BY <1>2 DEF OpToRel
  <2>. QED
    BY <1>1, <2>1
<1>. QED
  BY <1>2

\* Counting part by part counts the whole, if the parts have nothing in common.
LEMMA SumCounts ==
  ASSUME NEW S, IsFiniteSet(S), NEW fun, NEW part, NEW all,
         \A x \in S : IsFiniteSet(part[x]) /\ fun[x] = Cardinality(part[x]),
         \A x, y \in S : x # y => part[x] \cap part[y] = {},
         \A x \in S : part[x] \subseteq all,
         \A z \in all : \E x \in S : z \in part[x]
  PROVE  SumFunctionOnSet(fun, S) = Cardinality(all)
<1> DEFINE Parts(s) == UNION {part[x] : x \in s}
           Step(g) == [s \in SUBSET S |-> IF s = {} THEN 0 ELSE fun[Any(s)] + g[s \ {Any(s)}]]
           count == [s \in SUBSET S |-> Cardinality(Parts(s))]
           sum == CHOOSE g : g = Step(g)
<1>1. ASSUME NEW s \in SUBSET S, s # {}
      PROVE  Any(s) \in s
  BY <1>1 DEF Any
<1>2. ASSUME NEW s \in SUBSET S
      PROVE  IsFiniteSet(s) /\ Cardinality(s) \in Nat
  BY FS_Subset, FS_CardinalityType
\* Sets of the smallest size that have some property.
<1>3. ASSUME NEW Bad \in SUBSET SUBSET S, Bad # {}
      PROVE  \E s \in Bad : \A u \in Bad : Cardinality(s) <= Cardinality(u)
  <2>. DEFINE Sizes == {Cardinality(s) : s \in Bad}
  <2>1. Sizes \subseteq Nat /\ Sizes # {}
    BY <1>2, <1>3
  <2>2. PICK n \in Sizes : \A m \in Sizes : n <= m
    <3>. HIDE DEF Sizes
    <3>. QED
      BY <2>1, LeastNatural
  <2>. QED
    BY <2>2
<1>4. ASSUME NEW s \in SUBSET S, s # {}
      PROVE  /\ s \ {Any(s)} \in SUBSET S /\ Cardinality(s \ {Any(s)}) < Cardinality(s)
             /\ Parts(s) = Parts(s \ {Any(s)}) \cup part[Any(s)]
             /\ Parts(s \ {Any(s)}) \cap part[Any(s)] = {}
  <2>1. Any(s) \in s /\ IsFiniteSet(s) /\ Cardinality(s) \in Nat
    BY <1>1, <1>2, <1>4
  <2>2. s \ {Any(s)} \in SUBSET S /\ Cardinality(s \ {Any(s)}) < Cardinality(s)
    <3>. DEFINE x == Any(s)
    <3>. HIDE DEF x
    <3>1. IsFiniteSet(s \ {x}) /\ Cardinality(s \ {x}) = IF x \in s THEN Cardinality(s) - 1 ELSE Cardinality(s)
      BY <2>1, FS_RemoveElement
    <3>2. Cardinality(s \ {x}) < Cardinality(s)
      BY <2>1, <3>1 DEF x
    <3>. QED
      BY <3>2 DEF x
  <2>. QED
    BY <2>1, <2>2
<1>5. \A s \in SUBSET S : IsFiniteSet(Parts(s))
  <2>. SUFFICES ASSUME {s \in SUBSET S : ~IsFiniteSet(Parts(s))} # {} PROVE FALSE
    OBVIOUS
  <2>1. PICK s \in SUBSET S : /\ ~IsFiniteSet(Parts(s))
                              /\ \A u \in SUBSET S : ~IsFiniteSet(Parts(u)) => Cardinality(s) <= Cardinality(u)
    <3>. DEFINE Bad == {u \in SUBSET S : ~IsFiniteSet(Parts(u))}
    <3>1. PICK s \in Bad : \A u \in Bad : Cardinality(s) <= Cardinality(u)
      <4>. HIDE DEF Parts
      <4>. QED
        BY <1>3
    <3>. QED
      BY <3>1
  <2>2. s # {}
    <3>. SUFFICES ASSUME s = {} PROVE FALSE
      OBVIOUS
    <3>1. Parts(s) = {}
      OBVIOUS
    <3>. QED
      BY <2>1, <3>1, FS_EmptySet
  <2>. DEFINE u == s \ {Any(s)}
  <2>3. u \in SUBSET S /\ Cardinality(u) < Cardinality(s) /\ Parts(s) = Parts(u) \cup part[Any(s)]
    BY <1>4, <2>2
  <2>. HIDE DEF u, Parts
  <2>4. IsFiniteSet(Parts(u))
    <3>1. Cardinality(u) \in Nat /\ Cardinality(s) \in Nat
      BY <1>2, <2>3
    <3>. QED
      BY <2>1, <2>3, <3>1
  <2>5. IsFiniteSet(part[Any(s)])
    BY <1>1, <2>2
  <2>. DEFINE A == Parts(u)
             B == part[Any(s)]
  <2>6. IsFiniteSet(A \cup B)
    <3>. HIDE DEF A, B
    <3>. QED
      BY <2>4, <2>5, FS_Union DEF A, B
  <2>. QED
    BY <2>1, <2>3, <2>6
<1>6. \A s \in SUBSET S : s # {} => count[s] = fun[Any(s)] + count[s \ {Any(s)}]
  <2>. SUFFICES ASSUME NEW s \in SUBSET S, s # {}
                PROVE  count[s] = fun[Any(s)] + count[s \ {Any(s)}]
    OBVIOUS
  <2>. DEFINE u == s \ {Any(s)}
  <2>1. /\ u \in SUBSET S /\ Parts(s) = Parts(u) \cup part[Any(s)] /\ Parts(u) \cap part[Any(s)] = {}
    BY <1>4
  <2>2. Any(s) \in S
    BY <1>1
  <2>3. IsFiniteSet(Parts(u)) /\ IsFiniteSet(part[Any(s)])
    BY <1>5, <2>1, <2>2
  <2>4. count[s] = Cardinality(Parts(s)) /\ count[u] = Cardinality(Parts(u))
    BY <2>1
  <2>. HIDE DEF Parts, count, u
  <2>5. Cardinality(Parts(u) \cup part[Any(s)]) = Cardinality(Parts(u)) + Cardinality(part[Any(s)])
    <3>1. Cardinality(Parts(u) \cap part[Any(s)]) = 0
      BY <2>1, FS_EmptySet
    <3>2. Cardinality(Parts(u)) \in Nat /\ Cardinality(part[Any(s)]) \in Nat
      BY <2>3, FS_CardinalityType
    <3>. DEFINE A == Parts(u)
               B == part[Any(s)]
    <3>3. IsFiniteSet(A) /\ IsFiniteSet(B) /\ Cardinality(A \cap B) = 0
          /\ Cardinality(A) \in Nat /\ Cardinality(B) \in Nat
      BY <2>3, <3>1, <3>2
    <3>4. Cardinality(A \cup B) = Cardinality(A) + Cardinality(B)
      <4>. HIDE DEF A, B
      <4>1. Cardinality(A \cup B) = Cardinality(A) + Cardinality(B) - Cardinality(A \cap B)
        BY <3>3, FS_Union
      <4>. QED
        BY <3>3, <4>1
    <3>. QED
      BY <3>4
  <2>6. fun[Any(s)] = Cardinality(part[Any(s)]) /\ Cardinality(part[Any(s)]) \in Nat /\ Cardinality(Parts(u)) \in Nat
    BY <2>2, <2>3, FS_CardinalityType
  <2>7. count[s] = fun[Any(s)] + count[u]
    BY <2>1, <2>4, <2>5, <2>6
  <2>. QED
    BY <2>7 DEF u
<1>7. count = Step(count)
  <2>1. ASSUME NEW s \in SUBSET S, s = {}
        PROVE  count[s] = 0
    <3>1. Parts(s) = {}
      BY <2>1
    <3>. QED
      BY <3>1, FS_EmptySet
  <2>2. \A s \in SUBSET S : count[s] = IF s = {} THEN 0 ELSE fun[Any(s)] + count[s \ {Any(s)}]
    <3>. HIDE DEF count
    <3>. QED
      BY <1>6, <2>1
  <2>3. count = [s \in SUBSET S |-> count[s]]
    OBVIOUS
  <2>. HIDE DEF count
  <2>. QED
    BY <2>2, <2>3
<1>8. sum = Step(sum)
  <2>. HIDE DEF count, Step
  <2>. QED
    BY <1>7
<1>9. \A s \in SUBSET S : sum[s] = count[s]
  <2>. HIDE DEF sum, count, Parts
  <2>. SUFFICES ASSUME {s \in SUBSET S : sum[s] # count[s]} # {} PROVE FALSE
    OBVIOUS
  <2>1. PICK s \in SUBSET S : /\ sum[s] # count[s]
                              /\ \A u \in SUBSET S : sum[u] # count[u] => Cardinality(s) <= Cardinality(u)
    <3>. DEFINE Bad == {u \in SUBSET S : sum[u] # count[u]}
    <3>1. PICK s \in Bad : \A u \in Bad : Cardinality(s) <= Cardinality(u)
      BY <1>3
    <3>. QED
      BY <3>1
  <2>2. /\ sum[s] = IF s = {} THEN 0 ELSE fun[Any(s)] + sum[s \ {Any(s)}]
        /\ count[s] = IF s = {} THEN 0 ELSE fun[Any(s)] + count[s \ {Any(s)}]
    BY <1>7, <1>8
  <2>3. s # {} /\ sum[s \ {Any(s)}] # count[s \ {Any(s)}]
    BY <2>1, <2>2
  <2>4. s \ {Any(s)} \in SUBSET S /\ Cardinality(s \ {Any(s)}) < Cardinality(s)
    BY <1>4, <2>3
  <2>5. Cardinality(s \ {Any(s)}) \in Nat /\ Cardinality(s) \in Nat
    BY <1>2, <2>4
  <2>. QED
    BY <2>1, <2>3, <2>4, <2>5
<1>. QED
  <2>1. SumFunctionOnSet(fun, S) = sum[S]
    BY SumUnfolds
  <2>2. S \in SUBSET S
    OBVIOUS
  <2>3. sum[S] = count[S] /\ IsFiniteSet(Parts(S))
    <3>. HIDE DEF sum, count, Parts
    <3>. QED
      BY <1>5, <1>9, <2>2
  <2>4. count[S] = Cardinality(Parts(S)) /\ Parts(S) = all
    BY <2>2
  <2>. QED
    BY <2>1, <2>3, <2>4

-----------------------------------------------------------------------------
(* Changes of position (Measures), however they are counted. *)

\* Who decided in both rounds, and who of them moved.
LEMMA MoversAreFinite ==
  ASSUME NEW before, NEW after, IsFiniteSet(DOMAIN before)
  PROVE  /\ IsFiniteSet(Both(before, after)) /\ IsFiniteSet(Movers(before, after))
         /\ Movers(before, after) \subseteq Both(before, after)
<1> DEFINE D == DOMAIN before
           B == Both(before, after)
           M == Movers(before, after)
<1>1. B \subseteq D /\ M \subseteq B
  BY DEF Both, Active, Movers
<1> HIDE DEF D, B, M
<1>2. IsFiniteSet(D)
  BY DEF D
<1>3. IsFiniteSet(B) /\ IsFiniteSet(M)
  BY <1>1, <1>2, FS_Subset
<1> QED
  BY <1>1, <1>3 DEF B, M

\* compute_shifts: what is left out of a round counts in no cell.
LEMMA ShiftsCountMovers ==
  ASSUME NEW before, NEW after, IsFiniteSet(DOMAIN before),
         \A a \in DOMAIN before : before[a].signal \in Signals,
         \A a \in DOMAIN after : after[a].signal \in Signals
  PROVE  TotalFlips(before, after) = Cardinality(Movers(before, after))
<1> DEFINE Turns == {pq \in Positions \X Positions : pq[1] # pq[2]}
           Part(t) == {a \in DOMAIN before \cap DOMAIN after : before[a].signal = t[1] /\ after[a].signal = t[2]}
           cell == [t \in Turns |-> Part(t)]
<1>1. IsFiniteSet(Turns)
  <2>1. IsFiniteSet(Positions \X Positions)
    BY RoundsAssumption, FS_Product
  <2> QED
    BY <2>1, FS_Subset
<1>2. \A t \in Turns : IsFiniteSet(cell[t]) /\ Shifts(before, after)[t] = Cardinality(cell[t])
  <2>1. ASSUME NEW t \in Turns
        PROVE  IsFiniteSet(Part(t))
    <3> DEFINE D == DOMAIN before
    <3>1. Part(t) \subseteq D /\ IsFiniteSet(D)
      OBVIOUS
    <3> HIDE DEF Part, D
    <3> QED
      BY <3>1, FS_Subset
  <2> QED
    BY <2>1 DEF Shifts
<1>3. \A t, u \in Turns : t # u => cell[t] \cap cell[u] = {}
  <2>1. \A t \in Turns : t = <<t[1], t[2]>>
    OBVIOUS
  <2> QED
    BY <2>1
<1>4. UNION {cell[t] : t \in Turns} = Movers(before, after)
  <2>1. ASSUME NEW t \in Turns, NEW a \in Part(t)
        PROVE  a \in Movers(before, after)
    <3>1. before[a].signal # ParseError /\ after[a].signal # ParseError /\ before[a].signal # after[a].signal
      BY RoundsAssumption
    <3> QED
      BY <3>1 DEF Movers, Both, Active, Failed
  <2>2. ASSUME NEW a \in Movers(before, after)
        PROVE  \E t \in Turns : a \in Part(t)
    <3>1. a \in DOMAIN before \cap DOMAIN after /\ before[a].signal # ParseError /\ after[a].signal # ParseError
          /\ before[a].signal # after[a].signal
      BY DEF Movers, Both, Active, Failed
    <3>2. before[a].signal \in Positions /\ after[a].signal \in Positions
      BY <3>1 DEF Signals
    <3> DEFINE t == <<before[a].signal, after[a].signal>>
    <3>3. t \in Turns /\ a \in Part(t)
      BY <3>1, <3>2
    <3> QED
      BY <3>3
  <2> HIDE DEF Turns, Part
  <2> QED
    BY <2>1, <2>2
<1>5. DOMAIN Shifts(before, after) = Turns
  BY DEF Shifts
<1> HIDE DEF Turns, cell
<1>6. SumFunctionOnSet(Shifts(before, after), Turns) = Cardinality(Movers(before, after))
  <2> DEFINE count == Shifts(before, after)
             all == Movers(before, after)
  <2>1. \A x \in Turns : IsFiniteSet(cell[x]) /\ count[x] = Cardinality(cell[x])
    BY <1>2
  <2>2. \A x, y \in Turns : x # y => cell[x] \cap cell[y] = {}
    BY <1>3
  <2>3. /\ \A x \in Turns : cell[x] \subseteq all
        /\ \A z \in all : \E x \in Turns : z \in cell[x]
    BY <1>4
  <2> HIDE DEF count, all
  <2>4. SumFunctionOnSet(count, Turns) = Cardinality(all)
    BY <1>1, <2>1, <2>2, <2>3, SumCounts
  <2> QED
    BY <2>4 DEF count, all
<1> QED
  BY <1>4, <1>5, <1>6 DEF TotalFlips, SumFunction

\* transition_matrix: all who decided twice, in one cell each.
LEMMA TransitionsCountBoth ==
  ASSUME NEW before, NEW after, IsFiniteSet(DOMAIN before),
         \A a \in DOMAIN before : before[a].signal \in Signals,
         \A a \in DOMAIN after : after[a].signal \in Signals
  PROVE  SumFunction(Transitions(before, after)) = Cardinality(Both(before, after))
<1> DEFINE Cells == Positions \X Positions
           Part(t) == {a \in Both(before, after) : <<before[a].signal, after[a].signal>> = t}
           cell == [t \in Cells |-> Part(t)]
<1>1. IsFiniteSet(Cells)
  BY RoundsAssumption, FS_Product
<1>2. \A t \in Cells : IsFiniteSet(cell[t]) /\ Transitions(before, after)[t] = Cardinality(cell[t])
  <2>1. ASSUME NEW t \in Cells
        PROVE  IsFiniteSet(Part(t))
    <3> DEFINE B == Both(before, after)
    <3>1. Part(t) \subseteq B /\ IsFiniteSet(B)
      BY MoversAreFinite
    <3> HIDE DEF Part, B
    <3> QED
      BY <3>1, FS_Subset
  <2> QED
    BY <2>1 DEF Transitions
<1>3. \A t, u \in Cells : t # u => cell[t] \cap cell[u] = {}
  OBVIOUS
<1>4. UNION {cell[t] : t \in Cells} = Both(before, after)
  <2>1. ASSUME NEW a \in Both(before, after)
        PROVE  \E t \in Cells : a \in Part(t)
    <3>1. before[a].signal \in Positions /\ after[a].signal \in Positions
      BY DEF Both, Active, Failed, Signals
    <3> DEFINE t == <<before[a].signal, after[a].signal>>
    <3>2. t \in Cells /\ a \in Part(t)
      BY <3>1
    <3> QED
      BY <3>2
  <2>2. \A t \in Cells : Part(t) \subseteq Both(before, after)
    OBVIOUS
  <2> HIDE DEF Cells, Part
  <2> QED
    BY <2>1, <2>2
<1>5. DOMAIN Transitions(before, after) = Cells
  BY DEF Transitions
<1> HIDE DEF Cells, cell
<1>6. SumFunctionOnSet(Transitions(before, after), Cells) = Cardinality(Both(before, after))
  <2> DEFINE count == Transitions(before, after)
             all == Both(before, after)
  <2>1. \A x \in Cells : IsFiniteSet(cell[x]) /\ count[x] = Cardinality(cell[x])
    BY <1>2
  <2>2. \A x, y \in Cells : x # y => cell[x] \cap cell[y] = {}
    BY <1>3
  <2>3. /\ \A x \in Cells : cell[x] \subseteq all
        /\ \A z \in all : \E x \in Cells : z \in cell[x]
    BY <1>4
  <2> HIDE DEF count, all
  <2>4. SumFunctionOnSet(count, Cells) = Cardinality(all)
    BY <1>1, <2>1, <2>2, <2>3, SumCounts
  <2> QED
    BY <2>4 DEF count, all
<1> QED
  BY <1>4, <1>5, <1>6 DEF SumFunction

\* aggregate_shock_impact: the movers, bracket by bracket.
LEMMA PivotsCountMovers ==
  ASSUME NEW before, NEW after, NEW bracketOf, IsFiniteSet(DOMAIN before)
  PROVE  SumFunction(PivotsByBracket(before, after, bracketOf)) = Cardinality(Movers(before, after))
<1> DEFINE B == Both(before, after)
           Brackets == {bracketOf[a] : a \in B}
           Part(b) == {a \in Members(B, bracketOf, b) : before[a].signal # after[a].signal}
           cell == [b \in Brackets |-> Part(b)]
<1>1. IsFiniteSet(Brackets)
  <2>1. IsFiniteSet(B)
    BY MoversAreFinite
  <2> DEFINE bracket == [a \in B |-> bracketOf[a]]
  <2>2. bracket \in Surjection(B, Brackets)
    BY Fun_IsSurj
  <2> HIDE DEF B, Brackets, bracket
  <2> QED
    BY <2>1, <2>2, FS_Surjection
<1>2. DOMAIN PivotsByBracket(before, after, bracketOf) = Brackets
  BY DEF PivotsByBracket, BracketsOf
<1>3. \A b \in Brackets : IsFiniteSet(cell[b]) /\ PivotsByBracket(before, after, bracketOf)[b] = Cardinality(cell[b])
  <2>1. ASSUME NEW b \in Brackets
        PROVE  IsFiniteSet(Part(b))
    <3>1. Part(b) \subseteq B /\ IsFiniteSet(B)
      BY MoversAreFinite DEF Members
    <3> HIDE DEF Part, B
    <3> QED
      BY <3>1, FS_Subset
  <2> QED
    BY <2>1 DEF PivotsByBracket, BracketsOf
<1>4. \A b, c \in Brackets : b # c => cell[b] \cap cell[c] = {}
  BY DEF Members
<1>5. UNION {cell[b] : b \in Brackets} = Movers(before, after)
  <2>1. \A b \in Brackets : Part(b) \subseteq Movers(before, after)
    BY DEF Members, Movers
  <2>2. ASSUME NEW a \in Movers(before, after)
        PROVE  bracketOf[a] \in Brackets /\ a \in Part(bracketOf[a])
    BY DEF Members, Movers
  <2> HIDE DEF Brackets, Part
  <2> QED
    BY <2>1, <2>2
<1> HIDE DEF Brackets, cell
<1>6. SumFunctionOnSet(PivotsByBracket(before, after, bracketOf), Brackets) = Cardinality(Movers(before, after))
  <2> DEFINE count == PivotsByBracket(before, after, bracketOf)
             all == Movers(before, after)
  <2>1. \A x \in Brackets : IsFiniteSet(cell[x]) /\ count[x] = Cardinality(cell[x])
    BY <1>3
  <2>2. \A x, y \in Brackets : x # y => cell[x] \cap cell[y] = {}
    BY <1>4
  <2>3. /\ \A x \in Brackets : cell[x] \subseteq all
        /\ \A z \in all : \E x \in Brackets : z \in cell[x]
    BY <1>5
  <2> HIDE DEF count, all
  <2>4. SumFunctionOnSet(count, Brackets) = Cardinality(all)
    BY <1>1, <2>1, <2>2, <2>3, SumCounts
  <2> QED
    BY <2>4 DEF count, all
<1> QED
  BY <1>2, <1>5, <1>6 DEF SumFunction

\* split_flips: the movers inside and outside of a group are all of them.
LEMMA SplitsCountMovers ==
  ASSUME NEW before, NEW after, NEW group, IsFiniteSet(DOMAIN before)
  PROVE  SplitFlips(before, after, group)[1] + SplitFlips(before, after, group)[2]
           = Cardinality(Movers(before, after))
<1> DEFINE M == Movers(before, after)
<1>1. IsFiniteSet(M)
  BY MoversAreFinite
<1>2. SplitFlips(before, after, group) = <<Cardinality(M \cap group), Cardinality(M \ group)>>
  BY DEF SplitFlips
<1> HIDE DEF M
<1>3. IsFiniteSet(M \cap group) /\ IsFiniteSet(M \ group)
  BY <1>1, FS_Subset
<1> DEFINE A == M \cap group
           B == M \ group
<1>4. A \cup B = M /\ A \cap B = {} /\ IsFiniteSet(A) /\ IsFiniteSet(B)
  BY <1>3
<1> HIDE DEF A, B
<1>5. Cardinality(A \cup B) = Cardinality(A) + Cardinality(B) - Cardinality(A \cap B)
  BY <1>4, FS_Union
<1>6. Cardinality(A \cap B) = 0 /\ Cardinality(A) \in Nat /\ Cardinality(B) \in Nat
  BY <1>4, FS_EmptySet, FS_CardinalityType
<1>7. Cardinality(M) = Cardinality(A) + Cardinality(B)
  <2>1. Cardinality(A) + Cardinality(B) - 0 = Cardinality(A) + Cardinality(B)
    BY <1>6
  <2>2. Cardinality(M) = Cardinality(A) + Cardinality(B) - 0
    BY <1>4, <1>5, <1>6
  <2> QED
    BY <2>1, <2>2
<1> QED
  BY <1>2, <1>7 DEF A, B, M

\* The changes of position between two rounds of answers are counted by the
\* episodes, the shift metrics, the transition keys, the holdout and shock
\* splits, the retest and the report's pivots, each from its own data
\* (rounds.py, metrics.py, graph/analytics.py); for any number of agents and
\* of positions, and any failures, the counts are one number.
THEOREM FlipCountsAgree ==
  ASSUME NEW before, NEW after, IsFiniteSet(DOMAIN before),
         \A a \in DOMAIN before : before[a].signal \in Signals,
         \A a \in DOMAIN after : after[a].signal \in Signals,
         NEW group, NEW bracketOf
  PROVE  LET flips == Cardinality(Movers(before, after)) IN
         /\ flips \in Nat
         /\ {a \in DOMAIN before \cap DOMAIN after : FlipType(before[a].signal, after[a].signal) # NoFlip}
              = Movers(before, after)
         /\ TotalFlips(before, after) = flips
         /\ \A t \in DOMAIN Shifts(before, after) : Shifts(before, after)[t] = Transitions(before, after)[t]
         /\ Retest(before, after) = <<flips, SumFunction(Transitions(before, after))>>
         /\ SplitFlips(before, after, group)[1] + SplitFlips(before, after, group)[2] = flips
         /\ SumFunction(PivotsByBracket(before, after, bracketOf)) = flips
<1> DEFINE M == Movers(before, after)
<1>1. Cardinality(M) \in Nat
  BY MoversAreFinite, FS_CardinalityType
<1>2. {a \in DOMAIN before \cap DOMAIN after : FlipType(before[a].signal, after[a].signal) # NoFlip} = M
  <2>1. \A x, y : <<x, y>> # NoFlip
    <3> SUFFICES ASSUME NEW x, NEW y
                 PROVE  <<x, y>> # NoFlip
      OBVIOUS
    <3>1. Len(<<x, y>>) = 2 /\ Len(<<"none">>) = 1
      OBVIOUS
    <3> QED
      BY <3>1 DEF NoFlip
  <2>2. \A x, y : FlipType(x, y) # NoFlip <=> x # ParseError /\ y # ParseError /\ x # y
    BY <2>1 DEF FlipType
  <2> QED
    BY <2>2 DEF Movers, Both, Active, Failed
<1>3. ASSUME NEW t \in DOMAIN Shifts(before, after)
      PROVE  Shifts(before, after)[t] = Transitions(before, after)[t]
  <2>1. t \in Positions \X Positions /\ t = <<t[1], t[2]>>
    BY DEF Shifts
  <2>2. {a \in DOMAIN before \cap DOMAIN after : before[a].signal = t[1] /\ after[a].signal = t[2]}
          = {a \in Both(before, after) : <<before[a].signal, after[a].signal>> = t}
    BY <2>1, RoundsAssumption DEF Both, Active, Failed
  <2> QED
    BY <2>1, <2>2 DEF Shifts, Transitions
<1>4. Retest(before, after) = <<Cardinality(M), SumFunction(Transitions(before, after))>>
  BY TransitionsCountBoth DEF Retest
<1> QED
  BY <1>1, <1>2, <1>3, <1>4, ShiftsCountMovers, SplitsCountMovers, PivotsCountMovers

\* The metrics add up how many agents went from each position to each other
\* one, round by round; the episodes have one flip for each of them.
LEMMA ShiftsAddUp ==
  ASSUME StoreInv, ReadInv, Whole, NEW r \in Rounds \ {1}
  PROVE  /\ TotalFlips(Wave(r - 1), Wave(r)) = Cardinality(FlipsOf(r))
         /\ IsFiniteSet(FlipsOf(r))
<1> DEFINE before == Wave(r - 1)
           after == Wave(r)
<1>1. /\ before \in [Roster -> Votes] /\ after \in [Roster -> Votes] /\ IsFiniteSet(Roster)
  BY Records
<1>2. Moved(r) = Movers(before, after)
  BY DEF Moved, Movers, Both
<1>3. /\ IsFiniteSet(Moved(r))
      /\ TotalFlips(before, after) = Cardinality(Moved(r))
  <2>1. /\ IsFiniteSet(DOMAIN before)
        /\ \A a \in DOMAIN before : before[a].signal \in Signals
        /\ \A a \in DOMAIN after : after[a].signal \in Signals
    BY <1>1 DEF Votes
  <2> HIDE DEF before, after
  <2> QED
    BY <1>2, <2>1, ShiftsCountMovers, MoversAreFinite
<1>4. Cardinality(FlipsOf(r)) = Cardinality(Moved(r)) /\ IsFiniteSet(FlipsOf(r))
  <2> DEFINE mover == [f \in FlipsOf(r) |-> f[2]]
  <2>1. mover \in [FlipsOf(r) -> Moved(r)]
    BY DEF FlipsOf
  <2>2. \A f, g \in FlipsOf(r) : mover[f] = mover[g] => f = g
    BY DEF FlipsOf
  <2>3. ASSUME NEW a \in Moved(r)
        PROVE  \E f \in FlipsOf(r) : mover[f] = a
    <3> DEFINE flip == FlipType(Wave(r - 1)[a].signal, Wave(r)[a].signal)
    <3>1. <<r, a, flip>> \in FlipsOf(r)
      BY DEF FlipsOf
    <3> HIDE DEF flip
    <3>2. mover[<<r, a, flip>>] = a
      BY <3>1
    <3> QED
      BY <3>1, <3>2
  <2> HIDE DEF mover
  <2>4. mover \in Injection(FlipsOf(r), Moved(r))
    BY <2>1, <2>2, Fun_IsInj
  <2> QED
    BY <1>3, <2>1, <2>2, <2>3, <2>4, SameSize, FS_Injection
<1> QED
  BY <1>3, <1>4

LEMMA HistoryAgrees ==
  ASSUME StoreInv, ReadInv, Whole
  PROVE  HistoryFlips \subseteq {Cardinality(SignalFlips)}
<1> SUFFICES ASSUME metrics # NoMetrics
             PROVE  SumFunction(metrics.flips) = Cardinality(SignalFlips)
  BY DEF HistoryFlips
<1> DEFINE Later == 2..Len(outcomes)
           flips == [r \in Later |-> TotalFlips(outcomes[r - 1].wave, outcomes[r].wave)]
           flipped == [r \in Later |-> FlipsOf(r)]
<1>1. metrics.flips = flips
  <2>1. metrics = CycleMetrics
    BY DEF ReadInv, EndInv, Remembers, Whole
  <2> QED
    BY <2>1 DEF CycleMetrics
<1>2. Later = Rounds \ {1} /\ IsFiniteSet(Later)
  <2>1. Later = Rounds \ {1}
    BY Records
  <2>2. IsFiniteSet(2..Len(outcomes))
    BY Records, FS_Interval
  <2> QED
    BY <2>1, <2>2
<1>3. \A r \in Later : IsFiniteSet(flipped[r]) /\ flips[r] = Cardinality(flipped[r])
  BY <1>2, ShiftsAddUp DEF Wave
<1>4. \A r, q \in Later : r # q => flipped[r] \cap flipped[q] = {}
  BY DEF FlipsOf
<1>5. UNION {flipped[r] : r \in Later} = SignalFlips
  <2>1. {flipped[r] : r \in Later} = {FlipsOf(r) : r \in Rounds \ {1}}
    BY <1>2
  <2> QED
    BY <2>1, FlipsAreMoves
<1>6. DOMAIN flips = Later
  OBVIOUS
<1> HIDE DEF Later, flips, flipped
<1>7. SumFunctionOnSet(flips, Later) = Cardinality(SignalFlips)
  <2> DEFINE all == SignalFlips
  <2>1. \A x \in Later : IsFiniteSet(flipped[x]) /\ flips[x] = Cardinality(flipped[x])
    BY <1>3
  <2>2. \A x, y \in Later : x # y => flipped[x] \cap flipped[y] = {}
    BY <1>4
  <2>3. /\ \A x \in Later : flipped[x] \subseteq all
        /\ \A z \in all : \E x \in Later : z \in flipped[x]
    BY <1>5
  <2>4. IsFiniteSet(Later)
    BY <1>2
  <2> HIDE DEF all
  <2>5. SumFunctionOnSet(flips, Later) = Cardinality(all)
    BY <2>1, <2>2, <2>3, <2>4, SumCounts
  <2> QED
    BY <2>5 DEF all
<1> QED
  BY <1>1, <1>6, <1>7 DEF SumFunction

\* The leaders of the final round are its edges, counted and divided alike.
LEMMA LeadersAgree ==
  ASSUME StoreInv, ReadInv, Whole
  PROVE  /\ InfluenceLeaders = outcomes[FinalRound].weights
         /\ \A r \in Rounds : \A e \in InfluenceEdges(r) : e[3] = outcomes[r].weights[e[2]]
<1> DEFINE final == {e \in edges : e.round = FinalRound}
           w == Wave(FinalRound)
<1>1. FinalRound \in Rounds /\ ~deleting /\ w \in [Roster -> Votes]
  BY Records DEF Whole
<1>2. outcomes[FinalRound].weights = CitationWeights(Ends(FinalRound), Cardinality(Active(w)))
  BY <1>1 DEF ReadInv, WeightInv
<1>3. {e.target : e \in final} = {p[2] : p \in Ends(FinalRound)}
  <2>1. \A e \in final : <<e.source, e.target>> \in Ends(FinalRound)
    BY DEF Ends
  <2>2. \A p \in Ends(FinalRound) : \E e \in final : p[2] = e.target
    BY DEF Ends
  <2>3. \A e \in final : \E p \in Ends(FinalRound) : e.target = p[2]
    <3> SUFFICES ASSUME NEW e \in final
                 PROVE  \E p \in Ends(FinalRound) : e.target = p[2]
      OBVIOUS
    <3>1. <<e.source, e.target>>[2] = e.target
      OBVIOUS
    <3> QED
      BY <2>1, <3>1
  <2> HIDE DEF final
  <2> QED
    BY <2>2, <2>3
<1>4. Cardinality(DecidedIn(FinalRound)) = Cardinality(Active(w))
  <2> DEFINE A == Active(w)
  <2>1. \A d \in DecisionsIn(FinalRound) : d.agent \in Roster /\ d.signal = w[d.agent].signal
    BY Records DEF DecisionsIn
  <2>2. DecidedIn(FinalRound) = {d \in DecisionsIn(FinalRound) : d.agent \in A}
    BY <1>1, <2>1 DEF DecidedIn, Active, Failed
  <2>3. A \in SUBSET Roster
    BY <1>1 DEF Active
  <2> HIDE DEF A
  <2>4. Cardinality(DecidedIn(FinalRound)) = Cardinality(A)
    BY <1>1, <2>2, <2>3, CountsOfAgents
  <2> QED
    BY <2>4 DEF A
<1>5. ASSUME NEW t
      PROVE  Cardinality({e.source : e \in {x \in final : x.target = t}})
               = Cardinality({p \in Ends(FinalRound) : p[2] = t})
  <2> DEFINE Sources == {e.source : e \in {x \in final : x.target = t}}
             Pairs == {p \in Ends(FinalRound) : p[2] = t}
             source == [p \in Pairs |-> p[1]]
  <2>1. IsFiniteSet(Sources)
    <3>1. Sources \subseteq Roster
      BY DEF StoreInv, StoreType
    <3> HIDE DEF Sources
    <3> QED
      BY <3>1, Records, FS_Subset
  <2>2. source \in [Pairs -> Sources]
    BY DEF Ends
  <2>3. \A p, q \in Pairs : source[p] = source[q] => p = q
    BY DEF Ends
  <2>4. \A z \in Sources : \E p \in Pairs : source[p] = z
    <3> SUFFICES ASSUME NEW e \in final, e.target = t
                 PROVE  \E p \in Pairs : source[p] = e.source
      OBVIOUS
    <3>1. <<e.source, e.target>> \in Pairs
      BY DEF Ends
    <3>2. source[<<e.source, e.target>>] = e.source
      BY <3>1
    <3> QED
      BY <3>1, <3>2
  <2> HIDE DEF Sources, Pairs, source
  <2>5. Cardinality(Sources) = Cardinality(Pairs)
    BY <2>1, <2>2, <2>3, <2>4, SameSize
  <2> QED
    BY <2>5 DEF Sources, Pairs
<1>6. InfluenceLeaders = [t \in {e.target : e \in final} |->
         <<Cardinality({e.source : e \in {x \in final : x.target = t}}), Cardinality(DecidedIn(FinalRound))>>]
  BY DEF InfluenceLeaders
<1>7. InfluenceLeaders = outcomes[FinalRound].weights
  <2> DEFINE T == {p[2] : p \in Ends(FinalRound)}
             stored == [t \in T |-> <<Cardinality({e.source : e \in {x \in final : x.target = t}}),
                                      Cardinality(DecidedIn(FinalRound))>>]
             kept == [t \in T |-> <<Cardinality({p \in Ends(FinalRound) : p[2] = t}), Cardinality(Active(w))>>]
  <2>1. \A t \in T : stored[t] = kept[t]
    BY <1>4, <1>5
  <2>2. stored = [t \in T |-> stored[t]] /\ kept = [t \in T |-> kept[t]]
    OBVIOUS
  <2>3. InfluenceLeaders = stored
    BY <1>3, <1>6
  <2>4. outcomes[FinalRound].weights = kept
    BY <1>2 DEF CitationWeights
  <2> HIDE DEF stored, kept, T
  <2> QED
    BY <2>1, <2>2, <2>3, <2>4
<1>8. ASSUME NEW r \in Rounds, NEW e \in InfluenceEdges(r)
      PROVE  e[3] = outcomes[r].weights[e[2]]
  <2>1. PICK f \in edges : f.round = r /\ e = <<f.source, f.target, f.weight>>
    BY DEF InfluenceEdges
  <2> QED
    BY <1>1, <2>1 DEF ReadInv, WeightInv
<1> QED
  BY <1>7, <1>8

-----------------------------------------------------------------------------
(* The rest of what is read back. *)

\* The decided agents of a round are the active ones of its wave, and what
\* they decided is what they held.
LEMMA DecidedAreActive ==
  ASSUME StoreInv, ReadInv, Whole, NEW r \in Rounds
  PROVE  /\ {d.agent : d \in DecidedIn(r)} = Active(Wave(r))
         /\ \A a \in Active(Wave(r)) : (CHOOSE d \in DecidedIn(r) : d.agent = a).signal = Wave(r)[a].signal
<1>1. DOMAIN Wave(r) = Roster
  BY Records
<1>2. \A d \in DecidedIn(r) : d.agent \in Active(Wave(r)) /\ d.signal = Wave(r)[d.agent].signal
  BY <1>1, Records DEF DecidedIn, DecisionsIn, Active, Failed
<1>3. \A a \in Active(Wave(r)) : \E d \in DecidedIn(r) : d.agent = a
  <2> SUFFICES ASSUME NEW a \in Active(Wave(r))
               PROVE  \E d \in DecidedIn(r) : d.agent = a
    OBVIOUS
  <2>1. a \in Roster /\ Wave(r)[a].signal # ParseError
    BY <1>1 DEF Active, Failed
  <2>2. PICK d \in decisions : d.round = r /\ d.agent = a
    BY <2>1, Records
  <2>3. d.signal # ParseError
    BY <2>1, <2>2, Records
  <2> QED
    BY <2>2, <2>3 DEF DecidedIn, DecisionsIn
<1>4. \A a \in Active(Wave(r)) : (CHOOSE d \in DecidedIn(r) : d.agent = a).signal = Wave(r)[a].signal
  BY <1>2, <1>3
<1> QED
  BY <1>2, <1>3, <1>4

\* The graph has the shocks that were consumed, and the pivots across the
\* first of them are the flips of its round.
LEMMA PivotsAgree ==
  ASSUME StoreInv, ReadInv, Whole
  PROVE  /\ shocks = applied
         /\ ShockPivots = IF applied = {} THEN {} ELSE {f[2] : f \in {x \in SignalFlips : x[1] = Min(applied)}}
<1>1. shocks = applied /\ applied \subseteq 2..FinalRound
  <2>1. ~deleting /\ status = "complete" /\ outcomes # <<>>
    BY DEF Whole
  <2>2. pc \notin Steps
    BY <2>1 DEF StoreInv, CommandInv
  <2> QED
    BY <2>1, <2>2 DEF ReadInv, ShockInv, Remembers, Steps, FinalRound
<1>2. CASE applied = {}
  BY <1>1, <1>2 DEF ShockPivots
<1>3. CASE applied # {}
  <2> DEFINE first == Min(applied)
             Held(a, r) == CHOOSE d \in DecidedIn(r) : d.agent = a
             comparable == {d.agent : d \in DecidedIn(first - 1)} \cap {d.agent : d \in DecidedIn(first)}
  <2>1. first \in applied
    <3>1. applied \subseteq Nat
      BY <1>1, Records
    <3>2. \E n \in applied : \A m \in applied : n <= m
      BY <1>3, <3>1, LeastNatural
    <3> QED
      BY <3>2 DEF Min
  <2>2. first \in Rounds /\ first - 1 \in Rounds /\ first # 1 /\ ~(first < 2)
    <3>1. FinalRound \in Nat /\ Rounds = 1..FinalRound
      BY Records
    <3>2. first \in 2..FinalRound
      BY <1>1, <2>1
    <3> HIDE DEF first
    <3> QED
      BY <3>1, <3>2
  <2>3. ShockPivots = {a \in comparable : Held(a, first - 1).signal # Held(a, first).signal}
    BY <1>1, <1>3, <2>2 DEF ShockPivots
  <2> HIDE DEF first
  <2>4. /\ comparable = Active(Wave(first)) \cap Active(Wave(first - 1))
        /\ \A a \in comparable : /\ Held(a, first).signal = Wave(first)[a].signal
                                 /\ Held(a, first - 1).signal = Wave(first - 1)[a].signal
    <3>1. /\ {d.agent : d \in DecidedIn(first)} = Active(Wave(first))
          /\ \A a \in Active(Wave(first)) : Held(a, first).signal = Wave(first)[a].signal
      BY <2>2, DecidedAreActive
    <3>2. /\ {d.agent : d \in DecidedIn(first - 1)} = Active(Wave(first - 1))
          /\ \A a \in Active(Wave(first - 1)) : Held(a, first - 1).signal = Wave(first - 1)[a].signal
      BY <2>2, DecidedAreActive
    <3> HIDE DEF Held
    <3> QED
      BY <3>1, <3>2
  <2>5. ShockPivots = Moved(first)
    <3> HIDE DEF Held, comparable
    <3> QED
      BY <2>3, <2>4 DEF Moved
  <2>6. {f[2] : f \in {x \in SignalFlips : x[1] = first}} = Moved(first)
    <3>1. ASSUME NEW f \in SignalFlips, f[1] = first
          PROVE  f[2] \in Moved(first)
      <4>1. PICK r \in Rounds \ {1} : f \in FlipsOf(r)
        BY FlipsAreMoves
      <4>2. f[1] = r /\ f[2] \in Moved(r)
        BY <4>1 DEF FlipsOf
      <4> QED
        BY <3>1, <4>2
    <3>2. ASSUME NEW a \in Moved(first)
          PROVE  \E f \in SignalFlips : f[1] = first /\ f[2] = a
      <4> DEFINE flip == FlipType(Wave(first - 1)[a].signal, Wave(first)[a].signal)
      <4>1. <<first, a, flip>> \in FlipsOf(first)
        BY DEF FlipsOf
      <4>2. <<first, a, flip>> \in SignalFlips
        BY <2>2, <4>1, FlipsAreMoves
      <4> HIDE DEF flip
      <4> QED
        BY <4>2
    <3> QED
      BY <3>1, <3>2
  <2> QED
    <3>1. ShockPivots = {f[2] : f \in {x \in SignalFlips : x[1] = first}}
      BY <2>5, <2>6
    <3> QED
      BY <1>1, <1>3, <3>1 DEF first
<1> QED
  BY <1>1, <1>2, <1>3

\* A citation is read back with what the cited agent held in the round before.
LEMMA CitationsAgree ==
  ASSUME StoreInv, ReadInv, Whole, NEW r \in Rounds \ {1}
  PROVE  RoundCitations(r) = UNION {{<<a, c, {Wave(r - 1)[c].signal}>> : c \in Wave(r)[a].cited} : a \in Roster}
<1> DEFINE Before(c) == {p.signal : p \in {x \in DecisionsIn(r - 1) : x.agent = c}}
<1>1. r - 1 \in Rounds
  BY Records
<1>2. ASSUME NEW d \in DecisionsIn(r)
      PROVE  /\ d.agent \in Roster /\ d.cited = Wave(r)[d.agent].cited
             /\ d.cited \subseteq Roster /\ d.cited \ {d.agent} = d.cited
  <2>1. d \in decisions /\ d.round = r
    BY DEF DecisionsIn
  <2>2. d.agent \in Roster /\ d.cited = Wave(r)[d.agent].cited
    BY <2>1, Records
  <2>3. d.cited \subseteq Roster
    BY <2>1 DEF StoreInv, StoreType, Decision
  <2>4. d.agent \notin d.cited
    BY <2>1 DEF StoreInv, GroundInv, CitationsWereShown
  <2> QED
    BY <2>2, <2>3, <2>4
<1>3. ASSUME NEW c \in Roster
      PROVE  Before(c) = {Wave(r - 1)[c].signal}
  <2>1. \A p \in DecisionsIn(r - 1) : p.agent = c => p.signal = Wave(r - 1)[c].signal
    BY Records DEF DecisionsIn
  <2>2. \E p \in DecisionsIn(r - 1) : p.agent = c
    BY <1>1, Records DEF DecisionsIn
  <2> QED
    BY <2>1, <2>2
<1>4. \A a \in Roster : \E d \in DecisionsIn(r) : d.agent = a
  BY Records DEF DecisionsIn
<1>5. RoundCitations(r) = UNION {{<<d.agent, c, Before(c)>> : c \in d.cited \ {d.agent}} : d \in DecisionsIn(r)}
  BY DEF RoundCitations
<1> HIDE DEF Before
<1>6. \A d \in DecisionsIn(r) :
        {<<d.agent, c, Before(c)>> : c \in d.cited \ {d.agent}}
          = {<<d.agent, c, {Wave(r - 1)[c].signal}>> : c \in Wave(r)[d.agent].cited}
  <2> SUFFICES ASSUME NEW d \in DecisionsIn(r)
               PROVE  {<<d.agent, c, Before(c)>> : c \in d.cited \ {d.agent}}
                        = {<<d.agent, c, {Wave(r - 1)[c].signal}>> : c \in Wave(r)[d.agent].cited}
    OBVIOUS
  <2>1. d.cited \ {d.agent} = Wave(r)[d.agent].cited
    BY <1>2
  <2>2. \A c \in Wave(r)[d.agent].cited : Before(c) = {Wave(r - 1)[c].signal}
    BY <1>2, <1>3
  <2> QED
    BY <2>1, <2>2
<1> DEFINE Citing(a) == {<<a, c, {Wave(r - 1)[c].signal}>> : c \in Wave(r)[a].cited}
<1>7. RoundCitations(r) = UNION {Citing(d.agent) : d \in DecisionsIn(r)}
  BY <1>5, <1>6
<1>8. {Citing(d.agent) : d \in DecisionsIn(r)} = {Citing(a) : a \in Roster}
  <2> HIDE DEF Citing
  <2> QED
    BY <1>2, <1>4
<1> QED
  BY <1>7, <1>8

\* What is read record by record: the interview's, the advisory's, the replay's.
LEMMA RecordsAgree ==
  ASSUME StoreInv, ReadInv, Whole
  PROVE  /\ \A a \in Roster : AgentDecisions(a) = {<<r, Wave(r)[a].signal, Wave(r)[a].cited>> : r \in Rounds}
         /\ FinalDecisions = {<<a, Wave(FinalRound)[a].signal>> : a \in Roster}
         /\ ReplaySignals = {<<a, r, Wave(r)[a].signal>> : a \in Roster, r \in Rounds}
         /\ {d.round : d \in decisions} = Rounds
<1>1. \A d \in decisions : /\ d.round \in Rounds /\ d.agent \in Roster
                           /\ d.signal = Wave(d.round)[d.agent].signal
                           /\ d.cited = Wave(d.round)[d.agent].cited
  BY Records
<1>2. \A r \in Rounds, a \in Roster : \E d \in decisions : d.round = r /\ d.agent = a
  BY Records
<1>3. FinalRound \in Rounds /\ Roster # {}
  BY Records, RoundsAssumption DEF StoreInv, StoreType, Roster
<1>4. ASSUME NEW a \in Roster
      PROVE  AgentDecisions(a) = {<<r, Wave(r)[a].signal, Wave(r)[a].cited>> : r \in Rounds}
  <2> DEFINE Hers == {x \in decisions : x.agent = a}
             Of(r) == <<r, Wave(r)[a].signal, Wave(r)[a].cited>>
  <2>1. \A d \in Hers : d.round \in Rounds /\ <<d.round, d.signal, d.cited>> = Of(d.round)
    BY <1>1
  <2>2. \A r \in Rounds : \E d \in Hers : d.round = r
    BY <1>2
  <2>3. AgentDecisions(a) = {<<d.round, d.signal, d.cited>> : d \in Hers}
    BY DEF AgentDecisions
  <2> HIDE DEF Hers, Of
  <2>4. AgentDecisions(a) = {Of(d.round) : d \in Hers}
    BY <2>1, <2>3
  <2>5. AgentDecisions(a) = {Of(r) : r \in Rounds}
    BY <2>1, <2>2, <2>4
  <2> QED
    BY <2>5 DEF Of
<1>5. FinalDecisions = {<<a, Wave(FinalRound)[a].signal>> : a \in Roster}
  <2> DEFINE Last == DecisionsIn(FinalRound)
             Of(a) == <<a, Wave(FinalRound)[a].signal>>
  <2>1. \A d \in Last : d.agent \in Roster /\ <<d.agent, d.signal>> = Of(d.agent)
    BY <1>1 DEF DecisionsIn
  <2>2. \A a \in Roster : \E d \in Last : d.agent = a
    BY <1>2, <1>3 DEF DecisionsIn
  <2>3. FinalDecisions = {<<d.agent, d.signal>> : d \in Last}
    BY DEF FinalDecisions
  <2> HIDE DEF Last, Of
  <2>4. FinalDecisions = {Of(d.agent) : d \in Last}
    BY <2>1, <2>3
  <2>5. FinalDecisions = {Of(a) : a \in Roster}
    BY <2>1, <2>2, <2>4
  <2> QED
    BY <2>5 DEF Of
<1>6. ReplaySignals = {<<a, r, Wave(r)[a].signal>> : a \in Roster, r \in Rounds}
  <2> DEFINE Of(a, r) == <<a, r, Wave(r)[a].signal>>
  <2>1. \A d \in decisions : <<d.agent, d.round, d.signal>> = Of(d.agent, d.round)
    BY <1>1
  <2>2. ReplaySignals = {<<d.agent, d.round, d.signal>> : d \in decisions}
    BY DEF ReplaySignals
  <2> HIDE DEF Of
  <2>3. ReplaySignals = {Of(d.agent, d.round) : d \in decisions}
    BY <2>1, <2>2
  <2>4. ReplaySignals = {Of(a, r) : a \in Roster, r \in Rounds}
    BY <1>1, <1>2, <2>3
  <2> QED
    BY <2>4 DEF Of
<1>7. {d.round : d \in decisions} = Rounds
  BY <1>1, <1>2, <1>3
<1> QED
  BY <1>4, <1>5, <1>6, <1>7

LEMMA EverythingAgrees ==
  ASSUME StoreInv, ReadInv
  PROVE  ReadsAgreeWithRun
<1> SUFFICES ASSUME Whole
             PROVE  ReadsAgreeWithRun
  BY DEF ReadsAgreeWithRun
<1>1. ConsensusSummary = [s \in Signals |-> Cardinality({a \in Roster : Wave(FinalRound)[a].signal = s})]
  <2>1. FinalRound \in Rounds
    BY Records
  <2>2. \A s \in Signals : SignalCount(FinalRound, s) = Cardinality({a \in Roster : Wave(FinalRound)[a].signal = s})
    BY <2>1, SummariesAgree
  <2> QED
    BY <2>2 DEF ConsensusSummary
<1>2. DOMAIN RoundTimeline = Rounds
  BY RecordsAgree DEF RoundTimeline
<1>3. \A r \in Rounds : BracketCounts(r) = SummaryTable(Wave(r), Roster, BracketOf)
  BY SummariesAgree
<1>4. SignalFlips = UNION {{<<r, a, FlipType(Wave(r - 1)[a].signal, Wave(r)[a].signal)>> :
                             a \in {x \in Active(Wave(r)) \cap Active(Wave(r - 1)) :
                                     Wave(r - 1)[x].signal # Wave(r)[x].signal}} : r \in Rounds \ {1}}
  BY FlipsAreMoves DEF FlipsOf, Moved
<1>5. \A r \in Rounds \ {1} :
        RoundCitations(r) = UNION {{<<a, c, {Wave(r - 1)[c].signal}>> : c \in Wave(r)[a].cited} : a \in Roster}
  BY CitationsAgree
<1>6. /\ HistoryFlips \subseteq {Cardinality(SignalFlips)}
      /\ InfluenceLeaders = outcomes[FinalRound].weights
      /\ \A r \in Rounds : \A e \in InfluenceEdges(r) : e[3] = outcomes[r].weights[e[2]]
  BY HistoryAgrees, LeadersAgree
<1> QED
  BY <1>1, <1>2, <1>3, <1>4, <1>5, <1>6, PivotsAgree, RecordsAgree DEF ReadsAgreeWithRun

\* ReadsAgreeWithRun: whatever the rounds, the failures and the commands next
\* to the run were, what the report, the history, the replay, an interview and
\* the advisory read of a complete cycle (graph/analytics.py,
\* graph/replay_interview.py) is what the run computed and streamed (rounds.py).
THEOREM ReadsAgree == StoreSpec => []ReadsAgreeWithRun
<1>1. StoreInv /\ ReadInv => ReadsAgreeWithRun
  BY EverythingAgrees
<1> QED
  BY <1>1, MemoryIsStored, PTL

-----------------------------------------------------------------------------
(* More about sums.  A function by recursion on the subsets of a finite    *)
(* set exists, because it does on those of up to n members for every n; a  *)
(* sum is its value at the whole set; and what all subsets share is shown  *)
(* by a smallest one that would not.                                       *)

\* A set of subsets that is not empty has a smallest member.
LEMMA SmallestSubset ==
  ASSUME NEW S, IsFiniteSet(S), NEW Bad \in SUBSET SUBSET S, Bad # {}
  PROVE  \E s \in Bad : \A u \in SUBSET s : u # s => u \notin Bad
<1>1. \A s \in SUBSET S : IsFiniteSet(s) /\ Cardinality(s) \in Nat
  BY FS_Subset, FS_CardinalityType
<1> DEFINE Sizes == {Cardinality(s) : s \in Bad}
<1>2. Sizes \subseteq Nat /\ Sizes # {}
  BY <1>1
<1>3. PICK n \in Sizes : \A m \in Sizes : n <= m
  <2> HIDE DEF Sizes
  <2> QED
    BY <1>2, LeastNatural
<1>4. PICK s \in Bad : Cardinality(s) = n
  OBVIOUS
<1>5. ASSUME NEW u \in SUBSET s, u # s, u \in Bad
      PROVE  FALSE
  <2>1. IsFiniteSet(s) /\ Cardinality(s) \in Nat /\ Cardinality(u) \in Nat
    BY <1>1
  <2>2. Cardinality(u) <= Cardinality(s) /\ Cardinality(s) # Cardinality(u)
    BY <1>5, <2>1, FS_Subset
  <2>3. Cardinality(u) \in Sizes
    BY <1>5
  <2>4. Cardinality(s) <= Cardinality(u)
    BY <1>3, <1>4, <2>3
  <2> QED
    BY <2>1, <2>2, <2>4
<1> QED
  BY <1>5

\* A function of the subsets whose value comes from that of a smaller subset.
Recursive(S, V, base, next) ==
  \E g \in [SUBSET S -> V] : \A s \in SUBSET S : g[s] = IF s = {} THEN base ELSE next[s][g[s \ {Any(s)}]]

LEMMA SubsetRecursion ==
  ASSUME NEW S, IsFiniteSet(S), NEW V, NEW base \in V, NEW next \in [SUBSET S -> [V -> V]]
  PROVE  Recursive(S, V, base, next)
<1> DEFINE Small(n) == {s \in SUBSET S : Cardinality(s) <= n}
           Solves(n, g) == \A s \in Small(n) : g[s] = IF s = {} THEN base ELSE next[s][g[s \ {Any(s)}]]
           Solved(n) == \E g \in [Small(n) -> V] : Solves(n, g)
           N == {n \in Nat : ~Solved(n)}
<1>1. \A s \in SUBSET S : IsFiniteSet(s) /\ Cardinality(s) \in Nat
  BY FS_Subset, FS_CardinalityType
<1>2. \A n \in Nat : \A s \in Small(n + 1) : s # {} => s \ {Any(s)} \in Small(n)
  <2> SUFFICES ASSUME NEW n \in Nat, NEW s \in Small(n + 1), s # {}
               PROVE  s \ {Any(s)} \in Small(n)
    OBVIOUS
  <2>1. Any(s) \in s
    BY DEF Any
  <2>2. s \in SUBSET S /\ Cardinality(s) <= n + 1 /\ Cardinality(s) \in Nat /\ IsFiniteSet(s)
    BY <1>1
  <2> DEFINE x == Any(s)
             u == s \ {x}
  <2>3. Cardinality(u) = Cardinality(s) - 1
    <3> HIDE DEF x, Small
    <3>1. Cardinality(s \ {x}) = IF x \in s THEN Cardinality(s) - 1 ELSE Cardinality(s)
      BY <2>2, FS_RemoveElement
    <3> QED
      BY <2>1, <2>2, <3>1 DEF x
  <2>4. u \in SUBSET S
    BY <2>2
  <2> HIDE DEF u
  <2>5. Cardinality(u) <= n
    BY <2>2, <2>3
  <2>6. u \in Small(n)
    BY <2>4, <2>5
  <2> QED
    BY <2>6 DEF u
<1>3. Small(0) = {{}}
  <2>1. \A s \in Small(0) : s = {}
    <3> SUFFICES ASSUME NEW s \in Small(0)
                 PROVE  s = {}
      OBVIOUS
    <3>1. Cardinality(s) = 0 /\ IsFiniteSet(s)
      BY <1>1
    <3> QED
      BY <3>1, FS_EmptySet
  <2>2. {} \in Small(0)
    BY FS_EmptySet
  <2> QED
    BY <2>1, <2>2
<1>4. Solved(0)
  <2> DEFINE g == [s \in Small(0) |-> base]
  <2>1. g \in [Small(0) -> V] /\ Solves(0, g)
    BY <1>3
  <2> QED
    BY <2>1
<1>5. ASSUME NEW n \in Nat, Solved(n)
      PROVE  Solved(n + 1)
  <2>1. PICK g \in [Small(n) -> V] : Solves(n, g)
    BY <1>5
  <2> DEFINE A == Small(n)
             B == Small(n + 1)
             h == [s \in B |-> IF s = {} THEN base ELSE next[s][g[s \ {Any(s)}]]]
  <2>2. A \subseteq B /\ B \subseteq SUBSET S
    BY <1>1
  <2>3. \A s \in B : s # {} => s \ {Any(s)} \in A
    BY <1>2
  <2>4. \A s \in A : g[s] = IF s = {} THEN base ELSE next[s][g[s \ {Any(s)}]]
    BY <2>1
  <2> HIDE DEF A, B
  <2>5. \A s \in A : h[s] = g[s]
    BY <2>2, <2>4
  <2>6. \A s \in B : h[s] = IF s = {} THEN base ELSE next[s][h[s \ {Any(s)}]]
    <3> SUFFICES ASSUME NEW s \in B
                 PROVE  h[s] = IF s = {} THEN base ELSE next[s][h[s \ {Any(s)}]]
      OBVIOUS
    <3>1. h[s] = IF s = {} THEN base ELSE next[s][g[s \ {Any(s)}]]
      OBVIOUS
    <3> HIDE DEF h
    <3>2. s # {} => h[s \ {Any(s)}] = g[s \ {Any(s)}]
      BY <2>3, <2>5
    <3> QED
      BY <3>1, <3>2
  <2>7. h \in [B -> V]
    <3>1. g \in [A -> V]
      BY DEF A
    <3>2. \A s \in B : (IF s = {} THEN base ELSE next[s][g[s \ {Any(s)}]]) \in V
      BY <2>2, <2>3, <3>1
    <3> QED
      BY <3>2
  <2> HIDE DEF h
  <2>8. h \in [Small(n + 1) -> V] /\ Solves(n + 1, h)
    BY <2>6, <2>7 DEF B
  <2> QED
    BY <2>8
<1>6. \A n \in Nat : Solved(n)
  <2> SUFFICES ASSUME N # {} PROVE FALSE
    OBVIOUS
  <2> HIDE DEF Solved
  <2>1. PICK n \in N : \A m \in N : n <= m
    <3>1. N \subseteq Nat
      OBVIOUS
    <3> HIDE DEF N
    <3> QED
      BY <3>1, LeastNatural
  <2>2. n # 0
    BY <1>4
  <2>3. n - 1 \in Nat /\ n - 1 \notin N
    BY <2>1, <2>2
  <2>4. Solved(n - 1 + 1)
    BY <1>5, <2>3
  <2>5. n - 1 + 1 = n
    OBVIOUS
  <2> QED
    BY <2>4, <2>5
<1>7. Small(Cardinality(S)) = SUBSET S
  <2>1. \A s \in SUBSET S : Cardinality(s) <= Cardinality(S)
    BY FS_Subset
  <2> QED
    BY <2>1
<1>8. Solved(Cardinality(S))
  <2> HIDE DEF Solved
  <2> QED
    BY <1>1, <1>6
<1> QED
  <2>1. PICK g \in [Small(Cardinality(S)) -> V] : Solves(Cardinality(S), g)
    BY <1>8
  <2> QED
    BY <1>7, <2>1 DEF Recursive

\* Two functions that go through the subsets alike are the same.
Alike(S, f, g) == \A s \in SUBSET S : s = {} \/ f[s \ {Any(s)}] = g[s \ {Any(s)}] => f[s] = g[s]

LEMMA SubsetsAgree ==
  ASSUME NEW S, IsFiniteSet(S), NEW f, NEW g, Alike(S, f, g)
  PROVE  \A s \in SUBSET S : f[s] = g[s]
<1> DEFINE Bad == {s \in SUBSET S : f[s] # g[s]}
<1> SUFFICES ASSUME Bad # {} PROVE FALSE
  OBVIOUS
<1>1. PICK s \in Bad : \A u \in SUBSET s : u # s => u \notin Bad
  <2>1. Bad \in SUBSET SUBSET S
    OBVIOUS
  <2> HIDE DEF Bad
  <2> QED
    BY <2>1, SmallestSubset
<1>2. s # {} /\ Any(s) \in s
  BY DEF Any, Alike
<1>3. s \ {Any(s)} \in SUBSET S /\ f[s \ {Any(s)}] = g[s \ {Any(s)}]
  BY <1>1, <1>2 DEF Alike
<1> QED
  BY <1>2, <1>3 DEF Alike

\* A sum of integers is found by taking the elements out one after the other.
LEMMA SumIs ==
  ASSUME NEW S, IsFiniteSet(S), NEW fun, NEW g,
         g = [s \in SUBSET S |-> IF s = {} THEN 0 ELSE fun[Any(s)] + g[s \ {Any(s)}]]
  PROVE  SumFunctionOnSet(fun, S) = g[S]
<1> DEFINE Step(h) == [s \in SUBSET S |-> IF s = {} THEN 0 ELSE fun[Any(s)] + h[s \ {Any(s)}]]
           sum == CHOOSE h : h = Step(h)
<1>1. sum = Step(sum)
  <2>1. g = Step(g)
    OBVIOUS
  <2> HIDE DEF Step
  <2> QED
    BY <2>1
<1> HIDE DEF sum
<1>2. \A s \in SUBSET S : sum[s] = IF s = {} THEN 0 ELSE fun[Any(s)] + sum[s \ {Any(s)}]
  BY <1>1
<1>3. \A s \in SUBSET S : g[s] = IF s = {} THEN 0 ELSE fun[Any(s)] + g[s \ {Any(s)}]
  OBVIOUS
<1>4. Alike(S, sum, g)
  BY <1>2, <1>3 DEF Alike
<1>5. sum[S] = g[S]
  <2>1. \A s \in SUBSET S : sum[s] = g[s]
    BY <1>4, SubsetsAgree
  <2> QED
    BY <2>1
<1> QED
  BY <1>5, SumUnfolds DEF sum

LEMMA SumStep ==
  ASSUME NEW S, IsFiniteSet(S), NEW fun, \A x \in S : fun[x] \in Int
  PROVE  /\ \A s \in SUBSET S : SumFunctionOnSet(fun, s) \in Int
         /\ \A s \in SUBSET S : SumFunctionOnSet(fun, s) =
              IF s = {} THEN 0 ELSE fun[Any(s)] + SumFunctionOnSet(fun, s \ {Any(s)})
<1> DEFINE add == [s \in SUBSET S |-> [v \in Int |-> IF s = {} THEN 0 ELSE fun[Any(s)] + v]]
<1>1. ASSUME NEW s \in SUBSET S, s # {}
      PROVE  Any(s) \in s /\ s \ {Any(s)} \in SUBSET S
  BY <1>1 DEF Any
<1>2. add \in [SUBSET S -> [Int -> Int]]
  BY <1>1
<1>3. PICK g \in [SUBSET S -> Int] : \A s \in SUBSET S : g[s] = IF s = {} THEN 0 ELSE add[s][g[s \ {Any(s)}]]
  <2> DEFINE V == Int
             base == 0
  <2>1. base \in V /\ add \in [SUBSET S -> [V -> V]]
    BY <1>2
  <2> HIDE DEF V, base, add
  <2>2. Recursive(S, V, base, add)
    BY <2>1, SubsetRecursion
  <2> QED
    BY <2>2 DEF V, base, Recursive
<1>5. \A s \in SUBSET S : g[s] = IF s = {} THEN 0 ELSE fun[Any(s)] + g[s \ {Any(s)}]
  <2> SUFFICES ASSUME NEW s \in SUBSET S, s # {}
               PROVE  g[s] = fun[Any(s)] + g[s \ {Any(s)}]
    BY <1>3
  <2>1. g[s \ {Any(s)}] \in Int
    BY <1>1
  <2> QED
    BY <1>3, <2>1
<1>6. \A s \in SUBSET S : SumFunctionOnSet(fun, s) = g[s]
  <2> SUFFICES ASSUME NEW T \in SUBSET S
               PROVE  SumFunctionOnSet(fun, T) = g[T]
    OBVIOUS
  <2> DEFINE h == [s \in SUBSET T |-> g[s]]
  <2>1. h = [s \in SUBSET T |-> IF s = {} THEN 0 ELSE fun[Any(s)] + h[s \ {Any(s)}]]
    <3>1. \A s \in SUBSET T : g[s] = IF s = {} THEN 0 ELSE fun[Any(s)] + h[s \ {Any(s)}]
      BY <1>5
    <3> QED
      BY <3>1
  <2>2. IsFiniteSet(T) /\ h[T] = g[T]
    BY FS_Subset
  <2> HIDE DEF h
  <2>3. SumFunctionOnSet(fun, T) = h[T]
    BY <2>1, <2>2, SumIs
  <2> QED
    BY <2>2, <2>3
<1>7. \A s \in SUBSET S : s \ {Any(s)} \in SUBSET S /\ g[s] \in Int
  OBVIOUS
<1> HIDE DEF add
<1> QED
  BY <1>5, <1>6, <1>7

\* A sum of integers is one.
LEMMA SumIsInt ==
  ASSUME NEW S, IsFiniteSet(S), NEW fun, \A x \in S : fun[x] \in Int
  PROVE  SumFunctionOnSet(fun, S) \in Int
BY SumStep

\* Sums of the same numbers are the same.
LEMMA SumEquals ==
  ASSUME NEW S, IsFiniteSet(S), NEW f, NEW g,
         \A x \in S : f[x] \in Int /\ g[x] = f[x]
  PROVE  SumFunctionOnSet(f, S) = SumFunctionOnSet(g, S)
<1> DEFINE F == [s \in SUBSET S |-> SumFunctionOnSet(f, s)]
           G == [s \in SUBSET S |-> SumFunctionOnSet(g, s)]
<1>1. \A x \in S : f[x] \in Int /\ g[x] \in Int
  OBVIOUS
<1>2. /\ \A s \in SUBSET S : F[s] = IF s = {} THEN 0 ELSE f[Any(s)] + F[s \ {Any(s)}]
      /\ \A s \in SUBSET S : G[s] = IF s = {} THEN 0 ELSE g[Any(s)] + G[s \ {Any(s)}]
  <2>1. \A s \in SUBSET S : s \ {Any(s)} \in SUBSET S
    OBVIOUS
  <2>2. \A s \in SUBSET S : SumFunctionOnSet(f, s) = IF s = {} THEN 0 ELSE f[Any(s)] + SumFunctionOnSet(f, s \ {Any(s)})
    BY <1>1, SumStep
  <2>3. \A s \in SUBSET S : SumFunctionOnSet(g, s) = IF s = {} THEN 0 ELSE g[Any(s)] + SumFunctionOnSet(g, s \ {Any(s)})
    BY <1>1, SumStep
  <2> QED
    BY <2>1, <2>2, <2>3
<1>3. \A s \in SUBSET S : s # {} => f[Any(s)] = g[Any(s)]
  BY DEF Any
<1> HIDE DEF F, G
<1>4. Alike(S, F, G)
  BY <1>2, <1>3 DEF Alike
<1>5. \A s \in SUBSET S : F[s] = G[s]
  BY <1>4, SubsetsAgree
<1> QED
  BY <1>5 DEF F, G

\* What goes from the subsets to those with one member more holds of them all.
Hereditary(S, Good) == \A s \in SUBSET S : s = {} \/ s \ {Any(s)} \in Good => s \in Good

LEMMA SubsetInduction ==
  ASSUME NEW S, IsFiniteSet(S), NEW Good, Hereditary(S, Good)
  PROVE  \A s \in SUBSET S : s \in Good
<1> DEFINE Bad == {s \in SUBSET S : s \notin Good}
<1> SUFFICES ASSUME Bad # {} PROVE FALSE
  OBVIOUS
<1>1. PICK s \in Bad : \A u \in SUBSET s : u # s => u \notin Bad
  <2>1. Bad \in SUBSET SUBSET S
    OBVIOUS
  <2> HIDE DEF Bad
  <2> QED
    BY <2>1, SmallestSubset
<1>2. s # {} /\ Any(s) \in s
  BY DEF Any, Hereditary
<1>3. s \ {Any(s)} \in SUBSET S /\ s \ {Any(s)} \in Good
  BY <1>1, <1>2
<1> QED
  BY <1>2, <1>3 DEF Hereditary

\* The sum of the sums.
LEMMA SumAdds ==
  ASSUME NEW S, IsFiniteSet(S), NEW f, NEW g, NEW h,
         \A x \in S : f[x] \in Int /\ g[x] \in Int /\ h[x] = f[x] + g[x]
  PROVE  SumFunctionOnSet(h, S) = SumFunctionOnSet(f, S) + SumFunctionOnSet(g, S)
<1> DEFINE Good == {s \in SUBSET S : SumFunctionOnSet(h, s) = SumFunctionOnSet(f, s) + SumFunctionOnSet(g, s)}
<1>1. \A x \in S : f[x] \in Int /\ g[x] \in Int /\ h[x] \in Int
  OBVIOUS
<1>2. ASSUME NEW s \in SUBSET S, s = {} \/ s \ {Any(s)} \in Good
      PROVE  s \in Good
  <2>1. CASE s = {}
    <3>1. SumFunctionOnSet(h, s) = 0 /\ SumFunctionOnSet(f, s) = 0 /\ SumFunctionOnSet(g, s) = 0
      BY <1>1, <2>1, SumStep
    <3> QED
      BY <3>1
  <2>2. CASE s # {}
    <3> DEFINE x == Any(s)
               u == s \ {x}
    <3>1. x \in S /\ u \in SUBSET S
      BY <2>2 DEF Any
    <3>2. SumFunctionOnSet(h, s) = h[x] + SumFunctionOnSet(h, u) /\ SumFunctionOnSet(h, u) \in Int
      BY <1>1, <2>2, <3>1, SumStep
    <3>3. SumFunctionOnSet(f, s) = f[x] + SumFunctionOnSet(f, u) /\ SumFunctionOnSet(f, u) \in Int
      BY <1>1, <2>2, <3>1, SumStep
    <3>4. SumFunctionOnSet(g, s) = g[x] + SumFunctionOnSet(g, u) /\ SumFunctionOnSet(g, u) \in Int
      BY <1>1, <2>2, <3>1, SumStep
    <3>5. SumFunctionOnSet(h, u) = SumFunctionOnSet(f, u) + SumFunctionOnSet(g, u)
      BY <1>2, <2>2
    <3> HIDE DEF x, u
    <3>6. h[x] = f[x] + g[x] /\ f[x] \in Int /\ g[x] \in Int
      BY <3>1
    <3> QED
      BY <3>2, <3>3, <3>4, <3>5, <3>6
  <2> QED
    BY <2>1, <2>2
<1>3. Hereditary(S, Good)
  <2> HIDE DEF Good
  <2> QED
    BY <1>2 DEF Hereditary
<1>4. S \in Good
  <2> HIDE DEF Good
  <2> QED
    BY <1>3, SubsetInduction
<1> QED
  BY <1>4

\* A sum of multiples is a multiple of the sum.
LEMMA SumScales ==
  ASSUME NEW S, IsFiniteSet(S), NEW k \in Int, NEW f, NEW h,
         \A x \in S : f[x] \in Int /\ h[x] = k * f[x]
  PROVE  SumFunctionOnSet(h, S) = k * SumFunctionOnSet(f, S)
<1> DEFINE Good == {s \in SUBSET S : SumFunctionOnSet(h, s) = k * SumFunctionOnSet(f, s)}
<1>1. \A x \in S : f[x] \in Int /\ h[x] \in Int
  OBVIOUS
<1>2. ASSUME NEW s \in SUBSET S, s = {} \/ s \ {Any(s)} \in Good
      PROVE  s \in Good
  <2>1. CASE s = {}
    <3>1. SumFunctionOnSet(h, s) = 0 /\ SumFunctionOnSet(f, s) = 0
      BY <1>1, <2>1, SumStep
    <3> QED
      BY <3>1
  <2>2. CASE s # {}
    <3> DEFINE x == Any(s)
               u == s \ {x}
    <3>1. x \in S /\ u \in SUBSET S
      BY <2>2 DEF Any
    <3>2. SumFunctionOnSet(h, s) = h[x] + SumFunctionOnSet(h, u) /\ SumFunctionOnSet(h, u) \in Int
      BY <1>1, <2>2, <3>1, SumStep
    <3>3. SumFunctionOnSet(f, s) = f[x] + SumFunctionOnSet(f, u) /\ SumFunctionOnSet(f, u) \in Int
      BY <1>1, <2>2, <3>1, SumStep
    <3>4. SumFunctionOnSet(h, u) = k * SumFunctionOnSet(f, u)
      BY <1>2, <2>2
    <3> HIDE DEF x, u
    <3>5. h[x] = k * f[x] /\ f[x] \in Int
      BY <3>1
    <3> DEFINE a == f[x]
               b == SumFunctionOnSet(f, u)
    <3> HIDE DEF a, b
    <3>6. k * (a + b) = k * a + k * b
      BY <3>3, <3>5 DEF a, b
    <3> QED
      BY <3>2, <3>3, <3>4, <3>5, <3>6 DEF a, b
  <2> QED
    BY <2>1, <2>2
<1>3. Hereditary(S, Good)
  <2> HIDE DEF Good
  <2> QED
    BY <1>2 DEF Hereditary
<1>4. S \in Good
  <2> HIDE DEF Good
  <2> QED
    BY <1>3, SubsetInduction
<1> QED
  BY <1>4

\* A sum of numbers that are not greater is not greater.
LEMMA SumMonotone ==
  ASSUME NEW S, IsFiniteSet(S), NEW f, NEW g,
         \A x \in S : f[x] \in Int /\ g[x] \in Int /\ f[x] <= g[x]
  PROVE  SumFunctionOnSet(f, S) <= SumFunctionOnSet(g, S)
<1> DEFINE Good == {s \in SUBSET S : SumFunctionOnSet(f, s) <= SumFunctionOnSet(g, s)}
<1>1. \A x \in S : f[x] \in Int /\ g[x] \in Int
  OBVIOUS
<1>2. ASSUME NEW s \in SUBSET S, s = {} \/ s \ {Any(s)} \in Good
      PROVE  s \in Good
  <2>1. CASE s = {}
    <3>1. SumFunctionOnSet(f, s) = 0 /\ SumFunctionOnSet(g, s) = 0
      BY <1>1, <2>1, SumStep
    <3> QED
      BY <3>1
  <2>2. CASE s # {}
    <3> DEFINE x == Any(s)
               u == s \ {x}
    <3>1. x \in S /\ u \in SUBSET S
      BY <2>2 DEF Any
    <3>2. SumFunctionOnSet(f, s) = f[x] + SumFunctionOnSet(f, u) /\ SumFunctionOnSet(f, u) \in Int
      BY <1>1, <2>2, <3>1, SumStep
    <3>3. SumFunctionOnSet(g, s) = g[x] + SumFunctionOnSet(g, u) /\ SumFunctionOnSet(g, u) \in Int
      BY <1>1, <2>2, <3>1, SumStep
    <3>4. SumFunctionOnSet(f, u) <= SumFunctionOnSet(g, u)
      BY <1>2, <2>2
    <3> HIDE DEF x, u
    <3>5. f[x] <= g[x] /\ f[x] \in Int /\ g[x] \in Int
      BY <3>1
    <3> QED
      BY <3>2, <3>3, <3>4, <3>5
  <2> QED
    BY <2>1, <2>2
<1>3. Hereditary(S, Good)
  <2> HIDE DEF Good
  <2> QED
    BY <1>2 DEF Hereditary
<1>4. S \in Good
  <2> HIDE DEF Good
  <2> QED
    BY <1>3, SubsetInduction
<1> QED
  BY <1>4

\* A sum of ones counts.
LEMMA SumOnes ==
  ASSUME NEW S, IsFiniteSet(S), NEW f, \A x \in S : f[x] = 1
  PROVE  SumFunctionOnSet(f, S) = Cardinality(S)
<1> DEFINE Good == {s \in SUBSET S : SumFunctionOnSet(f, s) = Cardinality(s)}
<1>1. \A x \in S : f[x] \in Int
  OBVIOUS
<1>2. ASSUME NEW s \in SUBSET S, s = {} \/ s \ {Any(s)} \in Good
      PROVE  s \in Good
  <2>1. CASE s = {}
    BY <1>1, <2>1, SumStep, FS_EmptySet
  <2>2. CASE s # {}
    <3> DEFINE x == Any(s)
               u == s \ {x}
    <3>1. x \in S /\ x \in s /\ u \in SUBSET S
      BY <2>2 DEF Any
    <3>2. SumFunctionOnSet(f, s) = f[x] + SumFunctionOnSet(f, u)
      BY <1>1, <2>2, <3>1, SumStep
    <3>3. SumFunctionOnSet(f, u) = Cardinality(u)
      BY <1>2, <2>2
    <3>4. IsFiniteSet(s) /\ Cardinality(s) \in Nat
      BY FS_Subset, FS_CardinalityType
    <3>5. Cardinality(u) = Cardinality(s) - 1
      <4> HIDE DEF x
      <4>1. Cardinality(s \ {x}) = IF x \in s THEN Cardinality(s) - 1 ELSE Cardinality(s)
        BY <3>4, FS_RemoveElement
      <4> QED
        BY <3>1, <4>1
    <3>6. f[x] = 1
      BY <3>1
    <3> HIDE DEF x, u
    <3> QED
      BY <3>2, <3>3, <3>4, <3>5, <3>6
  <2> QED
    BY <2>1, <2>2
<1>3. Hereditary(S, Good)
  <2> HIDE DEF Good
  <2> QED
    BY <1>2 DEF Hereditary
<1>4. S \in Good
  <2> HIDE DEF Good
  <2> QED
    BY <1>3, SubsetInduction
<1> QED
  BY <1>4

\* Any element may be taken out of a sum.
LEMMA SumRemoves ==
  ASSUME NEW S, IsFiniteSet(S), NEW f, \A x \in S : f[x] \in Int
  PROVE  \A s \in SUBSET S : \A x \in s : SumFunctionOnSet(f, s) = f[x] + SumFunctionOnSet(f, s \ {x})
<1> DEFINE Bad == {s \in SUBSET S : \E x \in s : SumFunctionOnSet(f, s) # f[x] + SumFunctionOnSet(f, s \ {x})}
<1> SUFFICES ASSUME Bad # {} PROVE FALSE
  OBVIOUS
<1>1. PICK s \in Bad : \A u \in SUBSET s : u # s => u \notin Bad
  <2>1. Bad \in SUBSET SUBSET S
    OBVIOUS
  <2> HIDE DEF Bad
  <2> QED
    BY <2>1, SmallestSubset
<1>2. PICK x \in s : SumFunctionOnSet(f, s) # f[x] + SumFunctionOnSet(f, s \ {x})
  OBVIOUS
<1> DEFINE y == Any(s)
           u == s \ {y}
           v == s \ {x}
           w == u \ {x}
<1>3. s \in SUBSET S /\ s # {} /\ y \in s /\ x \in S /\ y \in S
  BY <1>2 DEF Any
<1>4. SumFunctionOnSet(f, s) = f[y] + SumFunctionOnSet(f, u)
  BY <1>3, SumStep
<1>5. x # y
  BY <1>2, <1>4
<1>6. SumFunctionOnSet(f, u) = f[x] + SumFunctionOnSet(f, w)
  <2>1. u \in SUBSET s /\ u # s /\ x \in u /\ u \in SUBSET S
    BY <1>3, <1>5
  <2>2. u \notin Bad
    BY <1>1, <2>1
  <2> HIDE DEF u, v
  <2> QED
    BY <2>1, <2>2
<1>7. SumFunctionOnSet(f, v) = f[y] + SumFunctionOnSet(f, w)
  <2>1. v \in SUBSET s /\ v # s /\ y \in v /\ v \in SUBSET S /\ v \ {y} = w
    BY <1>2, <1>3, <1>5
  <2>2. v \notin Bad
    BY <1>1, <2>1
  <2> HIDE DEF u, v, w
  <2> QED
    BY <2>1, <2>2
<1>8. f[x] \in Int /\ f[y] \in Int /\ SumFunctionOnSet(f, w) \in Int
  <2>1. w \in SUBSET S
    BY <1>3
  <2> HIDE DEF w
  <2> QED
    BY <1>3, <2>1, SumStep
<1> HIDE DEF y, u, w
<1>9. SumFunctionOnSet(f, s) = f[x] + SumFunctionOnSet(f, v)
  BY <1>4, <1>6, <1>7, <1>8
<1> QED
  BY <1>2, <1>9

\* The sum over two sets that have nothing in common.
LEMMA SumJoins ==
  ASSUME NEW A, NEW B, IsFiniteSet(A), IsFiniteSet(B), A \cap B = {},
         NEW f, \A x \in A \cup B : f[x] \in Int
  PROVE  SumFunctionOnSet(f, A \cup B) = SumFunctionOnSet(f, A) + SumFunctionOnSet(f, B)
<1> DEFINE S == A \cup B
           Good == {s \in SUBSET A : SumFunctionOnSet(f, s \cup B) = SumFunctionOnSet(f, s) + SumFunctionOnSet(f, B)}
<1>1. IsFiniteSet(S) /\ A \in SUBSET S /\ B \in SUBSET S /\ \A x \in S : f[x] \in Int
  BY FS_Union
<1>2. \A s \in SUBSET S : SumFunctionOnSet(f, s) \in Int
  <2> HIDE DEF S
  <2> QED
    BY <1>1, SumStep
<1>3. ASSUME NEW s \in SUBSET A, s = {} \/ s \ {Any(s)} \in Good
      PROVE  s \in Good
  <2>1. CASE s = {}
    <3>1. SumFunctionOnSet(f, s) = 0
      <4> HIDE DEF S
      <4> QED
        BY <1>1, <2>1, SumStep
    <3>2. s \cup B = B /\ SumFunctionOnSet(f, B) \in Int
      BY <1>1, <1>2, <2>1
    <3> HIDE DEF S
    <3>3. SumFunctionOnSet(f, B) = 0 + SumFunctionOnSet(f, B)
      BY <3>2
    <3> QED
      BY <3>1, <3>2, <3>3
  <2>2. CASE s # {}
    <3> DEFINE x == Any(s)
               u == s \ {x}
               t == s \cup B
    <3>1. x \in s /\ x \in S /\ u \in SUBSET S /\ s \in SUBSET S /\ t \in SUBSET S /\ x \in t
      BY <2>2 DEF Any
    <3>2. t \ {x} = u \cup B
      BY <3>1
    <3>3. SumFunctionOnSet(f, t) = f[x] + SumFunctionOnSet(f, t \ {x})
      <4> HIDE DEF S, t, x
      <4> QED
        BY <1>1, <3>1, SumRemoves
    <3>4. SumFunctionOnSet(f, s) = f[x] + SumFunctionOnSet(f, u)
      <4> HIDE DEF S, t, x
      <4> QED
        BY <1>1, <3>1, SumRemoves
    <3>5. SumFunctionOnSet(f, u \cup B) = SumFunctionOnSet(f, u) + SumFunctionOnSet(f, B)
      BY <1>3, <2>2
    <3>6. f[x] \in Int /\ SumFunctionOnSet(f, u) \in Int /\ SumFunctionOnSet(f, B) \in Int
      <4> HIDE DEF S, t, x, u
      <4> QED
        BY <1>1, <1>2, <3>1
    <3>7. SumFunctionOnSet(f, t) = SumFunctionOnSet(f, s) + SumFunctionOnSet(f, B)
      <4> DEFINE a == SumFunctionOnSet(f, u)
                 b == SumFunctionOnSet(f, B)
      <4>1. SumFunctionOnSet(f, t) = f[x] + (a + b)
        <5> HIDE DEF S, t, x, u
        <5> QED
          BY <3>2, <3>3, <3>5, Zenon
      <4>2. SumFunctionOnSet(f, s) = f[x] + a
        BY <3>4
      <4>3. f[x] \in Int /\ a \in Int /\ b \in Int
        BY <3>6
      <4> HIDE DEF S, t, x, u, a, b
      <4>4. SumFunctionOnSet(f, t) = SumFunctionOnSet(f, s) + b
        BY <4>1, <4>2, <4>3
      <4> QED
        BY <4>4 DEF b
    <3> QED
      BY <3>7
  <2> QED
    BY <2>1, <2>2
<1>4. Hereditary(A, Good)
  <2> HIDE DEF Good
  <2> QED
    BY <1>3 DEF Hereditary
<1>5. A \in Good
  <2> HIDE DEF Good
  <2> QED
    BY <1>4, SubsetInduction
<1> QED
  BY <1>5

\* A product of naturals is one.
LEMMA ProductIsNat ==
  ASSUME NEW S, IsFiniteSet(S), S \subseteq Nat
  PROVE  ProductSet(S) \in Nat
<1> DEFINE V == Nat
           base == 1
           times == [s \in SUBSET S |-> [v \in Nat |-> IF s = {} THEN 1 ELSE Any(s) * v]]
           Step(h) == [s \in SUBSET S |-> IF s = {} THEN 1 ELSE Any(s) * h[s \ {Any(s)}]]
           product == CHOOSE h : h = Step(h)
<1>1. ASSUME NEW s \in SUBSET S, s # {}
      PROVE  Any(s) \in s /\ Any(s) \in Nat /\ s \ {Any(s)} \in SUBSET S
  BY <1>1 DEF Any
<1>2. base \in V /\ times \in [SUBSET S -> [V -> V]]
  <2>1. \A s \in SUBSET S, v \in Nat : (IF s = {} THEN 1 ELSE Any(s) * v) \in Nat
    <3> SUFFICES ASSUME NEW s \in SUBSET S, NEW v \in Nat, s # {}
                 PROVE  Any(s) * v \in Nat
      OBVIOUS
    <3> DEFINE x == Any(s)
    <3>1. x \in Nat
      BY <1>1
    <3> HIDE DEF x
    <3>2. x * v \in Nat
      BY <3>1
    <3> QED
      BY <3>2 DEF x
  <2> QED
    BY <2>1
<1>3. Recursive(S, V, base, times)
  <2> HIDE DEF V, base, times
  <2> QED
    BY <1>2, SubsetRecursion
<1>4. PICK g \in [SUBSET S -> Nat] : \A s \in SUBSET S : g[s] = IF s = {} THEN 1 ELSE times[s][g[s \ {Any(s)}]]
  <2> HIDE DEF times
  <2> QED
    BY <1>3 DEF Recursive
<1>5. \A s \in SUBSET S : g[s] = IF s = {} THEN 1 ELSE Any(s) * g[s \ {Any(s)}]
  <2> SUFFICES ASSUME NEW s \in SUBSET S, s # {}
               PROVE  g[s] = Any(s) * g[s \ {Any(s)}]
    BY <1>4
  <2>1. g[s \ {Any(s)}] \in Nat
    BY <1>1
  <2> QED
    BY <1>4, <2>1
<1>6. g = Step(g)
  BY <1>5
<1>7. product = Step(product)
  <2> HIDE DEF Step
  <2> QED
    BY <1>6
<1> HIDE DEF product
<1>8. Alike(S, product, g)
  <2>1. \A s \in SUBSET S : product[s] = IF s = {} THEN 1 ELSE Any(s) * product[s \ {Any(s)}]
    BY <1>7
  <2> QED
    BY <1>5, <2>1 DEF Alike
<1>9. product[S] = g[S]
  <2> HIDE DEF times, Step
  <2> QED
    BY <1>8, SubsetsAgree
<1>10. ProductSet(S) = product[S]
  BY DEF ProductSet, FoldSet, MapThenFoldSet, Any, product
<1> QED
  BY <1>9, <1>10

-----------------------------------------------------------------------------
(* What is measured of one round or of two (MCMeasures), for every roster, *)
(* every failure and every answer.                                         *)

\* A change of position is counted in seven places, over other data each time:
\* the episodes, the shift metrics, the transition keys, the holdout and shock
\* splits, the retest, the report's pivots and the conformity rate (rounds.py,
\* metrics.py, graph/analytics.py): they agree for every two rounds of a roster.
THEOREM FlipsAreCountedOnce ==
  ASSUME Given("moves") => TwoRounds(input)
  PROVE  FlipsAgree
<1> SUFFICES ASSUME Given("moves")
             PROVE  FlipsAgree
  BY DEF FlipsAgree
<1> DEFINE roster == input.agents
           before == input.before
           after == input.after
           M == Movers(before, after)
           moved == {a \in roster : FlipType(before[a].signal, after[a].signal) # NoFlip}
           shifts == Shifts(before, after)
           cells == Transitions(before, after)
           Turns == {t \in DOMAIN cells : t[1] # t[2]}
<1>1. /\ IsFiniteSet(roster) /\ DOMAIN before = roster /\ DOMAIN after = roster
      /\ \A a \in roster : before[a].signal \in Signals /\ after[a].signal \in Signals
  BY DEF TwoRounds, AnswersOf
<1> HIDE DEF roster, before, after
<1>2. ASSUME NEW group
      PROVE  /\ Cardinality(M) \in Nat /\ moved = M
             /\ TotalFlips(before, after) = Cardinality(M)
             /\ \A t \in DOMAIN shifts : shifts[t] = cells[t]
             /\ Retest(before, after) = <<Cardinality(M), SumFunction(cells)>>
             /\ SplitFlips(before, after, group)[1] + SplitFlips(before, after, group)[2] = Cardinality(M)
             /\ SumFunction(PivotsByBracket(before, after, input.bracketOf)) = Cardinality(M)
  <2>1. /\ IsFiniteSet(DOMAIN before)
        /\ \A a \in DOMAIN before : before[a].signal \in Signals
        /\ \A a \in DOMAIN after : after[a].signal \in Signals
        /\ DOMAIN before \cap DOMAIN after = roster
    BY <1>1
  <2> QED
    BY <2>1, FlipCountsAgree
<1>3. SumFunctionOnSet(cells, Turns) = Cardinality(M)
  <2>1. /\ DOMAIN cells = Positions \X Positions /\ DOMAIN shifts = Turns
        /\ \A t \in Turns : t = <<t[1], t[2]>>
    BY DEF Transitions, Shifts
  <2>2. IsFiniteSet(Turns)
    <3>1. IsFiniteSet(Positions \X Positions)
      BY RoundsAssumption, FS_Product
    <3> QED
      BY <2>1, <3>1, FS_Subset
  <2>3. \A t \in Turns : shifts[t] \in Int
    <3> SUFFICES ASSUME NEW t \in Turns
                 PROVE  shifts[t] \in Int
      OBVIOUS
    <3> DEFINE Part == {a \in DOMAIN before \cap DOMAIN after : before[a].signal = t[1] /\ after[a].signal = t[2]}
    <3>1. Part \in SUBSET roster
      BY <1>1
    <3>2. shifts[t] = Cardinality(Part)
      BY <2>1 DEF Shifts
    <3> HIDE DEF Part
    <3>3. Cardinality(Part) \in Nat
      BY <1>1, <3>1, FS_Subset, FS_CardinalityType
    <3> QED
      BY <3>2, <3>3
  <2>4. \A t \in Turns : shifts[t] \in Int /\ cells[t] = shifts[t]
    BY <1>2, <2>1, <2>3
  <2> HIDE DEF Turns, shifts, cells
  <2>5. SumFunctionOnSet(shifts, Turns) = SumFunctionOnSet(cells, Turns)
    BY <2>2, <2>4, SumEquals
  <2>6. SumFunctionOnSet(shifts, Turns) = Cardinality(M)
    <3>1. SumFunction(shifts) = Cardinality(M)
      BY <1>2 DEF TotalFlips, shifts
    <3> QED
      BY <2>1, <3>1 DEF SumFunction
  <2> QED
    BY <2>5, <2>6
<1>4. Conformity(before, after, input.shown)[2] <= Cardinality(M)
  <2> DEFINE judged == {a \in M : PeerMajority(input.shown[a], before) # {}}
  <2>1. Conformity(before, after, input.shown)[2] = Cardinality(judged)
    BY DEF Conformity
  <2>2. IsFiniteSet(M) /\ judged \in SUBSET M
    BY <1>1, MoversAreFinite
  <2> HIDE DEF M, judged
  <2>3. Cardinality(judged) <= Cardinality(M)
    BY <2>2, FS_Subset
  <2> QED
    BY <2>1, <2>3
<1>5. Cardinality(moved) = Cardinality(M)
  <2> HIDE DEF moved, M
  <2> QED
    BY <1>2
<1> HIDE DEF M
<1> QED
  BY <1>2, <1>3, <1>4, <1>5 DEF FlipsAgree, roster, before, after

\* A wave without the agents that failed in it.
Decided(w) == [a \in Active(w) |-> w[a]]

LEMMA DecidedIsActive ==
  ASSUME NEW w
  PROVE  /\ DOMAIN Decided(w) = Active(w) /\ Active(Decided(w)) = Active(w)
         /\ \A a \in Active(w) : Decided(w)[a] = w[a]
         /\ \A S : Voters(Decided(w), S) = Voters(w, S)
         /\ \A p \in Positions : \A S : Holding(Decided(w), S \cap Active(w), p) = Holding(w, S \cap Active(w), p)
         /\ \A p \in Positions : \A S \in SUBSET DOMAIN w : Holding(w, S, p) = Holding(w, S \cap Active(w), p)
<1>1. DOMAIN Decided(w) = Active(w) /\ \A a \in Active(w) : Decided(w)[a] = w[a]
  BY DEF Decided
<1>2. \A a \in Active(w) : a \in DOMAIN w /\ w[a].signal # ParseError
  BY DEF Active, Failed
<1>3. Active(Decided(w)) = Active(w)
  BY <1>1, <1>2 DEF Active, Failed
<1>4. \A p \in Positions : \A S \in SUBSET DOMAIN w : Holding(w, S, p) = Holding(w, S \cap Active(w), p)
  BY RoundsAssumption DEF Holding, Active, Failed
<1>5. \A p \in Positions : \A S : Holding(Decided(w), S \cap Active(w), p) = Holding(w, S \cap Active(w), p)
  BY <1>1 DEF Holding
<1>6. \A S : Voters(Decided(w), S) = Voters(w, S)
  BY <1>3 DEF Voters
<1> QED
  BY <1>1, <1>3, <1>4, <1>5, <1>6

LEMMA DecidedMove ==
  ASSUME NEW before, NEW after
  PROVE  /\ Both(Decided(before), Decided(after)) = Both(before, after)
         /\ Movers(Decided(before), Decided(after)) = Movers(before, after)
         /\ Shifts(Decided(before), Decided(after)) = Shifts(before, after)
         /\ Transitions(Decided(before), Decided(after)) = Transitions(before, after)
         /\ ConfidenceDelta(Decided(before), Decided(after)) = ConfidenceDelta(before, after)
         /\ \A shown : Conformity(Decided(before), Decided(after), shown) = Conformity(before, after, shown)
<1> DEFINE b == Decided(before)
           a == Decided(after)
<1>1. /\ DOMAIN b = Active(before) /\ Active(b) = Active(before)
      /\ \A x \in Active(before) : b[x] = before[x]
  BY DecidedIsActive
<1>2. /\ DOMAIN a = Active(after) /\ Active(a) = Active(after)
      /\ \A x \in Active(after) : a[x] = after[x]
  BY DecidedIsActive
<1>3. \A S, p : p \in Positions => Holding(b, S \cap Active(before), p) = Holding(before, S \cap Active(before), p)
  BY DecidedIsActive
<1> HIDE DEF b, a
<1>4. Both(b, a) = Both(before, after)
  BY <1>1, <1>2 DEF Both
<1>5. \A x \in Both(before, after) : b[x] = before[x] /\ a[x] = after[x]
  BY <1>1, <1>2 DEF Both
<1>6. Movers(b, a) = Movers(before, after)
  BY <1>4, <1>5 DEF Movers
<1>7. Shifts(b, a) = Shifts(before, after)
  <2>1. ASSUME NEW t \in Positions \X Positions
        PROVE  {x \in DOMAIN b \cap DOMAIN a : b[x].signal = t[1] /\ a[x].signal = t[2]}
                 = {x \in DOMAIN before \cap DOMAIN after : before[x].signal = t[1] /\ after[x].signal = t[2]}
    <3>1. t[1] # ParseError /\ t[2] # ParseError
      BY RoundsAssumption
    <3> QED
      BY <1>1, <1>2, <3>1 DEF Active, Failed
  <2> QED
    BY <2>1 DEF Shifts
<1>8. Transitions(b, a) = Transitions(before, after)
  <2>1. ASSUME NEW t \in Positions \X Positions
        PROVE  {x \in Both(b, a) : <<b[x].signal, a[x].signal>> = t}
                 = {x \in Both(before, after) : <<before[x].signal, after[x].signal>> = t}
    BY <1>4, <1>5
  <2> QED
    BY <2>1 DEF Transitions
<1>9. ConfidenceDelta(b, a) = ConfidenceDelta(before, after)
  <2> DEFINE delta(v, w) == [x \in Both(v, w) |-> Max({w[x].conf - v[x].conf, v[x].conf - w[x].conf})]
  <2>1. delta(b, a) = delta(before, after)
    BY <1>4, <1>5
  <2>2. /\ ConfidenceDelta(b, a) = <<SumFunction(delta(b, a)), Cardinality(DOMAIN delta(b, a))>>
        /\ ConfidenceDelta(before, after) = <<SumFunction(delta(before, after)), Cardinality(DOMAIN delta(before, after))>>
    BY DEF ConfidenceDelta
  <2> HIDE DEF delta
  <2> QED
    BY <2>1, <2>2
<1>10. \A S : PeerMajority(S, b) = PeerMajority(S, before)
  <2> SUFFICES ASSUME NEW S
               PROVE  PeerMajority(S, b) = PeerMajority(S, before)
    OBVIOUS
  <2>1. \A p \in Positions : Cardinality(Holding(b, S \cap Active(b), p)) = Cardinality(Holding(before, S \cap Active(before), p))
    BY <1>1, <1>3
  <2> QED
    BY <2>1 DEF PeerMajority
<1>11. ASSUME NEW shown
       PROVE  Conformity(b, a, shown) = Conformity(before, after, shown)
  <2> DEFINE judged == {x \in Movers(before, after) : PeerMajority(shown[x], before) # {}}
             joined == {x \in judged : after[x].signal \in PeerMajority(shown[x], before)}
  <2>1. judged = {x \in Movers(b, a) : PeerMajority(shown[x], b) # {}}
    BY <1>6, <1>10
  <2>2. \A x \in judged : a[x] = after[x]
    BY <1>5 DEF Movers
  <2>3. joined = {x \in judged : a[x].signal \in PeerMajority(shown[x], b)}
    BY <1>10, <2>2
  <2>4. Conformity(b, a, shown) = <<Cardinality(joined), Cardinality(judged)>>
    BY <2>1, <2>3 DEF Conformity
  <2>5. Conformity(before, after, shown) = <<Cardinality(joined), Cardinality(judged)>>
    BY DEF Conformity
  <2> QED
    BY <2>4, <2>5
<1> QED
  BY <1>4, <1>6, <1>7, <1>8, <1>9, <1>11 DEF a, b

\* Agreement is measured on pairs of agents that decided.
LEMMA DecidedAgree ==
  ASSUME NEW w, NEW couples, \A q \in couples : q \subseteq Active(w)
  PROVE  Agreement(Decided(w), couples) = Agreement(w, couples)
<1>1. \A x \in Active(w) : Decided(w)[x] = w[x]
  BY DecidedIsActive
<1>2. \A q \in couples : (\A x, y \in q : Decided(w)[x].signal = Decided(w)[y].signal)
                          <=> (\A x, y \in q : w[x].signal = w[y].signal)
  BY <1>1
<1> QED
  BY <1>2 DEF Agreement

LEMMA DecidedScore ==
  ASSUME NEW w, NEW bracketOf
  PROVE  /\ Polarization(Decided(w)) = Polarization(w)
         /\ \A roster, weighting, reach :
              NetScore(Decided(w), roster, weighting, bracketOf, reach) = NetScore(w, roster, weighting, bracketOf, reach)
         /\ Majority(Decided(w), Active(w)) = Majority(w, DOMAIN w)
         /\ \A roster, x : Dissenters(Decided(w), roster, bracketOf, x) = Dissenters(w, roster, bracketOf, x)
         /\ \A groups : PairwiseAgreement(Decided(w), groups) = PairwiseAgreement(w, groups)
         /\ \A groups, roster :
              CrossGroupAgreement(Decided(w), groups, roster, bracketOf) = CrossGroupAgreement(w, groups, roster, bracketOf)
<1> DEFINE a == Decided(w)
           A == Active(w)
<1>1. /\ DOMAIN a = A /\ Active(a) = A /\ \A x \in A : a[x] = w[x]
      /\ \A S : Voters(a, S) = Voters(w, S) /\ Voters(w, S) \subseteq A
      /\ A \subseteq DOMAIN w
  BY DecidedIsActive DEF Voters, Active
<1>2. \A p : \A S \in SUBSET A : Holding(a, S, p) = Holding(w, S, p)
  BY <1>1 DEF Holding
<1>3. \A p \in Positions : Holding(w, DOMAIN w, p) = Holding(w, A, p)
  <2>1. \A p \in Positions : Holding(w, DOMAIN w, p) = Holding(w, DOMAIN w \cap A, p)
    BY DecidedIsActive
  <2> QED
    BY <1>1, <2>1 DEF Holding
<1> HIDE DEF a, A
<1>4. Polarization(a) = Polarization(w)
  <2>1. /\ Active(a) = A /\ Active(w) = A
        /\ Holding(a, A, "buy") = Holding(w, A, "buy") /\ Holding(a, A, "sell") = Holding(w, A, "sell")
    BY <1>1, <1>2 DEF A
  <2> QED
    BY <2>1 DEF Polarization
<1>5. ASSUME NEW roster, NEW weighting, NEW reach
      PROVE  NetScore(a, roster, weighting, bracketOf, reach) = NetScore(w, roster, weighting, bracketOf, reach)
  <2> DEFINE voters == Voters(w, roster)
             weight == Weights(voters, weighting, bracketOf, reach)
  <2>1. Voters(a, roster) = voters
    BY <1>1
  <2>2. [x \in voters |-> weight[x] * Direction(a[x].signal) * a[x].conf]
          = [x \in voters |-> weight[x] * Direction(w[x].signal) * w[x].conf]
    <3> HIDE DEF weight
    <3>1. \A x \in voters : a[x] = w[x]
      BY <1>1
    <3> QED
      BY <3>1
  <2> HIDE DEF weight
  <2> QED
    BY <2>1, <2>2 DEF NetScore, weight
<1>6. Majority(a, A) = Majority(w, DOMAIN w)
  <2>1. \A p \in Positions : Cardinality(Holding(a, A, p)) = Cardinality(Holding(w, DOMAIN w, p))
    BY <1>2, <1>3
  <2> DEFINE Tallies(v, S) == {Cardinality(Holding(v, S, p)) : p \in Positions}
             Leading(v, S) == {p \in Positions : Cardinality(Holding(v, S, p)) = Max(Tallies(v, S))}
  <2>2. Tallies(a, A) = Tallies(w, DOMAIN w)
    BY <2>1
  <2>3. Leading(a, A) = Leading(w, DOMAIN w)
    <3> HIDE DEF Tallies
    <3> QED
      BY <2>1, <2>2
  <2>4. \A v, S : Majority(v, S) = IF Max(Tallies(v, S)) = 0 THEN {}
                                   ELSE IF "buy" \in Leading(v, S) THEN {"buy"}
                                   ELSE IF "sell" \in Leading(v, S) THEN {"sell"} ELSE {"hold"}
    BY DEF Majority
  <2> HIDE DEF Tallies, Leading
  <2> QED
    BY <2>2, <2>3, <2>4
<1>7. ASSUME NEW roster, NEW x
      PROVE  Dissenters(a, roster, bracketOf, x) = Dissenters(w, roster, bracketOf, x)
  <2> DEFINE S == Members(Voters(w, roster), bracketOf, x)
  <2>1. Members(Voters(a, roster), bracketOf, x) = S
    BY <1>1
  <2>2. \A p : Holding(a, S, p) = Holding(w, S, p)
    <3>1. S \in SUBSET A
      BY <1>1 DEF Members
    <3> QED
      BY <1>2, <3>1
  <2> QED
    BY <2>1, <2>2 DEF Dissenters
<1>8. ASSUME NEW groups
      PROVE  PairwiseAgreement(a, groups) = PairwiseAgreement(w, groups)
  <2> DEFINE couples == UNION {kSubset(2, g \cap A) : g \in groups}
  <2>1. \A q \in couples : q \subseteq Active(w)
    BY DEF kSubset, A
  <2>2. PairwiseAgreement(a, groups) = Agreement(a, couples) /\ PairwiseAgreement(w, groups) = Agreement(w, couples)
    BY <1>1 DEF PairwiseAgreement, A
  <2> HIDE DEF couples
  <2>3. Agreement(a, couples) = Agreement(w, couples)
    BY <2>1, DecidedAgree DEF a
  <2> QED
    BY <2>2, <2>3
<1>9. ASSUME NEW groups, NEW roster
      PROVE  CrossGroupAgreement(a, groups, roster, bracketOf) = CrossGroupAgreement(w, groups, roster, bracketOf)
  <2> DEFINE S == Voters(w, roster)
             couples == UNION {{q \in kSubset(2, Members(S, bracketOf, b)) : ~ \E g \in groups : q \subseteq g} :
                               b \in BracketsOf(S, bracketOf)}
  <2>1. \A q \in couples : q \subseteq Active(w)
    <3>1. \A b : Members(S, bracketOf, b) \subseteq Active(w)
      BY DEF Members, Voters
    <3>2. \A b : \A q \in kSubset(2, Members(S, bracketOf, b)) : q \subseteq Active(w)
      BY <3>1 DEF kSubset
    <3> HIDE DEF S
    <3> QED
      BY <3>2
  <2>2. Voters(a, roster) = S
    BY <1>1
  <2>3. CrossGroupAgreement(a, groups, roster, bracketOf) = Agreement(a, couples)
        /\ CrossGroupAgreement(w, groups, roster, bracketOf) = Agreement(w, couples)
    <3> HIDE DEF S
    <3> QED
      BY <2>2 DEF CrossGroupAgreement, S
  <2> HIDE DEF couples
  <2>4. Agreement(a, couples) = Agreement(w, couples)
    BY <2>1, DecidedAgree DEF a
  <2> QED
    BY <2>3, <2>4
<1> QED
  BY <1>4, <1>5, <1>6, <1>7, <1>8, <1>9 DEF a, A

\* "PARSE_ERROR is excluded everywhere" (consensus.py:4): an agent whose answer
\* failed might as well not have been asked, whatever the roster, its brackets,
\* the groups it is compared in and the weighting, for every measure of a round
\* and of a change between rounds.
THEOREM FailuresWeighNothing ==
  ASSUME Given("moves") => TwoRounds(input)
  PROVE  FailuresCountNowhere
<1> SUFFICES ASSUME Given("moves")
             PROVE  FailuresCountNowhere
  BY DEF FailuresCountNowhere
<1> DEFINE before == input.before
           after == input.after
           b == Decided(before)
           a == Decided(after)
<1>1. DOMAIN after = input.agents
  BY DEF TwoRounds, AnswersOf
<1> HIDE DEF before, after
<1>2. \A group : SplitFlips(b, a, group) = SplitFlips(before, after, group)
  BY DecidedMove DEF SplitFlips
<1>3. /\ Shifts(b, a) = Shifts(before, after) /\ Transitions(b, a) = Transitions(before, after)
      /\ Conformity(b, a, input.shown) = Conformity(before, after, input.shown)
      /\ ConfidenceDelta(b, a) = ConfidenceDelta(before, after)
  BY DecidedMove
<1>4. DOMAIN a = Active(after)
  BY DecidedIsActive
<1>5. /\ Polarization(a) = Polarization(after)
      /\ \A weighting : NetScore(a, input.agents, weighting, input.bracketOf, input.reach)
                          = NetScore(after, input.agents, weighting, input.bracketOf, input.reach)
      /\ Majority(a, DOMAIN a) = Majority(after, input.agents)
      /\ \A x : Dissenters(a, input.agents, input.bracketOf, x) = Dissenters(after, input.agents, input.bracketOf, x)
      /\ \A groups : PairwiseAgreement(a, groups) = PairwiseAgreement(after, groups)
      /\ \A groups : CrossGroupAgreement(a, groups, input.agents, input.bracketOf)
                       = CrossGroupAgreement(after, groups, input.agents, input.bracketOf)
  <2>1. Majority(a, Active(after)) = Majority(after, DOMAIN after)
    BY DecidedScore
  <2> HIDE DEF a
  <2> QED
    BY <1>1, <1>4, <2>1, DecidedScore DEF a
<1>6. b = [x \in Active(before) |-> before[x]] /\ a = [x \in Active(after) |-> after[x]]
  BY DEF Decided
<1> HIDE DEF a, b
<1> QED
  BY <1>2, <1>3, <1>5, <1>6 DEF FailuresCountNowhere, before, after

\* Whatever the weighting, a vote has a weight that is a natural number.
LEMMA WeightsAreNatural ==
  ASSUME NEW voters, IsFiniteSet(voters), NEW bracketOf, NEW reach, \A a \in voters : reach[a] \in Nat,
         NEW weighting \in {"headcount", "reach", "bracket_equal"}
  PROVE  /\ DOMAIN Weights(voters, weighting, bracketOf, reach) = voters
         /\ \A a \in voters : Weights(voters, weighting, bracketOf, reach)[a] \in Nat
         /\ weighting = "headcount" => \A a \in voters : Weights(voters, weighting, bracketOf, reach)[a] = 1
<1> DEFINE brackets == BracketsOf(voters, bracketOf)
           size == [b \in brackets |-> Cardinality(Members(voters, bracketOf, b))]
           common == ProductSet(Range(size))
<1>1. Weights(voters, weighting, bracketOf, reach) =
        [a \in voters |-> CASE weighting = "headcount" -> 1
                            [] weighting = "reach" -> reach[a]
                            [] weighting = "bracket_equal" -> common \div size[bracketOf[a]]]
  BY DEF Weights
<1>2. \A b \in brackets : size[b] \in Nat \ {0}
  <2> SUFFICES ASSUME NEW b \in brackets
               PROVE  Cardinality(Members(voters, bracketOf, b)) \in Nat \ {0}
    OBVIOUS
  <2> DEFINE S == Members(voters, bracketOf, b)
  <2>1. S \in SUBSET voters /\ S # {}
    BY DEF BracketsOf, Members
  <2> HIDE DEF S
  <2>2. IsFiniteSet(S) /\ Cardinality(S) \in Nat /\ Cardinality(S) # 0
    BY <2>1, FS_Subset, FS_CardinalityType, FS_EmptySet
  <2> QED
    BY <2>2 DEF S
<1>3. IsFiniteSet(brackets)
  <2> DEFINE bracket == [a \in voters |-> bracketOf[a]]
  <2>1. bracket \in Surjection(voters, brackets)
    BY Fun_IsSurj DEF BracketsOf
  <2> HIDE DEF bracket, brackets
  <2> QED
    BY <2>1, FS_Surjection
<1>4. Range(size) \subseteq Nat /\ IsFiniteSet(Range(size))
  <2>1. size \in Surjection(brackets, Range(size))
    <3>1. DOMAIN size = brackets
      OBVIOUS
    <3>2. size \in [brackets -> Range(size)] /\ \A n \in Range(size) : \E b \in brackets : size[b] = n
      BY DEF Range
    <3> HIDE DEF size, brackets
    <3> QED
      BY <3>2, Fun_IsSurj
  <2>2. \A n \in Range(size) : \E b \in brackets : n = size[b]
    BY DEF Range
  <2> HIDE DEF size, brackets
  <2> QED
    BY <1>2, <1>3, <2>1, <2>2, FS_Surjection
<1>5. common \in Nat
  <2> DEFINE sizes == Range(size)
  <2>1. IsFiniteSet(sizes) /\ sizes \subseteq Nat
    BY <1>4
  <2> HIDE DEF sizes
  <2>2. ProductSet(sizes) \in Nat
    BY <2>1, ProductIsNat
  <2> QED
    BY <2>2 DEF sizes
<1>6. \A a \in voters : common \div size[bracketOf[a]] \in Nat
  <2> SUFFICES ASSUME NEW a \in voters
               PROVE  common \div size[bracketOf[a]] \in Nat
    OBVIOUS
  <2>1. bracketOf[a] \in brackets
    BY DEF BracketsOf
  <2> DEFINE n == size[bracketOf[a]]
             k == common
  <2>2. n \in Nat \ {0} /\ k \in Nat
    <3> HIDE DEF size, brackets, common
    <3> QED
      BY <1>2, <1>5, <2>1
  <2> HIDE DEF n, k
  <2>3. k \div n \in Nat
    BY <2>2
  <2> QED
    BY <2>3 DEF n, k
<1> HIDE DEF size, common, brackets
<1>7. \A a \in voters : (CASE weighting = "headcount" -> 1
                            [] weighting = "reach" -> reach[a]
                            [] weighting = "bracket_equal" -> common \div size[bracketOf[a]]) \in Nat
  <2> SUFFICES ASSUME NEW a \in voters
               PROVE  (CASE weighting = "headcount" -> 1
                         [] weighting = "reach" -> reach[a]
                         [] weighting = "bracket_equal" -> common \div size[bracketOf[a]]) \in Nat
    OBVIOUS
  <2> DEFINE q == common \div size[bracketOf[a]]
  <2>1. q \in Nat /\ reach[a] \in Nat
    BY <1>6
  <2> HIDE DEF q
  <2>2. CASE weighting = "headcount"
    BY <2>2
  <2>3. CASE weighting = "reach"
    BY <2>1, <2>3
  <2>4. CASE weighting = "bracket_equal"
    BY <2>1, <2>4 DEF q
  <2> QED
    BY <2>2, <2>3, <2>4
<1> QED
  BY <1>1, <1>7

\* A score as a quotient of two sums.
Pulls(w, voters, weight) == [a \in voters |-> weight[a] * Direction(w[a].signal) * w[a].conf]

LEMMA NetIs ==
  ASSUME NEW w, NEW roster, NEW weighting, NEW bracketOf, NEW reach, NEW voters, NEW weight,
         voters = Voters(w, roster), weight = Weights(voters, weighting, bracketOf, reach)
  PROVE  NetScore(w, roster, weighting, bracketOf, reach) =
           IF SumFunctionOnSet(weight, voters) <= 0 THEN <<0, 1>>
           ELSE <<SumFunctionOnSet(Pulls(w, voters, weight), voters), SumFunctionOnSet(weight, voters)>>
<1>1. DOMAIN weight = voters
  BY DEF Weights
<1>2. DOMAIN Pulls(w, voters, weight) = voters
  BY DEF Pulls
<1>3. NetScore(w, roster, weighting, bracketOf, reach) =
        IF SumFunction(weight) <= 0 THEN <<0, 1>>
        ELSE <<SumFunction(Pulls(w, voters, weight)), SumFunction(weight)>>
  BY DEF NetScore, Pulls
<1> QED
  BY <1>1, <1>2, <1>3 DEF SumFunction

\* One vote pulls the score up or down by its weight at the most.
LEMMA PullIsBounded ==
  ASSUME NEW n \in Nat, NEW c \in 0..Unit, NEW p
  PROVE  LET pull == n * Direction(p) * c IN
         /\ pull \in Int /\ -Unit * n <= pull /\ pull <= Unit * n
         /\ Direction(p) = 0 => pull = 0
         /\ Direction(p) = 1 => pull = n * c /\ 0 <= pull
         /\ Direction(p) = -1 => pull = -(n * c)
<1>1. Unit \in Nat /\ c \in Nat /\ Unit - c \in Nat
  BY ScoringAssumption
<1> DEFINE d == n * c
           e == n * (Unit - c)
<1>2. d \in Nat /\ e \in Nat /\ d + e = n * Unit
  <2>1. d \in Nat /\ e \in Nat
    BY <1>1
  <2>2. n * (Unit - c) = n * Unit - n * c
    BY <1>1
  <2>3. n * Unit \in Nat /\ n * c \in Nat
    BY <1>1
  <2> QED
    BY <2>1, <2>2, <2>3
<1>3. Direction(p) \in {-1, 0, 1}
  BY DEF Direction
<1>4. n * 1 * c = d /\ n * 0 * c = 0 /\ n * (-1) * c = -d
  BY <1>1
<1>5. Unit * n = d + e /\ -Unit * n = -(d + e)
  BY <1>1, <1>2
<1> HIDE DEF d, e
<1>6. CASE Direction(p) = 1
  BY <1>2, <1>4, <1>5, <1>6 DEF d
<1>7. CASE Direction(p) = 0
  BY <1>2, <1>4, <1>5, <1>7
<1>8. CASE Direction(p) = -1
  BY <1>2, <1>4, <1>5, <1>8 DEF d
<1> QED
  BY <1>3, <1>6, <1>7, <1>8

\* A score is the sum of the pulls over the sum of the weights, of at least 1.
LEMMA ScoreIsThere ==
  ASSUME NEW A, IsFiniteSet(A), NEW w \in AnswersOf(A), NEW bracketOf, NEW reach \in [A -> Nat],
         NEW weighting \in {"headcount", "reach", "bracket_equal"},
         NEW voters, NEW weight, NEW pull, NEW total, NEW sum,
         voters = Voters(w, A), weight = Weights(voters, weighting, bracketOf, reach),
         pull = Pulls(w, voters, weight),
         total = SumFunctionOnSet(weight, voters), sum = SumFunctionOnSet(pull, voters)
  PROVE  /\ IsFiniteSet(voters) /\ voters \subseteq A
         /\ \A a \in voters : /\ weight[a] \in Nat /\ pull[a] \in Int /\ w[a].conf \in 0..Unit
                              /\ pull[a] = weight[a] * Direction(w[a].signal) * w[a].conf
                              /\ -Unit * weight[a] <= pull[a] /\ pull[a] <= Unit * weight[a]
         /\ total \in Int /\ sum \in Int
         /\ NetScore(w, A, weighting, bracketOf, reach) = IF total <= 0 THEN <<0, 1>> ELSE <<sum, total>>
<1>1. voters \in SUBSET A /\ DOMAIN w = A
  BY DEF Voters, AnswersOf
<1>2. IsFiniteSet(voters)
  BY <1>1, FS_Subset
<1>3. \A a \in voters : weight[a] \in Nat
  <2>1. \A a \in voters : reach[a] \in Nat
    BY <1>1
  <2> QED
    BY <1>2, <2>1, WeightsAreNatural
<1>4. ASSUME NEW a \in voters
      PROVE  /\ weight[a] \in Nat /\ pull[a] \in Int /\ w[a].conf \in 0..Unit
             /\ pull[a] = weight[a] * Direction(w[a].signal) * w[a].conf
             /\ -Unit * weight[a] <= pull[a] /\ pull[a] <= Unit * weight[a]
  <2>1. w[a].conf \in 0..Unit
    BY <1>1 DEF AnswersOf
  <2>2. pull[a] = weight[a] * Direction(w[a].signal) * w[a].conf
    BY DEF Pulls
  <2> DEFINE n == weight[a]
             c == w[a].conf
             p == w[a].signal
  <2>3. n \in Nat /\ c \in 0..Unit
    BY <1>3, <2>1
  <2> HIDE DEF n, c, p
  <2>4. n * Direction(p) * c \in Int /\ -Unit * n <= n * Direction(p) * c /\ n * Direction(p) * c <= Unit * n
    BY <2>3, PullIsBounded
  <2> QED
    BY <1>3, <2>1, <2>2, <2>4 DEF n, c, p
<1>5. total \in Int /\ sum \in Int
  <2>1. (\A a \in voters : weight[a] \in Int) /\ (\A a \in voters : pull[a] \in Int)
    BY <1>4
  <2> QED
    BY <1>2, <2>1, SumIsInt
<1>6. NetScore(w, A, weighting, bracketOf, reach) = IF total <= 0 THEN <<0, 1>> ELSE <<sum, total>>
  BY NetIs
<1> QED
  BY <1>1, <1>2, <1>4, <1>5, <1>6

\* A score is a number between -1 and 1 (consensus.py net_score_votes).
LEMMA ScoreInRange ==
  ASSUME NEW A, IsFiniteSet(A), NEW w \in AnswersOf(A), NEW bracketOf, NEW reach \in [A -> Nat],
         NEW weighting \in {"headcount", "reach", "bracket_equal"}
  PROVE  LET s == NetScore(w, A, weighting, bracketOf, reach) IN
         /\ s = <<s[1], s[2]>> /\ s[1] \in Int /\ s[2] \in Nat \ {0}
         /\ AtMost(s, <<Unit, 1>>) /\ AtMost(<<-Unit, 1>>, s)
<1> DEFINE voters == Voters(w, A)
           weight == Weights(voters, weighting, bracketOf, reach)
           pull == Pulls(w, voters, weight)
           total == SumFunctionOnSet(weight, voters)
           sum == SumFunctionOnSet(pull, voters)
           s == NetScore(w, A, weighting, bracketOf, reach)
           up == [a \in voters |-> Unit * weight[a]]
           down == [a \in voters |-> -Unit * weight[a]]
<1>1. /\ IsFiniteSet(voters)
      /\ \A a \in voters : /\ weight[a] \in Nat /\ pull[a] \in Int
                           /\ -Unit * weight[a] <= pull[a] /\ pull[a] <= Unit * weight[a]
      /\ total \in Int /\ sum \in Int
      /\ s = IF total <= 0 THEN <<0, 1>> ELSE <<sum, total>>
  <2> DEFINE t == total
             m == sum
             v == voters
             g == weight
             q == pull
  <2>1. v = Voters(w, A) /\ g = Weights(v, weighting, bracketOf, reach) /\ q = Pulls(w, v, g)
        /\ t = SumFunctionOnSet(g, v) /\ m = SumFunctionOnSet(q, v)
    OBVIOUS
  <2> HIDE DEF t, m, v, g, q
  <2>2. /\ IsFiniteSet(v)
        /\ \A a \in v : /\ g[a] \in Nat /\ q[a] \in Int
                        /\ -Unit * g[a] <= q[a] /\ q[a] <= Unit * g[a]
        /\ t \in Int /\ m \in Int
        /\ NetScore(w, A, weighting, bracketOf, reach) = IF t <= 0 THEN <<0, 1>> ELSE <<m, t>>
    BY <2>1, ScoreIsThere
  <2> QED
    BY <2>2 DEF t, m, v, g, q
<1>2. Unit \in Nat /\ -Unit \in Int
  BY ScoringAssumption
<1> HIDE DEF voters, weight, pull, s
<1>3. /\ \A a \in voters : weight[a] \in Int /\ up[a] = Unit * weight[a]
      /\ \A a \in voters : weight[a] \in Int /\ down[a] = -Unit * weight[a]
      /\ \A a \in voters : pull[a] \in Int /\ up[a] \in Int /\ pull[a] <= up[a]
      /\ \A a \in voters : down[a] \in Int /\ pull[a] \in Int /\ down[a] <= pull[a]
  BY <1>1, <1>2
<1> HIDE DEF up, down
<1>4. SumFunctionOnSet(up, voters) = Unit * SumFunctionOnSet(weight, voters)
  BY <1>1, <1>2, <1>3, SumScales
<1>5. SumFunctionOnSet(down, voters) = -Unit * SumFunctionOnSet(weight, voters)
  <2> DEFINE low == -Unit
  <2>1. low \in Int /\ \A a \in voters : weight[a] \in Int /\ down[a] = low * weight[a]
    BY <1>2, <1>3
  <2> DEFINE n == SumFunctionOnSet(weight, voters)
  <2>3. n \in Int /\ low * n = -Unit * n
    <3>1. n \in Int
      BY <1>1
    <3> HIDE DEF n
    <3> QED
      BY <1>2, <3>1
  <2> HIDE DEF low
  <2>2. SumFunctionOnSet(down, voters) = low * SumFunctionOnSet(weight, voters)
    BY <1>1, <2>1, SumScales
  <2> QED
    BY <2>2, <2>3
<1>6. sum <= SumFunctionOnSet(up, voters)
  BY <1>1, <1>3, SumMonotone
<1>7. SumFunctionOnSet(down, voters) <= sum
  BY <1>1, <1>3, SumMonotone
<1> DEFINE most == SumFunctionOnSet(up, voters)
           least == SumFunctionOnSet(down, voters)
<1> HIDE DEF total, sum
<1>8. sum <= Unit * total /\ -Unit * total <= sum
  <2>1. most = Unit * total /\ least = -Unit * total /\ sum <= most /\ least <= sum
    BY <1>4, <1>5, <1>6, <1>7 DEF total
  <2> HIDE DEF most, least
  <2> QED
    BY <2>1
<1>9. CASE total <= 0
  <2>1. s = <<0, 1>>
    BY <1>1, <1>9
  <2>2. s[1] = 0 /\ s[2] = 1 /\ AtMost(s, <<Unit, 1>>) /\ AtMost(<<-Unit, 1>>, s)
    BY <1>2, <2>1 DEF AtMost
  <2>3. s = <<s[1], s[2]>> /\ s[1] \in Int /\ s[2] \in Nat \ {0}
    BY <2>1, <2>2
  <2> QED
    BY <2>2, <2>3 DEF s
<1>10. CASE ~(total <= 0)
  <2>1. s = <<sum, total>> /\ total \in Nat \ {0}
    BY <1>1, <1>10
  <2>2. sum * 1 <= Unit * total /\ -Unit * total <= sum * 1
    BY <1>1, <1>8
  <2>3. s[1] = sum /\ s[2] = total
    BY <2>1
  <2>4. AtMost(s, <<Unit, 1>>) /\ AtMost(<<-Unit, 1>>, s)
    <3>1. -Unit * total = (-Unit) * total
      BY <1>1, <1>2
    <3> QED
      BY <2>2, <2>3, <3>1 DEF AtMost
  <2>5. s = <<s[1], s[2]>> /\ s[1] \in Int /\ s[2] \in Nat \ {0}
    BY <1>1, <2>1, <2>3
  <2> QED
    BY <2>4, <2>5 DEF s
<1> QED
  BY <1>9, <1>10

\* Buy and sell change places: as many weights, and every pull the other way.
LEMMA MirrorIs ==
  ASSUME Positions = {"buy", "sell", "hold"}, NEW A, NEW w \in AnswersOf(A)
  PROVE  /\ Mirror(w) \in AnswersOf(A) /\ Voters(Mirror(w), A) = Voters(w, A)
         /\ \A a \in A : /\ Mirror(w)[a].conf = w[a].conf
                         /\ Direction(Mirror(w)[a].signal) = -Direction(w[a].signal)
<1>1. DOMAIN w = A /\ \A a \in A : w[a] \in [signal : Signals, cited : SUBSET A, conf : 0..Unit]
  BY DEF AnswersOf
<1> DEFINE turned(p) == CASE p = "buy" -> "sell" [] p = "sell" -> "buy" [] OTHER -> p
<1>2. DOMAIN Mirror(w) = A /\ \A a \in A : Mirror(w)[a] = [w[a] EXCEPT !.signal = turned(w[a].signal)]
  BY <1>1 DEF Mirror
<1>3. \A p \in Signals : /\ turned(p) \in Signals /\ Direction(turned(p)) = -Direction(p)
                         /\ turned(p) = ParseError <=> p = ParseError
  BY DEF Signals, Direction, ParseError
<1> HIDE DEF turned
<1>4. \A a \in A : /\ Mirror(w)[a] \in [signal : Signals, cited : SUBSET A, conf : 0..Unit]
                   /\ Mirror(w)[a].conf = w[a].conf /\ Mirror(w)[a].signal = turned(w[a].signal)
  BY <1>1, <1>2, <1>3
<1>5. Mirror(w) \in AnswersOf(A)
  <2>1. Mirror(w) = [a \in A |-> Mirror(w)[a]]
    BY <1>1 DEF Mirror
  <2> QED
    BY <1>4, <2>1 DEF AnswersOf
<1>6. Voters(Mirror(w), A) = Voters(w, A)
  BY <1>1, <1>2, <1>3, <1>4 DEF Voters, Active, Failed
<1> QED
  BY <1>1, <1>3, <1>4, <1>5, <1>6

LEMMA ScoreMirrors ==
  ASSUME Positions = {"buy", "sell", "hold"},
         NEW A, IsFiniteSet(A), NEW w \in AnswersOf(A), NEW bracketOf, NEW reach \in [A -> Nat],
         NEW weighting \in {"headcount", "reach", "bracket_equal"}
  PROVE  LET s == NetScore(w, A, weighting, bracketOf, reach) IN
         SamePair(NetScore(Mirror(w), A, weighting, bracketOf, reach), <<-s[1], s[2]>>)
<1> DEFINE m == Mirror(w)
           voters == Voters(w, A)
           weight == Weights(voters, weighting, bracketOf, reach)
           p == Pulls(w, voters, weight)
           q == Pulls(m, voters, weight)
           total == SumFunctionOnSet(weight, voters)
           sum == SumFunctionOnSet(p, voters)
           mum == SumFunctionOnSet(q, voters)
<1>1. /\ m \in AnswersOf(A) /\ voters = Voters(m, A)
      /\ \A a \in A : m[a].conf = w[a].conf /\ Direction(m[a].signal) = -Direction(w[a].signal)
  BY MirrorIs
<1>2. /\ voters = Voters(w, A) /\ weight = Weights(voters, weighting, bracketOf, reach)
      /\ p = Pulls(w, voters, weight) /\ q = Pulls(m, voters, weight)
      /\ total = SumFunctionOnSet(weight, voters)
      /\ sum = SumFunctionOnSet(p, voters) /\ mum = SumFunctionOnSet(q, voters)
  OBVIOUS
<1> HIDE DEF m, voters, weight, p, q, total, sum, mum
<1>3. /\ IsFiniteSet(voters) /\ voters \subseteq A
      /\ \A a \in voters : /\ weight[a] \in Nat /\ p[a] \in Int /\ w[a].conf \in 0..Unit
                           /\ p[a] = weight[a] * Direction(w[a].signal) * w[a].conf
      /\ total \in Int /\ sum \in Int
      /\ NetScore(w, A, weighting, bracketOf, reach) = IF total <= 0 THEN <<0, 1>> ELSE <<sum, total>>
  BY <1>2, ScoreIsThere
<1>4. /\ \A a \in voters : q[a] = weight[a] * Direction(m[a].signal) * m[a].conf
      /\ mum \in Int
      /\ NetScore(m, A, weighting, bracketOf, reach) = IF total <= 0 THEN <<0, 1>> ELSE <<mum, total>>
  <2>1. /\ m \in AnswersOf(A) /\ voters = Voters(m, A) /\ weight = Weights(voters, weighting, bracketOf, reach)
        /\ q = Pulls(m, voters, weight)
        /\ total = SumFunctionOnSet(weight, voters) /\ mum = SumFunctionOnSet(q, voters)
    BY <1>1, <1>2
  <2> QED
    BY <2>1, ScoreIsThere
<1>5. \A a \in voters : p[a] \in Int /\ q[a] = (-1) * p[a]
  <2> SUFFICES ASSUME NEW a \in voters
               PROVE  p[a] \in Int /\ q[a] = (-1) * p[a]
    OBVIOUS
  <2> DEFINE n == weight[a]
             d == Direction(w[a].signal)
             c == w[a].conf
  <2>1. n \in Int /\ d \in Int /\ c \in Int
    BY <1>3, ScoringAssumption DEF Direction
  <2>2. p[a] = n * d * c /\ q[a] = n * (-d) * c
    BY <1>1, <1>3, <1>4
  <2> HIDE DEF n, d, c
  <2>3. n * (-d) * c = -(n * d * c) /\ n * d * c \in Int
    BY <2>1
  <2> QED
    BY <2>2, <2>3
<1>6. mum = (-1) * sum
  <2> DEFINE k == -1
  <2>1. k \in Int /\ \A a \in voters : p[a] \in Int /\ q[a] = k * p[a]
    BY <1>5
  <2> HIDE DEF k
  <2>2. SumFunctionOnSet(q, voters) = k * SumFunctionOnSet(p, voters)
    BY <1>3, <2>1, SumScales
  <2> QED
    BY <1>2, <2>2 DEF k
<1>7. CASE total <= 0
  BY <1>3, <1>4, <1>7 DEF SamePair, m
<1>8. CASE ~(total <= 0)
  <2>1. NetScore(w, A, weighting, bracketOf, reach) = <<sum, total>> /\ NetScore(m, A, weighting, bracketOf, reach) = <<mum, total>>
    BY <1>3, <1>4, <1>8
  <2>2. mum * total = (-sum) * total
    BY <1>3, <1>4, <1>6
  <2> QED
    BY <2>1, <2>2 DEF SamePair, m
<1> QED
  BY <1>7, <1>8

\* A score does not fall when one agent turns from hold to buy.
LEMMA ScoreRises ==
  ASSUME Positions = {"buy", "sell", "hold"},
         NEW A, IsFiniteSet(A), NEW w \in AnswersOf(A), NEW bracketOf, NEW reach \in [A -> Nat],
         NEW weighting \in {"headcount", "reach", "bracket_equal"}, NEW b \in A, w[b].signal = "hold"
  PROVE  AtMost(NetScore(w, A, weighting, bracketOf, reach),
                NetScore([w EXCEPT ![b].signal = "buy"], A, weighting, bracketOf, reach))
<1> DEFINE m == [w EXCEPT ![b].signal = "buy"]
           voters == Voters(w, A)
           weight == Weights(voters, weighting, bracketOf, reach)
           p == Pulls(w, voters, weight)
           q == Pulls(m, voters, weight)
           total == SumFunctionOnSet(weight, voters)
           sum == SumFunctionOnSet(p, voters)
           mum == SumFunctionOnSet(q, voters)
<1>1. /\ m \in AnswersOf(A) /\ voters = Voters(m, A)
      /\ m[b].signal = "buy" /\ m[b].conf = w[b].conf /\ \A a \in A \ {b} : m[a] = w[a]
  <2>1. w \in [A -> [signal : Signals, cited : SUBSET A, conf : 0..Unit]] /\ "buy" \in Signals
    BY DEF AnswersOf, Signals
  <2>2. m \in [A -> [signal : Signals, cited : SUBSET A, conf : 0..Unit]]
        /\ m[b].signal = "buy" /\ m[b].conf = w[b].conf /\ \A a \in A \ {b} : m[a] = w[a]
    BY <2>1
  <2>3. voters = Voters(m, A)
    <3>1. DOMAIN m = A /\ DOMAIN w = A
      BY <2>1
    <3>2. \A a \in A : m[a].signal = ParseError <=> w[a].signal = ParseError
      <4>1. \A a \in A \ {b} : m[a].signal = w[a].signal
        BY <2>2
      <4> HIDE DEF m
      <4> QED
        BY <2>2, <4>1 DEF ParseError
    <3> HIDE DEF m
    <3> QED
      BY <3>1, <3>2 DEF Voters, Active, Failed
  <2> QED
    BY <2>2, <2>3 DEF AnswersOf
<1>2. /\ voters = Voters(w, A) /\ weight = Weights(voters, weighting, bracketOf, reach)
      /\ p = Pulls(w, voters, weight) /\ q = Pulls(m, voters, weight)
      /\ total = SumFunctionOnSet(weight, voters)
      /\ sum = SumFunctionOnSet(p, voters) /\ mum = SumFunctionOnSet(q, voters)
  OBVIOUS
<1> HIDE DEF m, voters, weight, p, q, total, sum, mum
<1>3. /\ IsFiniteSet(voters) /\ voters \subseteq A
      /\ \A a \in voters : /\ weight[a] \in Nat /\ p[a] \in Int /\ w[a].conf \in 0..Unit
                           /\ p[a] = weight[a] * Direction(w[a].signal) * w[a].conf
      /\ total \in Int /\ sum \in Int
      /\ NetScore(w, A, weighting, bracketOf, reach) = IF total <= 0 THEN <<0, 1>> ELSE <<sum, total>>
  BY <1>2, ScoreIsThere
<1>4. /\ \A a \in voters : q[a] \in Int /\ q[a] = weight[a] * Direction(m[a].signal) * m[a].conf
      /\ mum \in Int
      /\ NetScore(m, A, weighting, bracketOf, reach) = IF total <= 0 THEN <<0, 1>> ELSE <<mum, total>>
  <2>1. /\ m \in AnswersOf(A) /\ voters = Voters(m, A) /\ weight = Weights(voters, weighting, bracketOf, reach)
        /\ q = Pulls(m, voters, weight)
        /\ total = SumFunctionOnSet(weight, voters) /\ mum = SumFunctionOnSet(q, voters)
    BY <1>1, <1>2
  <2> QED
    BY <2>1, ScoreIsThere
<1>5. \A a \in voters : p[a] \in Int /\ q[a] \in Int /\ p[a] <= q[a]
  <2> SUFFICES ASSUME NEW a \in voters
               PROVE  p[a] <= q[a]
    BY <1>3, <1>4
  <2>1. CASE a = b
    <3> DEFINE n == weight[b]
               c == w[b].conf
    <3>1. n \in Nat /\ c \in 0..Unit
      BY <1>3, <2>1
    <3>2. p[a] = n * Direction("hold") * c /\ q[a] = n * Direction("buy") * c
      BY <1>1, <1>3, <1>4, <2>1
    <3> HIDE DEF n, c
    <3>3. n * Direction("hold") * c = 0
      <4>1. Direction("hold") = 0
        BY DEF Direction
      <4> QED
        BY <3>1, <4>1, PullIsBounded
    <3>4. 0 <= n * Direction("buy") * c
      <4>1. Direction("buy") = 1
        BY DEF Direction
      <4> QED
        BY <3>1, <4>1, PullIsBounded
    <3> QED
      BY <3>2, <3>3, <3>4
  <2>2. CASE a # b
    <3>1. p[a] = q[a]
      BY <1>1, <1>3, <1>4, <2>2
    <3> QED
      BY <1>3, <3>1
  <2> QED
    BY <2>1, <2>2
<1>6. sum <= mum
  BY <1>2, <1>3, <1>5, SumMonotone
<1>7. CASE total <= 0
  BY <1>3, <1>4, <1>7 DEF AtMost, m
<1>8. CASE ~(total <= 0)
  <2>1. NetScore(w, A, weighting, bracketOf, reach) = <<sum, total>> /\ NetScore(m, A, weighting, bracketOf, reach) = <<mum, total>>
    BY <1>3, <1>4, <1>8
  <2>2. sum * total <= mum * total
    <3>1. mum - sum \in Nat /\ total \in Nat
      BY <1>3, <1>4, <1>6, <1>8
    <3>2. (mum - sum) * total \in Nat /\ (mum - sum) * total = mum * total - sum * total
      BY <1>3, <1>4, <3>1
    <3>3. mum * total \in Int /\ sum * total \in Int
      BY <1>3, <1>4
    <3> QED
      BY <3>2, <3>3
  <2> QED
    BY <2>1, <2>2 DEF AtMost, m
<1> QED
  BY <1>7, <1>8

\* By headcount a score is the sum of what the votes lean over their number.
Leanings(w, S) == [a \in S |-> Direction(w[a].signal) * w[a].conf]

LEMMA HeadcountIs ==
  ASSUME NEW w, NEW roster, NEW bracketOf, NEW reach, NEW voters, voters = Voters(w, roster),
         IsFiniteSet(voters), \A a \in voters : w[a].conf \in Nat
  PROVE  NetScore(w, roster, "headcount", bracketOf, reach) =
           IF voters = {} THEN <<0, 1>> ELSE <<SumFunctionOnSet(Leanings(w, voters), voters), Cardinality(voters)>>
<1> DEFINE weight == Weights(voters, "headcount", bracketOf, reach)
           pull == Pulls(w, voters, weight)
           lean == Leanings(w, voters)
<1>1. weight = [a \in voters |-> 1]
  BY DEF Weights
<1>2. NetScore(w, roster, "headcount", bracketOf, reach) =
        IF SumFunctionOnSet(weight, voters) <= 0 THEN <<0, 1>>
        ELSE <<SumFunctionOnSet(pull, voters), SumFunctionOnSet(weight, voters)>>
  BY NetIs
<1>3. SumFunctionOnSet(weight, voters) = Cardinality(voters)
  <2>1. \A a \in voters : weight[a] = 1
    BY <1>1
  <2> HIDE DEF weight
  <2> QED
    BY <2>1, SumOnes
<1>4. SumFunctionOnSet(pull, voters) = SumFunctionOnSet(lean, voters)
  <2>1. \A a \in voters : lean[a] \in Int /\ pull[a] = lean[a]
    <3> SUFFICES ASSUME NEW a \in voters
                 PROVE  lean[a] \in Int /\ pull[a] = lean[a]
      OBVIOUS
    <3> DEFINE d == Direction(w[a].signal)
               c == w[a].conf
    <3>1. d \in Int /\ c \in Int
      BY DEF Direction
    <3>2. pull[a] = 1 * d * c /\ lean[a] = d * c
      BY <1>1 DEF Pulls, Leanings
    <3> HIDE DEF d, c
    <3>3. 1 * d * c = d * c /\ d * c \in Int
      BY <3>1
    <3> QED
      BY <3>2, <3>3
  <2> HIDE DEF pull, lean
  <2>2. SumFunctionOnSet(lean, voters) = SumFunctionOnSet(pull, voters)
    BY <2>1, SumEquals
  <2> QED
    BY <2>2
<1> HIDE DEF weight, pull, lean
<1>5. Cardinality(voters) \in Nat /\ (Cardinality(voters) = 0 <=> voters = {})
  BY FS_CardinalityType, FS_EmptySet
<1>6. Cardinality(voters) <= 0 <=> voters = {}
  BY <1>5
<1> QED
  BY <1>2, <1>3, <1>4, <1>6 DEF lean

\* Both programs that score a round by headcount have the same score.
LEMMA HeadcountsAgree ==
  ASSUME Positions = {"buy", "sell", "hold"},
         NEW A, IsFiniteSet(A), NEW w \in AnswersOf(A), NEW bracketOf, NEW reach
  PROVE  IF Active(w) = {} THEN NetScore(w, A, "headcount", bracketOf, reach) = <<0, 1>>
         ELSE NetScore(w, A, "headcount", bracketOf, reach) = HeadcountScore(w)
<1> DEFINE V == Active(w)
           votes == {a \in DOMAIN w : w[a].signal \in {"buy", "hold", "sell"}}
<1>1. DOMAIN w = A /\ \A a \in A : w[a].signal \in Signals /\ w[a].conf \in 0..Unit
  BY DEF AnswersOf
<1>2. V = Voters(w, A) /\ V \in SUBSET A
  BY <1>1 DEF Voters, Active
<1>3. votes = V
  BY <1>1 DEF Active, Failed, Signals, ParseError
<1>4. IsFiniteSet(V) /\ \A a \in V : w[a].conf \in Nat
  <2>1. \A a \in A : w[a].conf \in Nat
    BY <1>1, ScoringAssumption
  <2> HIDE DEF V
  <2> QED
    BY <1>2, <2>1, FS_Subset
<1> HIDE DEF V
<1>5. NetScore(w, A, "headcount", bracketOf, reach) =
        IF V = {} THEN <<0, 1>> ELSE <<SumFunctionOnSet(Leanings(w, V), V), Cardinality(V)>>
  BY <1>2, <1>4, HeadcountIs
<1>6. HeadcountScore(w) = <<SumFunctionOnSet(Leanings(w, votes), votes), Cardinality(votes)>>
  BY DEF HeadcountScore, SumFunction, Leanings
<1> HIDE DEF votes
<1>7. HeadcountScore(w) = <<SumFunctionOnSet(Leanings(w, V), V), Cardinality(V)>>
  BY <1>3, <1>6
<1> QED
  BY <1>5, <1>7 DEF V

\* A deadband is as wide on either side.
LEMMA LeansMirror ==
  ASSUME NEW n \in Int, NEW d \in Nat \ {0}
  PROVE  LeanFromScore(<<n, d>>, <<1, 2>>) = "buy" <=> LeanFromScore(<<-n, d>>, <<1, 2>>) = "sell"
<1>1. LeanFromScore(<<n, d>>, <<1, 2>>) = "buy" <=> n * 2 > 1 * d
  BY DEF LeanFromScore
<1>2. LeanFromScore(<<-n, d>>, <<1, 2>>) = "sell" <=> (-n) * 2 < (-1) * d
  BY DEF LeanFromScore
<1> QED
  BY <1>1, <1>2

\* Polarization is at most 1, in a round of half buyers and half sellers.
LEMMA PolarizationInRange ==
  ASSUME NEW A, IsFiniteSet(A), NEW w \in AnswersOf(A)
  PROVE  AtMost(Polarization(w), <<1, 1>>)
<1> DEFINE V == Active(w)
           Buy == Holding(w, V, "buy")
           Sell == Holding(w, V, "sell")
           n == Cardinality(V)
           b == Cardinality(Buy)
           s == Cardinality(Sell)
<1>1. V \in SUBSET A /\ Buy \in SUBSET V /\ Sell \in SUBSET V /\ Buy \cap Sell = {}
  BY DEF Active, AnswersOf, Holding
<1>2. Polarization(w) = IF n = 0 THEN <<0, 1>> ELSE <<4 * b * s, n * n>>
  BY DEF Polarization
<1>3. n \in Nat /\ b \in Nat /\ s \in Nat /\ b + s <= n
  <2> HIDE DEF V, Buy, Sell
  <2>1. IsFiniteSet(V) /\ IsFiniteSet(Buy) /\ IsFiniteSet(Sell)
    <3>1. IsFiniteSet(V)
      BY <1>1, FS_Subset
    <3> QED
      BY <1>1, <3>1, FS_Subset
  <2>2. n \in Nat /\ b \in Nat /\ s \in Nat
    BY <2>1, FS_CardinalityType
  <2> DEFINE U == Buy \cup Sell
  <2>3. Cardinality(U) = b + s - Cardinality(Buy \cap Sell)
    BY <2>1, FS_Union
  <2>4. Cardinality(Buy \cap Sell) = 0
    BY <1>1, FS_EmptySet
  <2>5. U \in SUBSET V
    BY <1>1
  <2> HIDE DEF U
  <2>6. Cardinality(U) <= n
    BY <2>1, <2>5, FS_Subset
  <2> HIDE DEF n, b, s
  <2> QED
    BY <2>2, <2>3, <2>4, <2>6
<1> HIDE DEF n, b, s
<1>4. 4 * b * s <= n * n
  <2> DEFINE m == b + s
  <2>1. m \in Nat /\ m <= n
    BY <1>3
  <2>2. m * m - 4 * b * s = (b - s) * (b - s) /\ (b - s) * (b - s) \in Nat
    <3> DEFINE d == b - s
    <3>1. d \in Int /\ b = s + d
      BY <1>3
    <3>2. d * d \in Nat
      <4> HIDE DEF d
      <4>1. CASE d >= 0
        BY <3>1, <4>1
      <4>2. CASE d < 0
        <5>1. -d \in Nat /\ d * d = (-d) * (-d)
          BY <3>1, <4>2
        <5> QED
          BY <5>1
      <4> QED
        BY <3>1, <4>1, <4>2
    <3>3. (b + s) * (b + s) - 4 * b * s = (b - s) * (b - s)
      BY <1>3
    <3> QED
      BY <3>2, <3>3
  <2>3. m * m <= n * n
    <3> HIDE DEF m
    <3>1. n - m \in Nat /\ n + m \in Nat
      BY <1>3, <2>1
    <3>2. (n - m) * (n + m) \in Nat
      BY <3>1
    <3>3. (n - m) * (n + m) = n * n - m * m
      BY <1>3, <2>1
    <3>4. n * n \in Int /\ m * m \in Int
      BY <1>3, <2>1
    <3> QED
      BY <3>2, <3>3, <3>4
  <2>4. m * m \in Int /\ n * n \in Int /\ 4 * b * s \in Int
    BY <1>3
  <2> DEFINE x == m * m
             y == 4 * b * s
             z == n * n
             v == (b - s) * (b - s)
  <2>5. x - y = v /\ v \in Nat /\ x <= z /\ x \in Int /\ y \in Int /\ z \in Int
    BY <2>2, <2>3, <2>4
  <2> HIDE DEF x, y, z, v
  <2>6. y <= z
    BY <2>5
  <2> QED
    BY <2>6 DEF y, z
<1>5. 4 * b * s \in Int /\ n * n \in Int
  BY <1>3
<1>6. CASE n = 0
  BY <1>2, <1>6 DEF AtMost
<1>7. CASE n # 0
  <2> DEFINE y == 4 * b * s
             z == n * n
  <2>1. Polarization(w) = <<y, z>> /\ y \in Int /\ z \in Int /\ y <= z
    BY <1>2, <1>4, <1>5, <1>7
  <2> HIDE DEF y, z
  <2> QED
    BY <2>1 DEF AtMost
<1> QED
  BY <1>6, <1>7

\* A bracket's summary has as many positions as members of it that decided.
LEMMA SummariesCountVoters ==
  ASSUME NEW A, IsFiniteSet(A), NEW w \in AnswersOf(A), NEW bracketOf, NEW b \in BracketsOf(A, bracketOf)
  PROVE  SumFunction(SummaryTable(w, A, bracketOf)[b]) = Cardinality(Members(Voters(w, A), bracketOf, b))
<1> DEFINE S == Members(Voters(w, A), bracketOf, b)
           T == Members(A, bracketOf, b)
           part == [p \in Positions |-> Holding(w, T, p)]
           row == [p \in Positions |-> Cardinality(Holding(w, T, p))]
<1>1. SummaryTable(w, A, bracketOf)[b] = row
  BY DEF SummaryTable
<1>2. \A a \in A : a \in DOMAIN w /\ w[a].signal \in Signals
  BY DEF AnswersOf
<1>3. \A p \in Positions : part[p] \in SUBSET A
  BY DEF Holding, Members
<1>4. \A p \in Positions : IsFiniteSet(part[p]) /\ row[p] = Cardinality(part[p])
  <2>1. \A p \in Positions : row[p] = Cardinality(part[p])
    OBVIOUS
  <2> HIDE DEF part, row
  <2> QED
    BY <1>3, <2>1, FS_Subset
<1>5. \A p, q \in Positions : p # q => part[p] \cap part[q] = {}
  BY DEF Holding
<1>6. \A p \in Positions : part[p] \subseteq S
  BY <1>2, RoundsAssumption DEF Holding, Members, Voters, Active, Failed
<1>7. \A a \in S : \E p \in Positions : a \in part[p]
  <2> SUFFICES ASSUME NEW a \in S
               PROVE  \E p \in Positions : a \in part[p]
    OBVIOUS
  <2>1. a \in T /\ w[a].signal \in Positions
    BY <1>2 DEF Members, Voters, Active, Failed, Signals
  <2> QED
    BY <2>1 DEF Holding
<1>8. DOMAIN row = Positions
  OBVIOUS
<1> HIDE DEF part, row, S
<1>9. SumFunctionOnSet(row, Positions) = Cardinality(S)
  BY <1>4, <1>5, <1>6, <1>7, RoundsAssumption, SumCounts
<1> QED
  BY <1>1, <1>8, <1>9 DEF SumFunction, S

\* The greatest of three numbers.
LEMMA GreatestOfThree ==
  ASSUME NEW x \in Nat, NEW y \in Nat, NEW z \in Nat
  PROVE  Max({x, y, z}) = IF x >= y /\ x >= z THEN x ELSE IF y >= z THEN y ELSE z
<1> DEFINE m == IF x >= y /\ x >= z THEN x ELSE IF y >= z THEN y ELSE z
<1>1. m \in {x, y, z} /\ \A n \in {x, y, z} : m >= n
  OBVIOUS
<1>2. \A k \in {x, y, z} : (\A n \in {x, y, z} : k >= n) => k = m
  OBVIOUS
<1> HIDE DEF m
<1>3. Max({x, y, z}) = m
  BY <1>1, <1>2 DEF Max
<1> QED
  BY <1>3 DEF m

\* Both programs that look for a majority break a tie alike: those who are not
\* with the majority are the dissenters.
LEMMA DissentersAreOutside ==
  ASSUME Positions = {"buy", "sell", "hold"},
         NEW A, IsFiniteSet(A), NEW w \in AnswersOf(A), NEW bracketOf, NEW b
  PROVE  LET S == Members(Voters(w, A), bracketOf, b) IN
         Dissenters(w, A, bracketOf, b) = S \ UNION {Holding(w, S, p) : p \in Majority(w, S)}
<1> DEFINE S == Members(Voters(w, A), bracketOf, b)
           Buy == Holding(w, S, "buy")
           Sell == Holding(w, S, "sell")
           Hold == Holding(w, S, "hold")
           x == Cardinality(Buy)
           y == Cardinality(Sell)
           z == Cardinality(Hold)
           m == IF x >= y /\ x >= z THEN x ELSE IF y >= z THEN y ELSE z
<1>1. S \in SUBSET A /\ \A a \in S : w[a].signal \in Positions
  BY DEF Members, Voters, Active, Failed, AnswersOf, Signals
<1>2. S = Buy \cup Sell \cup Hold
  BY <1>1 DEF Holding
<1>3. Dissenters(w, A, bracketOf, b) =
        S \ Holding(w, S, IF x >= y /\ x >= z THEN "buy" ELSE IF y >= z THEN "sell" ELSE "hold")
  BY DEF Dissenters
<1>4. Majority(w, S) = IF Max({x, y, z}) = 0 THEN {}
                       ELSE IF x = Max({x, y, z}) THEN {"buy"}
                       ELSE IF y = Max({x, y, z}) THEN {"sell"} ELSE {"hold"}
  <2> DEFINE Tally(p) == Cardinality(Holding(w, S, p))
             best == Max({Tally(p) : p \in Positions})
             leading == {p \in Positions : Tally(p) = best}
  <2>1. Majority(w, S) = IF best = 0 THEN {}
                         ELSE IF "buy" \in leading THEN {"buy"}
                         ELSE IF "sell" \in leading THEN {"sell"} ELSE {"hold"}
    BY DEF Majority
  <2>2. x = Tally("buy") /\ y = Tally("sell") /\ z = Tally("hold")
    OBVIOUS
  <2> HIDE DEF Tally, x, y, z, S
  <2>3. {Tally(p) : p \in Positions} = {x, y, z}
    BY <2>2
  <2>4. best = Max({x, y, z})
    BY <2>3
  <2>5. ("buy" \in leading <=> x = best) /\ ("sell" \in leading <=> y = best)
    BY <2>2
  <2> HIDE DEF best, leading
  <2> QED
    BY <2>1, <2>4, <2>5
<1>5. x \in Nat /\ y \in Nat /\ z \in Nat /\ (x = 0 <=> Buy = {}) /\ (y = 0 <=> Sell = {}) /\ (z = 0 <=> Hold = {})
  <2>1. Buy \in SUBSET A /\ Sell \in SUBSET A /\ Hold \in SUBSET A
    BY <1>1 DEF Holding
  <2> HIDE DEF Buy, Sell, Hold
  <2>2. IsFiniteSet(Buy) /\ IsFiniteSet(Sell) /\ IsFiniteSet(Hold)
    BY <2>1, FS_Subset
  <2> QED
    BY <2>2, FS_CardinalityType, FS_EmptySet
<1>6. Max({x, y, z}) = m
  <2> HIDE DEF x, y, z
  <2> QED
    BY <1>5, GreatestOfThree
<1> DEFINE p == IF x >= y /\ x >= z THEN "buy" ELSE IF y >= z THEN "sell" ELSE "hold"
<1>7. CASE m = 0
  <2>1. x = 0 /\ y = 0 /\ z = 0
    <3> HIDE DEF x, y, z
    <3> QED
      BY <1>5, <1>7
  <2>2. S = {}
    <3> HIDE DEF S, Buy, Sell, Hold
    <3> QED
      BY <1>2, <1>5, <2>1
  <2>3. Majority(w, S) = {}
    BY <1>4, <1>6, <1>7
  <2>4. Dissenters(w, A, bracketOf, b) = {}
    <3> HIDE DEF x, y, z
    <3> QED
      BY <1>3, <2>2
  <2> HIDE DEF m, x, y, z
  <2> QED
    BY <2>2, <2>3, <2>4
<1>8. CASE m # 0
  <2>1. Majority(w, S) = {p}
    <3> HIDE DEF x, y, z
    <3> QED
      BY <1>4, <1>5, <1>6, <1>8
  <2>2. Dissenters(w, A, bracketOf, b) = S \ Holding(w, S, p)
    BY <1>3
  <2> HIDE DEF m, x, y, z, p
  <2> QED
    BY <2>1, <2>2
<1> QED
  BY <1>7, <1>8

PartOf(w, S) == [a \in S |-> w[a]]
VotesIn(w, S) == Active(w) \cap S

\* The score by headcount of a part of a round is that of its votes.
LEMMA ScoreOfPart ==
  ASSUME NEW A, IsFiniteSet(A), NEW w \in AnswersOf(A), NEW S \in SUBSET A
  PROVE  NetScore(PartOf(w, S), A, "headcount", <<>>, <<>>) =
           IF VotesIn(w, S) = {} THEN <<0, 1>>
           ELSE <<SumFunctionOnSet(Leanings(w, A), VotesIn(w, S)), Cardinality(VotesIn(w, S))>>
<1> DEFINE v == PartOf(w, S)
           V == VotesIn(w, S)
<1>1. DOMAIN w = A /\ \A a \in A : w[a].conf \in 0..Unit
  BY DEF AnswersOf
<1>2. V = Voters(v, A)
  BY <1>1 DEF Voters, Active, Failed, PartOf, VotesIn
<1>3. IsFiniteSet(V) /\ V \subseteq A /\ \A a \in V : v[a] = w[a] /\ v[a].conf \in Nat
  <2>1. \A a \in S : v[a] = w[a] /\ v[a].conf \in Nat
    BY <1>1, ScoringAssumption DEF PartOf
  <2>2. V \in SUBSET A /\ V \subseteq S
    BY DEF VotesIn
  <2> HIDE DEF V
  <2>3. IsFiniteSet(V)
    BY <2>2, FS_Subset
  <2> QED
    BY <2>1, <2>2, <2>3
<1> DEFINE part == Leanings(v, V)
           whole == Leanings(w, A)
<1>4. \A a \in V : part[a] \in Int /\ whole[a] = part[a]
  <2> SUFFICES ASSUME NEW a \in V
               PROVE  part[a] \in Int /\ whole[a] = part[a]
    OBVIOUS
  <2> DEFINE d == Direction(w[a].signal)
             c == w[a].conf
  <2>1. d \in Int /\ c \in Int
    BY <1>3 DEF Direction
  <2>2. part[a] = d * c /\ whole[a] = d * c
    BY <1>3 DEF Leanings
  <2> HIDE DEF d, c
  <2>3. d * c \in Int
    BY <2>1
  <2> QED
    BY <2>2, <2>3
<1> HIDE DEF v, V
<1>5. NetScore(v, A, "headcount", <<>>, <<>>) =
        IF V = {} THEN <<0, 1>> ELSE <<SumFunctionOnSet(part, V), Cardinality(V)>>
  BY <1>2, <1>3, HeadcountIs
<1> HIDE DEF part, whole
<1>6. SumFunctionOnSet(part, V) = SumFunctionOnSet(whole, V)
  BY <1>3, <1>4, SumEquals
<1> QED
  BY <1>5, <1>6 DEF v, V, whole

\* The score of a round is that of its narrators and that of the others.
LEMMA NarratorsAndOthers ==
  ASSUME NEW A, IsFiniteSet(A), NEW w \in AnswersOf(A), NEW narrators
  PROVE  LET forecasts == CycleForecasts(w, A, narrators, 1, 1) IN
         (forecasts.narrators_only # None /\ ~(Active(w) \subseteq narrators)) =>
           /\ forecasts.swarm[1] = forecasts.narrators_only[1] + forecasts.ex_narrators[1]
           /\ forecasts.swarm[2] = forecasts.narrators_only[2] + forecasts.ex_narrators[2]
<1> DEFINE forecasts == CycleForecasts(w, A, narrators, 1, 1)
           V == Active(w)
           In == V \cap (DOMAIN w \cap narrators)
           Out == V \cap (DOMAIN w \ narrators)
           enough == Cardinality(V) >= 1
           lean == Leanings(w, A)
           net(S) == NetScore([a \in S |-> w[a]], A, "headcount", <<>>, <<>>)
<1>1. DOMAIN w = A /\ \A a \in A : w[a].conf \in 0..Unit
  BY DEF AnswersOf
<1>2. /\ V \in SUBSET A /\ V = V \cap DOMAIN w /\ V = In \cup Out /\ In \cap Out = {}
      /\ In = V \cap narrators
  BY <1>1 DEF Active
<1>3. forecasts = [swarm |-> IF enough THEN net(DOMAIN w) ELSE None,
                   ex_narrators |-> IF enough THEN net(DOMAIN w \ narrators) ELSE None,
                   narrators_only |-> IF enough /\ Cardinality(V \cap narrators) >= 1
                                      THEN net(DOMAIN w \cap narrators) ELSE None]
  BY DEF CycleForecasts
<1> SUFFICES ASSUME forecasts.narrators_only # None, ~(V \subseteq narrators)
             PROVE  /\ forecasts.swarm[1] = forecasts.narrators_only[1] + forecasts.ex_narrators[1]
                    /\ forecasts.swarm[2] = forecasts.narrators_only[2] + forecasts.ex_narrators[2]
  OBVIOUS
<1>4. enough /\ Cardinality(V \cap narrators) >= 1
  BY <1>3
<1>5. /\ forecasts.swarm = net(DOMAIN w)
      /\ forecasts.ex_narrators = net(DOMAIN w \ narrators)
      /\ forecasts.narrators_only = net(DOMAIN w \cap narrators)
  BY <1>3, <1>4
<1>6. Out # {}
  BY <1>1, <1>2
<1>7. IsFiniteSet(In) /\ IsFiniteSet(Out) /\ In \subseteq A /\ Out \subseteq A
  <2>1. In \subseteq A /\ Out \subseteq A
    BY <1>2
  <2> HIDE DEF In, Out
  <2> QED
    BY <2>1, FS_Subset
<1>8. In # {}
  <2>1. Cardinality(In) >= 1
    BY <1>2, <1>4
  <2> HIDE DEF In
  <2> QED
    BY <2>1, FS_EmptySet
<1>9. \A a \in A : lean[a] \in Int
  <2> SUFFICES ASSUME NEW a \in A
               PROVE  lean[a] \in Int
    OBVIOUS
  <2> DEFINE d == Direction(w[a].signal)
             c == w[a].conf
  <2>1. d \in Int /\ c \in Int
    BY <1>1 DEF Direction
  <2>2. lean[a] = d * c
    BY DEF Leanings
  <2> HIDE DEF d, c
  <2>3. d * c \in Int
    BY <2>1
  <2> QED
    BY <2>2, <2>3
<1> DEFINE Either == V \cap DOMAIN w
<1>10. /\ net(DOMAIN w) = IF Either = {} THEN <<0, 1>> ELSE <<SumFunctionOnSet(lean, Either), Cardinality(Either)>>
       /\ net(DOMAIN w \cap narrators) = IF In = {} THEN <<0, 1>> ELSE <<SumFunctionOnSet(lean, In), Cardinality(In)>>
       /\ net(DOMAIN w \ narrators) = IF Out = {} THEN <<0, 1>> ELSE <<SumFunctionOnSet(lean, Out), Cardinality(Out)>>
  <2> DEFINE all == DOMAIN w
             named == DOMAIN w \cap narrators
             rest == DOMAIN w \ narrators
  <2>1. all \in SUBSET A /\ named \in SUBSET A /\ rest \in SUBSET A
    BY <1>1
  <2>2. Either = VotesIn(w, all) /\ In = VotesIn(w, named) /\ Out = VotesIn(w, rest)
    BY DEF VotesIn
  <2>3. /\ net(all) = NetScore(PartOf(w, all), A, "headcount", <<>>, <<>>)
        /\ net(named) = NetScore(PartOf(w, named), A, "headcount", <<>>, <<>>)
        /\ net(rest) = NetScore(PartOf(w, rest), A, "headcount", <<>>, <<>>)
    BY DEF PartOf
  <2> HIDE DEF all, named, rest, Either, In, Out, net
  <2>4. \A S \in SUBSET A :
          NetScore(PartOf(w, S), A, "headcount", <<>>, <<>>) =
            IF VotesIn(w, S) = {} THEN <<0, 1>>
            ELSE <<SumFunctionOnSet(Leanings(w, A), VotesIn(w, S)), Cardinality(VotesIn(w, S))>>
    BY <1>1, ScoreOfPart
  <2> QED
    BY <2>1, <2>2, <2>3, <2>4 DEF all, named, rest
<1>11. Either = In \cup Out
  BY <1>2
<1>12. In \cap Out = {} /\ \A a \in In \cup Out : lean[a] \in Int
  BY <1>2, <1>7, <1>9
<1> HIDE DEF In, Out, lean, Either, forecasts, net
<1>13. SumFunctionOnSet(lean, In \cup Out) = SumFunctionOnSet(lean, In) + SumFunctionOnSet(lean, Out)
  BY <1>7, <1>12, SumJoins
<1>14. Cardinality(In \cup Out) = Cardinality(In) + Cardinality(Out)
  <2>1. Cardinality(In \cup Out) = Cardinality(In) + Cardinality(Out) - Cardinality(In \cap Out)
    BY <1>7, FS_Union
  <2>2. Cardinality(In \cap Out) = 0 /\ Cardinality(In) \in Nat /\ Cardinality(Out) \in Nat
    BY <1>7, <1>12, FS_EmptySet, FS_CardinalityType
  <2> QED
    BY <2>1, <2>2
<1>15. Either # {}
  BY <1>8, <1>11
<1> QED
  BY <1>5, <1>6, <1>8, <1>10, <1>11, <1>13, <1>14, <1>15

\* The swarm's score of a round (consensus.py:96) and the evaluation's
\* (evaluation.py:270) are the same number; under each weighting it stays in its
\* range, does not fall when an agent turns from hold to buy and turns round with
\* buy and sell; a bracket's dissenters are who is not with its majority, and a
\* round is its narrators and the others: for every roster, bracket, reach and
\* answer, failed ones included.
THEOREM ScoresAreSane ==
  ASSUME Positions = {"buy", "sell", "hold"}, Given("votes") => OneRound(input)
  PROVE  ScoresKeepTheirSense
<1> SUFFICES ASSUME Given("votes")
             PROVE  ScoresKeepTheirSense
  BY DEF ScoresKeepTheirSense
<1> DEFINE A == input.agents
           bracket == input.bracketOf
           reach == input.reach
           w == input.wave
           narrators == input.narrators
<1>1. IsFiniteSet(A) /\ w \in AnswersOf(A) /\ reach \in [A -> Nat]
  BY DEF OneRound
<1>2. ScoresKeepTheirSense <=>
        LET Net(x, weighting) == NetScore(x, A, weighting, bracket, reach)
            table == SummaryTable(w, A, bracket)
            forecasts == CycleForecasts(w, A, narrators, 1, 1)
        IN  /\ IF Active(w) = {} THEN Net(w, "headcount") = <<0, 1>>
               ELSE Net(w, "headcount") = HeadcountScore(w)
            /\ \A weighting \in {"headcount", "reach", "bracket_equal"} :
                 LET s == Net(w, weighting) IN
                 /\ AtMost(s, <<Unit, 1>>) /\ AtMost(<<-Unit, 1>>, s)
                 /\ SamePair(Net(Mirror(w), weighting), <<-s[1], s[2]>>)
                 /\ \A a \in A : w[a].signal = "hold" => AtMost(s, Net([w EXCEPT ![a].signal = "buy"], weighting))
                 /\ LeanFromScore(s, <<1, 2>>) = "buy" <=> LeanFromScore(<<-s[1], s[2]>>, <<1, 2>>) = "sell"
            /\ AtMost(Polarization(w), <<1, 1>>)
            /\ \A b \in BracketsOf(A, bracket) :
                 LET S == Members(Voters(w, A), bracket, b) IN
                 /\ SumFunction(table[b]) = Cardinality(S)
                 /\ Dissenters(w, A, bracket, b) = S \ UNION {Holding(w, S, p) : p \in Majority(w, S)}
            /\ (forecasts.narrators_only # None /\ ~(Active(w) \subseteq narrators)) =>
                 /\ forecasts.swarm[1] = forecasts.narrators_only[1] + forecasts.ex_narrators[1]
                 /\ forecasts.swarm[2] = forecasts.narrators_only[2] + forecasts.ex_narrators[2]
  BY DEF ScoresKeepTheirSense
<1> HIDE DEF A, bracket, reach, w, narrators
<1>3. IF Active(w) = {} THEN NetScore(w, A, "headcount", bracket, reach) = <<0, 1>>
      ELSE NetScore(w, A, "headcount", bracket, reach) = HeadcountScore(w)
  BY <1>1, HeadcountsAgree
<1>4. ASSUME NEW weighting \in {"headcount", "reach", "bracket_equal"}
      PROVE  LET s == NetScore(w, A, weighting, bracket, reach) IN
             /\ AtMost(s, <<Unit, 1>>) /\ AtMost(<<-Unit, 1>>, s)
             /\ SamePair(NetScore(Mirror(w), A, weighting, bracket, reach), <<-s[1], s[2]>>)
             /\ \A a \in A : w[a].signal = "hold" =>
                  AtMost(s, NetScore([w EXCEPT ![a].signal = "buy"], A, weighting, bracket, reach))
             /\ LeanFromScore(s, <<1, 2>>) = "buy" <=> LeanFromScore(<<-s[1], s[2]>>, <<1, 2>>) = "sell"
  <2> DEFINE s == NetScore(w, A, weighting, bracket, reach)
  <2>1. /\ s = <<s[1], s[2]>> /\ s[1] \in Int /\ s[2] \in Nat \ {0}
        /\ AtMost(s, <<Unit, 1>>) /\ AtMost(<<-Unit, 1>>, s)
    BY <1>1, ScoreInRange
  <2>2. SamePair(NetScore(Mirror(w), A, weighting, bracket, reach), <<-s[1], s[2]>>)
    BY <1>1, ScoreMirrors
  <2>3. \A a \in A : w[a].signal = "hold" =>
          AtMost(s, NetScore([w EXCEPT ![a].signal = "buy"], A, weighting, bracket, reach))
    BY <1>1, ScoreRises
  <2>4. LeanFromScore(s, <<1, 2>>) = "buy" <=> LeanFromScore(<<-s[1], s[2]>>, <<1, 2>>) = "sell"
    <3> HIDE DEF s
    <3>1. LeanFromScore(<<s[1], s[2]>>, <<1, 2>>) = "buy" <=> LeanFromScore(<<-s[1], s[2]>>, <<1, 2>>) = "sell"
      BY <2>1, LeansMirror
    <3> QED
      BY <2>1, <3>1
  <2> HIDE DEF s
  <2>5. /\ AtMost(s, <<Unit, 1>>) /\ AtMost(<<-Unit, 1>>, s)
        /\ SamePair(NetScore(Mirror(w), A, weighting, bracket, reach), <<-s[1], s[2]>>)
        /\ \A a \in A : w[a].signal = "hold" =>
             AtMost(s, NetScore([w EXCEPT ![a].signal = "buy"], A, weighting, bracket, reach))
        /\ LeanFromScore(s, <<1, 2>>) = "buy" <=> LeanFromScore(<<-s[1], s[2]>>, <<1, 2>>) = "sell"
    BY <2>1, <2>2, <2>3, <2>4
  <2> QED
    BY <2>5 DEF s
<1>5. AtMost(Polarization(w), <<1, 1>>)
  BY <1>1, PolarizationInRange
<1>6. \A b \in BracketsOf(A, bracket) :
        LET S == Members(Voters(w, A), bracket, b) IN
        /\ SumFunction(SummaryTable(w, A, bracket)[b]) = Cardinality(S)
        /\ Dissenters(w, A, bracket, b) = S \ UNION {Holding(w, S, p) : p \in Majority(w, S)}
  <2>1. \A b \in BracketsOf(A, bracket) :
          SumFunction(SummaryTable(w, A, bracket)[b]) = Cardinality(Members(Voters(w, A), bracket, b))
    BY <1>1, SummariesCountVoters
  <2>2. \A b \in BracketsOf(A, bracket) :
          LET S == Members(Voters(w, A), bracket, b) IN
          Dissenters(w, A, bracket, b) = S \ UNION {Holding(w, S, p) : p \in Majority(w, S)}
    BY <1>1, DissentersAreOutside
  <2> QED
    BY <2>1, <2>2
<1>7. LET forecasts == CycleForecasts(w, A, narrators, 1, 1) IN
      (forecasts.narrators_only # None /\ ~(Active(w) \subseteq narrators)) =>
        /\ forecasts.swarm[1] = forecasts.narrators_only[1] + forecasts.ex_narrators[1]
        /\ forecasts.swarm[2] = forecasts.narrators_only[2] + forecasts.ex_narrators[2]
  BY <1>1, NarratorsAndOthers
<1> QED
  BY <1>2, <1>3, <1>4, <1>5, <1>6, <1>7

-----------------------------------------------------------------------------
(* What is shown and cited is a relation between readers and peers, and    *)
(* whatever counts attention counts its pairs, by reader, by peer or by    *)
(* bracket.                                                                *)

Readings(A, T, rel) == {x \in A \X T : x[2] \in rel[x[1]]}
ReadersOf(A, rel, p) == {r \in A : p \in rel[r]}

TowardsPeer(S, p) == {<<r, p>> : r \in S}
FromReader(r, S) == {<<r, p>> : p \in S}

\* A set has as many pairs with something as it has members.
LEMMA PairedWith ==
  ASSUME NEW S, IsFiniteSet(S), NEW p
  PROVE  /\ IsFiniteSet(TowardsPeer(S, p)) /\ Cardinality(TowardsPeer(S, p)) = Cardinality(S)
         /\ IsFiniteSet(FromReader(p, S)) /\ Cardinality(FromReader(p, S)) = Cardinality(S)
<1> DEFINE T == TowardsPeer(S, p)
           U == FromReader(p, S)
           f == [x \in T |-> x[1]]
           g == [x \in U |-> x[2]]
<1>1. f \in [T -> S] /\ (\A x, y \in T : f[x] = f[y] => x = y) /\ (\A z \in S : \E x \in T : f[x] = z)
  <2>1. \A z \in S : <<z, p>> \in T /\ f[<<z, p>>] = z
    BY DEF TowardsPeer
  <2> QED
    BY <2>1 DEF TowardsPeer
<1>2. g \in [U -> S] /\ (\A x, y \in U : g[x] = g[y] => x = y) /\ (\A z \in S : \E x \in U : g[x] = z)
  <2>1. \A z \in S : <<p, z>> \in U /\ g[<<p, z>>] = z
    BY DEF FromReader
  <2> QED
    BY <2>1 DEF FromReader
<1> HIDE DEF T, U, f, g
<1>3. Cardinality(T) = Cardinality(S) /\ Cardinality(U) = Cardinality(S)
  BY <1>1, <1>2, SameSize
<1>4. IsFiniteSet(T) /\ IsFiniteSet(U)
  <2>1. f \in Injection(T, S) /\ g \in Injection(U, S)
    BY <1>1, <1>2, Fun_IsInj
  <2> QED
    BY <2>1, FS_Injection
<1> QED
  BY <1>3, <1>4 DEF T, U

\* Counted peer by peer.
LEMMA ReadingsByPeer ==
  ASSUME NEW A, IsFiniteSet(A), NEW T \in SUBSET A, NEW rel \in [A -> SUBSET A],
         NEW fun, \A p \in T : fun[p] = Cardinality(ReadersOf(A, rel, p))
  PROVE  SumFunctionOnSet(fun, T) = Cardinality(Readings(A, T, rel))
<1> DEFINE part == [p \in T |-> TowardsPeer(ReadersOf(A, rel, p), p)]
           all == Readings(A, T, rel)
<1>1. IsFiniteSet(T)
  BY FS_Subset
<1>2. \A p \in T : IsFiniteSet(part[p]) /\ fun[p] = Cardinality(part[p])
  <2> SUFFICES ASSUME NEW p \in T
               PROVE  IsFiniteSet(part[p]) /\ fun[p] = Cardinality(part[p])
    OBVIOUS
  <2> DEFINE S == ReadersOf(A, rel, p)
  <2>1. S \in SUBSET A
    BY DEF ReadersOf
  <2>2. part[p] = TowardsPeer(S, p) /\ fun[p] = Cardinality(S)
    OBVIOUS
  <2> HIDE DEF S, part
  <2>3. IsFiniteSet(S)
    BY <2>1, FS_Subset
  <2>4. IsFiniteSet(TowardsPeer(S, p)) /\ Cardinality(TowardsPeer(S, p)) = Cardinality(S)
    BY <2>3, PairedWith
  <2> QED
    BY <2>2, <2>4
<1>3. \A p, q \in T : p # q => part[p] \cap part[q] = {}
  BY DEF TowardsPeer
<1>4. \A p \in T : part[p] \subseteq all
  BY DEF Readings, ReadersOf, TowardsPeer
<1>5. \A z \in all : \E p \in T : z \in part[p]
  <2> SUFFICES ASSUME NEW z \in all
               PROVE  \E p \in T : z \in part[p]
    OBVIOUS
  <2>1. z = <<z[1], z[2]>> /\ z[1] \in A /\ z[2] \in T /\ z[2] \in rel[z[1]]
    BY DEF Readings
  <2>2. z \in part[z[2]]
    BY <2>1 DEF ReadersOf, TowardsPeer
  <2> QED
    BY <2>1, <2>2
<1> HIDE DEF part, all
<1>6. SumFunctionOnSet(fun, T) = Cardinality(all)
  BY <1>1, <1>2, <1>3, <1>4, <1>5, SumCounts
<1> QED
  BY <1>6 DEF all

\* Counted reader by reader.
LEMMA ReadingsByReader ==
  ASSUME NEW A, IsFiniteSet(A), NEW rel \in [A -> SUBSET A],
         NEW fun, \A r \in A : fun[r] = Cardinality(rel[r])
  PROVE  SumFunctionOnSet(fun, A) = Cardinality(Readings(A, A, rel))
<1> DEFINE part == [r \in A |-> FromReader(r, rel[r])]
           all == Readings(A, A, rel)
<1>1. \A r \in A : IsFiniteSet(part[r]) /\ fun[r] = Cardinality(part[r])
  <2> SUFFICES ASSUME NEW r \in A
               PROVE  IsFiniteSet(part[r]) /\ fun[r] = Cardinality(part[r])
    OBVIOUS
  <2> DEFINE S == rel[r]
  <2>1. S \in SUBSET A
    OBVIOUS
  <2>2. part[r] = FromReader(r, S) /\ fun[r] = Cardinality(S)
    OBVIOUS
  <2> HIDE DEF S, part
  <2>3. IsFiniteSet(S)
    BY <2>1, FS_Subset
  <2>4. IsFiniteSet(FromReader(r, S)) /\ Cardinality(FromReader(r, S)) = Cardinality(S)
    BY <2>3, PairedWith
  <2> QED
    BY <2>2, <2>4
<1>2. \A p, q \in A : p # q => part[p] \cap part[q] = {}
  BY DEF FromReader
<1>3. \A r \in A : part[r] \subseteq all
  BY DEF Readings, FromReader
<1>4. \A z \in all : \E r \in A : z \in part[r]
  <2> SUFFICES ASSUME NEW z \in all
               PROVE  \E r \in A : z \in part[r]
    OBVIOUS
  <2>1. z = <<z[1], z[2]>> /\ z[1] \in A /\ z[2] \in rel[z[1]]
    BY DEF Readings
  <2>2. z \in part[z[1]]
    BY <2>1 DEF FromReader
  <2> QED
    BY <2>1, <2>2
<1> HIDE DEF part, all
<1>5. SumFunctionOnSet(fun, A) = Cardinality(all)
  BY <1>1, <1>2, <1>3, <1>4, SumCounts
<1> QED
  BY <1>5 DEF all

\* What counts of one round of an exposure.
CitedIn(m) == [a \in m.agents |-> CitedWave(m)[a].cited]

LEMMA CitationsAreShown ==
  ASSUME NEW m, OneExposure(m)
  PROVE  LET A == m.agents
             w == CitedWave(m)
             C == CitedIn(m)
         IN  /\ IsFiniteSet(A) /\ DOMAIN w = A /\ Active(w) = A \ m.failed
             /\ C \in [A -> SUBSET A]
             /\ \A a \in A : /\ w[a].cited = C[a] /\ C[a] \subseteq m.shown[a] /\ a \notin C[a]
                             /\ a \in m.failed => C[a] = {}
                             /\ a \notin m.failed => C[a] = ValidCitations(m.named[a], m.shown[a], a)
             /\ m.shown \in [A -> SUBSET A] /\ m.named \in [A -> SUBSET A]
<1> DEFINE A == m.agents
           w == CitedWave(m)
           C == CitedIn(m)
<1>1. IsFiniteSet(A) /\ m.shown \in [A -> SUBSET A] /\ m.named \in [A -> SUBSET A] /\ m.failed \subseteq A
  BY DEF OneExposure
<1>2. DOMAIN w = A /\ \A a \in A : w[a] = IF a \in m.failed THEN [signal |-> ParseError, cited |-> {}]
                                          ELSE [signal |-> "buy", cited |-> ValidCitations(m.named[a], m.shown[a], a)]
  BY DEF CitedWave
<1>3. \A a \in A : /\ w[a].signal = IF a \in m.failed THEN ParseError ELSE "buy"
                  /\ w[a].cited = IF a \in m.failed THEN {} ELSE ValidCitations(m.named[a], m.shown[a], a)
  <2> SUFFICES ASSUME NEW a \in A
               PROVE  /\ w[a].signal = IF a \in m.failed THEN ParseError ELSE "buy"
                      /\ w[a].cited = IF a \in m.failed THEN {} ELSE ValidCitations(m.named[a], m.shown[a], a)
    OBVIOUS
  <2>1. w[a] = IF a \in m.failed THEN [signal |-> ParseError, cited |-> {}]
               ELSE [signal |-> "buy", cited |-> ValidCitations(m.named[a], m.shown[a], a)]
    BY <1>2
  <2> HIDE DEF w
  <2> QED
    BY <2>1
<1>9. Active(w) = A \ m.failed
  <2>1. \A a \in A : w[a].signal = ParseError <=> a \in m.failed
    BY <1>3 DEF ParseError
  <2>2. DOMAIN w = A
    BY <1>2
  <2> HIDE DEF w
  <2> QED
    BY <2>1, <2>2 DEF Active, Failed
<1>4. DOMAIN C = A /\ \A a \in A : C[a] = w[a].cited
  BY DEF CitedIn
<1>5. \A a \in A : C[a] = IF a \in m.failed THEN {} ELSE ValidCitations(m.named[a], m.shown[a], a)
  BY <1>3, <1>4
<1>6. \A a \in A : C[a] \subseteq m.shown[a] /\ a \notin C[a]
  BY <1>5 DEF ValidCitations
<1>7. C \in [A -> SUBSET A]
  <2>1. C = [a \in A |-> C[a]]
    BY DEF CitedIn
  <2>2. \A a \in A : C[a] \in SUBSET A
    BY <1>1, <1>6
  <2> HIDE DEF C, A
  <2> QED
    BY <2>1, <2>2
<1> HIDE DEF w, C, A
<1>8. /\ IsFiniteSet(A) /\ DOMAIN w = A /\ Active(w) = A \ m.failed
      /\ C \in [A -> SUBSET A]
      /\ \A a \in A : /\ w[a].cited = C[a] /\ C[a] \subseteq m.shown[a] /\ a \notin C[a]
                      /\ a \in m.failed => C[a] = {}
                      /\ a \notin m.failed => C[a] = ValidCitations(m.named[a], m.shown[a], a)
      /\ m.shown \in [A -> SUBSET A] /\ m.named \in [A -> SUBSET A]
  BY <1>1, <1>2, <1>4, <1>5, <1>6, <1>7, <1>9
<1> QED
  BY <1>8 DEF w, C, A

\* How many readers each of some agents has in a relation.
CountsReaders(f, S, A, rel) == \A p \in S : f[p] = Cardinality(ReadersOf(A, rel, p))

\* A wave cites, as its relation says, what its readers were shown.
CitesShown(A, w, C, shown) ==
  /\ DOMAIN w = A /\ Active(w) \subseteq A
  /\ C \in [A -> SUBSET A] /\ shown \in [A -> SUBSET A]
  /\ \A a \in A : w[a].cited = C[a] /\ C[a] \subseteq shown[a] /\ a \notin C[a]
  /\ \A a \in A \ Active(w) : C[a] = {}

\* The citations an agent received, and those of the readers it was shown to,
\* are its citers.
LEMMA CitersAreCounted ==
  ASSUME NEW A, NEW w, NEW C, NEW shown, CitesShown(A, w, C, shown)
  PROVE  /\ CountsReaders(Received(w, A), A, A, C)
         /\ CountsReaders(CitedTimes(shown, w), UNION Range(shown), A, C)
         /\ CountsReaders(ShownTimes(shown), UNION Range(shown), A, shown)
         /\ \A p \in A \ UNION Range(shown) : ReadersOf(A, C, p) = {}
         /\ UNION Range(shown) \in SUBSET A
         /\ DOMAIN Received(w, A) = A /\ DOMAIN ShownTimes(shown) = UNION Range(shown)
         /\ DOMAIN CitedTimes(shown, w) = UNION Range(shown)
<1>0. /\ DOMAIN w = A /\ Active(w) \subseteq A
      /\ C \in [A -> SUBSET A] /\ shown \in [A -> SUBSET A]
      /\ \A a \in A : w[a].cited = C[a] /\ C[a] \subseteq shown[a] /\ a \notin C[a]
      /\ \A a \in A \ Active(w) : C[a] = {}
  BY DEF CitesShown
<1>1. ASSUME NEW p \in A
      PROVE  {c \in Active(w) \ {p} : p \in w[c].cited} = ReadersOf(A, C, p)
  BY <1>0 DEF ReadersOf
<1>2. \A p \in A : Received(w, A)[p] = Cardinality(ReadersOf(A, C, p))
  BY <1>1 DEF Received
<1>3. DOMAIN shown = A /\ Range(shown) = {shown[a] : a \in A}
  BY <1>0 DEF Range
<1>4. \A p : {r \in DOMAIN shown \cap DOMAIN w : p \in shown[r] \cap w[r].cited} = ReadersOf(A, C, p)
  BY <1>0, <1>3 DEF ReadersOf
<1>5. \A p : {r \in DOMAIN shown : p \in shown[r]} = ReadersOf(A, shown, p)
  BY <1>0, <1>3 DEF ReadersOf
<1>6. UNION Range(shown) \in SUBSET A /\ \A a \in A : shown[a] \subseteq UNION Range(shown)
  BY <1>0, <1>3
<1>7. \A p \in A \ UNION Range(shown) : ReadersOf(A, C, p) = {}
  BY <1>0, <1>6 DEF ReadersOf
<1>8. \A p \in UNION Range(shown) : CitedTimes(shown, w)[p] = Cardinality(ReadersOf(A, C, p))
  BY <1>4 DEF CitedTimes
<1>9. \A p \in UNION Range(shown) : ShownTimes(shown)[p] = Cardinality(ReadersOf(A, shown, p))
  BY <1>5 DEF ShownTimes
<1>10. /\ DOMAIN Received(w, A) = A /\ DOMAIN ShownTimes(shown) = UNION Range(shown)
       /\ DOMAIN CitedTimes(shown, w) = UNION Range(shown)
  BY DEF Received, ShownTimes, CitedTimes
<1> QED
  BY <1>2, <1>6, <1>7, <1>8, <1>9, <1>10 DEF CountsReaders

\* The influence weights count the same citers, of those who have any.
LEMMA WeightsCountCiters ==
  ASSUME NEW A, IsFiniteSet(A), NEW C \in [A -> SUBSET A], NEW active, NEW couples,
         couples = UNION {{<<a, c>> : c \in C[a]} : a \in A}
  PROVE  LET weights == CitationWeights(couples, active) IN
         /\ \A p \in A : /\ p \in DOMAIN weights <=> Cardinality(ReadersOf(A, C, p)) > 0
                         /\ p \in DOMAIN weights => weights[p][1] = Cardinality(ReadersOf(A, C, p))
<1> DEFINE weights == CitationWeights(couples, active)
<1> SUFFICES ASSUME NEW p \in A
             PROVE  /\ p \in DOMAIN weights <=> Cardinality(ReadersOf(A, C, p)) > 0
                    /\ p \in DOMAIN weights => weights[p][1] = Cardinality(ReadersOf(A, C, p))
  OBVIOUS
<1> DEFINE S == ReadersOf(A, C, p)
           those == {x \in couples : x[2] = p}
<1>1. those = TowardsPeer(S, p)
  <2>1. \A x \in couples : \E a \in A : \E c \in C[a] : x = <<a, c>>
    OBVIOUS
  <2>2. \A x \in those : x \in TowardsPeer(S, p)
    BY <2>1 DEF TowardsPeer, ReadersOf
  <2>3. \A r \in S : <<r, p>> \in couples
    BY DEF ReadersOf
  <2> QED
    BY <2>2, <2>3 DEF TowardsPeer
<1>2. IsFiniteSet(S)
  <2>1. S \in SUBSET A
    BY DEF ReadersOf
  <2> HIDE DEF S
  <2> QED
    BY <2>1, FS_Subset
<1>3. DOMAIN weights = {x[2] : x \in couples} /\ (p \in DOMAIN weights => weights[p] = <<Cardinality(those), active>>)
  BY DEF CitationWeights
<1>4. p \in DOMAIN weights <=> those # {}
  BY <1>3
<1> HIDE DEF S, those, weights
<1>5. Cardinality(those) = Cardinality(S)
  BY <1>1, <1>2, PairedWith
<1>6. those = {} <=> S = {}
  BY <1>1 DEF TowardsPeer
<1>7. Cardinality(S) \in Nat /\ (Cardinality(S) = 0 <=> S = {})
  BY <1>2, FS_CardinalityType, FS_EmptySet
<1>8. p \in DOMAIN weights <=> Cardinality(S) > 0
  BY <1>4, <1>6, <1>7
<1>9. p \in DOMAIN weights => weights[p][1] = Cardinality(S)
  BY <1>3, <1>5
<1> QED
  BY <1>8, <1>9 DEF S, weights

\* No more readers than there are, and fewer citers than readers.
LEMMA CitersAreReaders ==
  ASSUME NEW A, IsFiniteSet(A), NEW C \in [A -> SUBSET A], NEW shown \in [A -> SUBSET A],
         \A a \in A : C[a] \subseteq shown[a]
  PROVE  \A p \in A : /\ Cardinality(ReadersOf(A, C, p)) \in Nat /\ Cardinality(ReadersOf(A, shown, p)) \in Nat
                      /\ Cardinality(ReadersOf(A, C, p)) <= Cardinality(ReadersOf(A, shown, p))
<1> SUFFICES ASSUME NEW p \in A
             PROVE  /\ Cardinality(ReadersOf(A, C, p)) \in Nat /\ Cardinality(ReadersOf(A, shown, p)) \in Nat
                    /\ Cardinality(ReadersOf(A, C, p)) <= Cardinality(ReadersOf(A, shown, p))
  OBVIOUS
<1> DEFINE S == ReadersOf(A, C, p)
           T == ReadersOf(A, shown, p)
<1>1. S \in SUBSET T /\ T \in SUBSET A
  BY DEF ReadersOf
<1> HIDE DEF S, T
<1>2. IsFiniteSet(T) /\ IsFiniteSet(S) /\ Cardinality(S) <= Cardinality(T)
  BY <1>1, FS_Subset
<1>3. Cardinality(S) \in Nat /\ Cardinality(T) \in Nat
  BY <1>2, FS_CardinalityType
<1> QED
  BY <1>2, <1>3 DEF S, T

\* What a bracket is shown is the same however it is counted, and no bracket has
\* more readers than it fills slots.
LEMMA SlotsAreReadings ==
  ASSUME NEW A, IsFiniteSet(A), NEW shown \in [A -> SUBSET A], NEW bracketOf, NEW b
  PROVE  LET M == Members(A, bracketOf, b)
             N == Members(UNION Range(shown), bracketOf, b)
         IN  /\ Slots(shown, A, bracketOf)[b] \in Nat \/ b \notin BracketsOf(A, bracketOf)
             /\ b \in BracketsOf(A, bracketOf) =>
                  /\ Slots(shown, A, bracketOf)[b] = Cardinality(Readings(A, M, shown))
                  /\ Slots(shown, A, bracketOf)[b] = Cardinality(Readings(A, N, shown))
                  /\ Readers(shown, A, bracketOf)[b] <= Slots(shown, A, bracketOf)[b]
<1> DEFINE M == Members(A, bracketOf, b)
           N == Members(UNION Range(shown), bracketOf, b)
           R == Readings(A, M, shown)
           seers == {r \in A : shown[r] \cap M # {}}
           f == [x \in R |-> x[1]]
<1>1. DOMAIN shown = A /\ Range(shown) = {shown[a] : a \in A}
  BY DEF Range
<1>2. Readings(A, N, shown) = R
  BY <1>1 DEF Readings, Members
<1>3. b \in BracketsOf(A, bracketOf) => /\ Slots(shown, A, bracketOf)[b] = Cardinality(R)
                                        /\ Readers(shown, A, bracketOf)[b] = Cardinality(seers)
  BY <1>1 DEF Slots, Readers, Readings
<1>4. IsFiniteSet(R)
  <2>1. R \in SUBSET (A \X A)
    BY DEF Readings, Members
  <2> HIDE DEF R
  <2>2. IsFiniteSet(A \X A)
    BY FS_Product
  <2> QED
    BY <2>1, <2>2, FS_Subset
<1>5. f \in [R -> seers] /\ \A r \in seers : \E x \in R : f[x] = r
  <2>1. \A x \in R : x[1] \in A /\ x[2] \in M /\ x[2] \in shown[x[1]]
    BY DEF Readings
  <2>2. f \in [R -> seers]
    BY <2>1
  <2>3. ASSUME NEW r \in seers
        PROVE  \E x \in R : f[x] = r
    <3>1. PICK p \in M : p \in shown[r]
      OBVIOUS
    <3>2. <<r, p>> \in R /\ f[<<r, p>>] = r
      BY <3>1 DEF Readings
    <3> QED
      BY <3>2
  <2> QED
    BY <2>2, <2>3
<1> HIDE DEF R, seers, f
<1>6. f \in Surjection(R, seers)
  BY <1>5, Fun_IsSurj
<1>7. Cardinality(seers) <= Cardinality(R)
  BY <1>4, <1>6, FS_Surjection
<1>8. Cardinality(R) \in Nat
  BY <1>4, FS_CardinalityType
<1> QED
  BY <1>2, <1>3, <1>7, <1>8 DEF R

\* fun[x] counts the part of x, and the parts make up all of it, each element once.
CountedInParts(S, fun, part, all) ==
  /\ \A x \in S : IsFiniteSet(part[x]) /\ fun[x] = Cardinality(part[x])
  /\ \A x, y \in S : x # y => part[x] \cap part[y] = {}
  /\ \A x \in S : part[x] \subseteq all
  /\ \A z \in all : \E x \in S : z \in part[x]

\* SumCounts, for parts that are themselves given by expressions.
LEMMA SumOfParts ==
  ASSUME NEW S, IsFiniteSet(S), NEW fun, NEW part, NEW all, CountedInParts(S, fun, part, all)
  PROVE  SumFunctionOnSet(fun, S) = Cardinality(all)
BY SumCounts DEF CountedInParts

\* All slots together are all readings, as are all the times peers were shown.
LEMMA SlotsAddUp ==
  ASSUME NEW A, IsFiniteSet(A), NEW shown \in [A -> SUBSET A], NEW bracketOf,
         NEW seen, CountsReaders(seen, UNION Range(shown), A, shown),
         DOMAIN seen = UNION Range(shown)
  PROVE  SumFunction(Slots(shown, A, bracketOf)) = SumFunction(seen)
<1> DEFINE P == UNION Range(shown)
           slots == Slots(shown, A, bracketOf)
           brackets == BracketsOf(A, bracketOf)
           part == [b \in brackets |-> Readings(A, Members(A, bracketOf, b), shown)]
           all == Readings(A, A, shown)
<1>1. DOMAIN shown = A /\ Range(shown) = {shown[a] : a \in A}
  BY DEF Range
<1>2. P \in SUBSET A
  BY <1>1
<1>3. Readings(A, P, shown) = all
  BY <1>1 DEF Readings
<1>4. SumFunctionOnSet(seen, P) = Cardinality(Readings(A, P, shown))
  <2> HIDE DEF P
  <2>1. \A p \in P : seen[p] = Cardinality(ReadersOf(A, shown, p))
    BY DEF P, CountsReaders
  <2> QED
    BY <1>2, <2>1, ReadingsByPeer
<1>5. IsFiniteSet(brackets)
  <2> DEFINE f == [a \in A |-> bracketOf[a]]
  <2>1. f \in [A -> brackets] /\ \A b \in brackets : \E a \in A : f[a] = b
    BY DEF BracketsOf
  <2> HIDE DEF f, brackets
  <2>2. f \in Surjection(A, brackets)
    BY <2>1, Fun_IsSurj
  <2> QED
    BY <2>2, FS_Surjection
<1>6. \A b \in brackets : IsFiniteSet(part[b]) /\ slots[b] = Cardinality(part[b])
  <2>1. \A b \in brackets : slots[b] = Cardinality(Readings(A, Members(A, bracketOf, b), shown))
    BY SlotsAreReadings
  <2>2. \A b \in brackets : part[b] = Readings(A, Members(A, bracketOf, b), shown)
    OBVIOUS
  <2>3. \A b \in brackets : part[b] \in SUBSET (A \X A)
    BY DEF Readings, Members
  <2> HIDE DEF part, brackets
  <2>4. IsFiniteSet(A \X A)
    BY FS_Product
  <2>5. \A b \in brackets : IsFiniteSet(part[b])
    BY <2>3, <2>4, FS_Subset
  <2> QED
    BY <2>1, <2>2, <2>5
<1>7. \A b, c \in brackets : b # c => part[b] \cap part[c] = {}
  BY DEF Readings, Members
<1>8. \A b \in brackets : part[b] \subseteq all
  BY DEF Readings, Members
<1>9. \A z \in all : \E b \in brackets : z \in part[b]
  <2> SUFFICES ASSUME NEW z \in all
               PROVE  \E b \in brackets : z \in part[b]
    OBVIOUS
  <2>1. z \in A \X A /\ z[2] \in A /\ z[2] \in shown[z[1]]
    BY DEF Readings
  <2>2. bracketOf[z[2]] \in brackets /\ z \in part[bracketOf[z[2]]]
    BY <2>1 DEF BracketsOf, Members, Readings
  <2> QED
    BY <2>2
<1>10. DOMAIN slots = brackets
  BY DEF Slots
<1> HIDE DEF P, slots, brackets, part, all
<1>11. SumFunctionOnSet(slots, brackets) = Cardinality(all)
  <2>1. CountedInParts(brackets, slots, part, all)
    BY <1>6, <1>7, <1>8, <1>9 DEF CountedInParts
  <2> QED
    BY ONLY <1>5, <2>1, SumOfParts
<1>12. SumFunction(slots) = Cardinality(all) /\ SumFunction(seen) = Cardinality(all)
  BY <1>3, <1>4, <1>10, <1>11 DEF SumFunction, P
<1> QED
  BY <1>12 DEF slots

ProperRate(rate, slots) == rate[1] < rate[2] /\ rate[2] = slots + 2

\* A rate is below 1, and rests on the slots of its bracket.
LEMMA RatesAreProper ==
  ASSUME NEW A, IsFiniteSet(A), NEW C \in [A -> SUBSET A], NEW shown \in [A -> SUBSET A],
         \A a \in A : C[a] \subseteq shown[a],
         NEW w, NEW bracketOf, CountsReaders(CitedTimes(shown, w), UNION Range(shown), A, C),
         CountsReaders(ShownTimes(shown), UNION Range(shown), A, shown),
         NEW b \in BracketsOf(UNION Range(shown), bracketOf)
  PROVE  ProperRate(BracketRates(shown, w, bracketOf)[b], Slots(shown, A, bracketOf)[b])
<1> DEFINE P == UNION Range(shown)
           cited == CitedTimes(shown, w)
           seen == ShownTimes(shown)
           N == Members(P, bracketOf, b)
           above == SumFunctionOnSet(cited, N)
           below == SumFunctionOnSet(seen, N)
           slots == Slots(shown, A, bracketOf)[b]
<1>1. P \in SUBSET A
  BY DEF Range
<1>2. BracketRates(shown, w, bracketOf)[b] = <<above + 1, below + 2>>
  BY DEF BracketRates, Total
<1>3. b \in BracketsOf(A, bracketOf) /\ N \in SUBSET A /\ N \subseteq P
  BY <1>1 DEF BracketsOf, Members
<1>4. slots \in Nat /\ slots = Cardinality(Readings(A, N, shown))
  BY <1>3, SlotsAreReadings
<1>5. \A p \in N : /\ cited[p] = Cardinality(ReadersOf(A, C, p)) /\ seen[p] = Cardinality(ReadersOf(A, shown, p))
                   /\ cited[p] \in Int /\ seen[p] \in Int /\ cited[p] <= seen[p]
  <2>1. \A p \in A : /\ Cardinality(ReadersOf(A, C, p)) \in Nat /\ Cardinality(ReadersOf(A, shown, p)) \in Nat
                     /\ Cardinality(ReadersOf(A, C, p)) <= Cardinality(ReadersOf(A, shown, p))
    BY CitersAreReaders
  <2>2. \A p \in N : cited[p] = Cardinality(ReadersOf(A, C, p)) /\ seen[p] = Cardinality(ReadersOf(A, shown, p))
    BY <1>3 DEF CountsReaders
  <2> HIDE DEF N, cited, seen
  <2> QED
    BY <1>3, <2>1, <2>2
<1>6. IsFiniteSet(N)
  <2> HIDE DEF N
  <2> QED
    BY <1>3, FS_Subset
<1> HIDE DEF N, P, cited, seen
<1>7. below = slots
  <2>1. below = Cardinality(Readings(A, N, shown))
    BY <1>3, <1>5, ReadingsByPeer
  <2> QED
    BY <1>4, <2>1
<1>8. above \in Int /\ above <= below
  <2>1. \A p \in N : cited[p] \in Int /\ seen[p] \in Int /\ cited[p] <= seen[p]
    BY <1>5
  <2>2. above <= below
    BY <1>6, <2>1, SumMonotone
  <2>3. above \in Int
    BY <1>6, <2>1, SumIsInt
  <2> QED
    BY <2>2, <2>3
<1> HIDE DEF above, below, slots
<1>9. above + 1 < below + 2 /\ below + 2 = slots + 2
  BY <1>4, <1>7, <1>8
<1> QED
  BY <1>2, <1>9 DEF slots, ProperRate

\* The citations that count of the named ones are those that were received.
LEMMA CitationsAreReceived ==
  ASSUME NEW A, IsFiniteSet(A), NEW C \in [A -> SUBSET A], NEW shown, NEW named \in [A -> SUBSET A],
         \A a \in A : C[a] = ValidCitations(named[a], shown[a], a),
         NEW got, DOMAIN got = A, \A p \in A : got[p] = Cardinality(ReadersOf(A, C, p))
  PROVE  Validity(named, shown)[1] = SumFunction(got) /\ Validity(named, shown)[1] <= Validity(named, shown)[2]
<1> DEFINE valid == [r \in DOMAIN named |-> Cardinality(ValidCitations(named[r], shown[r], r))]
           every == [r \in DOMAIN named |-> Cardinality(named[r])]
<1>1. DOMAIN named = A /\ DOMAIN valid = A /\ DOMAIN every = A
  OBVIOUS
<1>2. Validity(named, shown) = <<SumFunction(valid), SumFunction(every)>>
  BY DEF Validity
<1>3. \A r \in A : valid[r] = Cardinality(C[r]) /\ every[r] = Cardinality(named[r])
  OBVIOUS
<1>4. \A r \in A : C[r] \subseteq named[r]
  BY DEF ValidCitations
<1> HIDE DEF valid, every
<1>5. \A r \in A : valid[r] \in Int /\ every[r] \in Int /\ valid[r] <= every[r]
  <2> SUFFICES ASSUME NEW r \in A
               PROVE  valid[r] \in Int /\ every[r] \in Int /\ valid[r] <= every[r]
    OBVIOUS
  <2> DEFINE S == C[r]
             T == named[r]
  <2>1. S \in SUBSET T /\ T \in SUBSET A /\ valid[r] = Cardinality(S) /\ every[r] = Cardinality(T)
    BY <1>3, <1>4
  <2> HIDE DEF S, T
  <2>2. IsFiniteSet(T) /\ IsFiniteSet(S) /\ Cardinality(S) <= Cardinality(T)
    BY <2>1, FS_Subset
  <2>3. Cardinality(S) \in Nat /\ Cardinality(T) \in Nat
    BY <2>2, FS_CardinalityType
  <2> QED
    BY <2>1, <2>2, <2>3
<1>6. SumFunctionOnSet(valid, A) = Cardinality(Readings(A, A, C))
  <2>1. \A r \in A : valid[r] = Cardinality(C[r])
    BY <1>3
  <2> QED
    BY <2>1, ReadingsByReader
<1>7. SumFunctionOnSet(got, A) = Cardinality(Readings(A, A, C))
  BY ReadingsByPeer
<1>8. SumFunctionOnSet(valid, A) <= SumFunctionOnSet(every, A)
  BY <1>5, SumMonotone
<1> QED
  BY <1>1, <1>2, <1>6, <1>7, <1>8 DEF SumFunction

\* What a round's peers are read and cited is counted by reader, by peer and by
\* bracket (metrics.py:82, metrics.py:371, influence.py:60), and the counts are
\* the same pairs counted another way: for every roster and exposure, whoever is
\* named without having been shown, and whoever fails.
THEOREM AttentionIsTheSame ==
  ASSUME Given("cites") => OneExposure(input)
  PROVE  AttentionAgrees
<1> SUFFICES ASSUME Given("cites")
             PROVE  AttentionAgrees
  BY DEF AttentionAgrees
<1> DEFINE A == input.agents
           bracket == input.bracketOf
           w == CitedWave(input)
           C == CitedIn(input)
           named == [a \in A |-> IF a \in input.failed THEN {} ELSE input.named[a]]
           shown == input.shown
           P == UNION Range(shown)
           seen == ShownTimes(shown)
           cited == CitedTimes(shown, w)
           got == Received(w, A)
           couples == UNION {{<<a, c>> : c \in w[a].cited} : a \in A}
           weights == CitationWeights(couples, Cardinality(Active(w)))
           slots == Slots(shown, A, bracket)
<1>1. OneExposure(input)
  OBVIOUS
<1>2. /\ IsFiniteSet(A) /\ DOMAIN w = A /\ Active(w) = A \ input.failed
      /\ C \in [A -> SUBSET A]
      /\ \A a \in A : /\ w[a].cited = C[a] /\ C[a] \subseteq shown[a] /\ a \notin C[a]
                      /\ a \in input.failed => C[a] = {}
                      /\ a \notin input.failed => C[a] = ValidCitations(input.named[a], shown[a], a)
      /\ shown \in [A -> SUBSET A] /\ input.named \in [A -> SUBSET A]
  BY <1>1, CitationsAreShown
<1>3. /\ named \in [A -> SUBSET A] /\ \A a \in A : C[a] = ValidCitations(named[a], shown[a], a)
  <2>1. named \in [A -> SUBSET A]
    BY <1>2
  <2>2. ASSUME NEW a \in A
        PROVE  C[a] = ValidCitations(named[a], shown[a], a)
    BY <1>2 DEF ValidCitations
  <2> QED
    BY <2>1, <2>2
<1>4. couples = UNION {{<<a, c>> : c \in C[a]} : a \in A}
  BY <1>2
<1>5. AttentionAgrees <=>
        /\ \A p \in A : /\ p \in DOMAIN weights <=> got[p] > 0
                        /\ p \in DOMAIN weights => weights[p][1] = got[p]
                        /\ got[p] = IF p \in DOMAIN seen THEN CitedTimes(shown, w)[p] ELSE 0
        /\ \A p \in DOMAIN seen : LET rate == Influence(shown, w)[p] IN 0 < rate[1] /\ rate[1] < rate[2]
        /\ \A b \in DOMAIN BracketRates(shown, w, bracket) :
             LET rate == BracketRates(shown, w, bracket)[b] IN rate[1] < rate[2] /\ rate[2] = slots[b] + 2
        /\ SumFunction(slots) = SumFunction(seen) /\ DistinctPeers(shown, A) = Cardinality(DOMAIN seen)
        /\ \A b \in DOMAIN slots : Readers(shown, A, bracket)[b] <= slots[b]
        /\ Validity(named, shown)[1] = SumFunction(got) /\ Validity(named, shown)[1] <= Validity(named, shown)[2]
  BY DEF AttentionAgrees
<1> HIDE DEF A, bracket, w, C, named, shown, couples
<1>6. /\ CountsReaders(got, A, A, C) /\ CountsReaders(cited, P, A, C) /\ CountsReaders(seen, P, A, shown)
      /\ \A p \in A \ P : ReadersOf(A, C, p) = {}
      /\ P \in SUBSET A
      /\ DOMAIN got = A /\ DOMAIN seen = P /\ DOMAIN cited = P
  <2>1. CitesShown(A, w, C, shown)
    BY <1>2 DEF CitesShown
  <2>2. CountsReaders(got, A, A, C)
    BY <2>1, CitersAreCounted
  <2>3. CountsReaders(cited, P, A, C)
    BY <2>1, CitersAreCounted
  <2>4. CountsReaders(seen, P, A, shown)
    BY <2>1, CitersAreCounted
  <2>5. \A p \in A \ P : ReadersOf(A, C, p) = {}
    BY <2>1, CitersAreCounted
  <2>6. P \in SUBSET A
    BY <2>1, CitersAreCounted
  <2>7. DOMAIN got = A /\ DOMAIN seen = P /\ DOMAIN cited = P
    BY DEF Received, ShownTimes, CitedTimes
  <2> QED
    BY <2>2, <2>3, <2>4, <2>5, <2>6, <2>7
<1>18. /\ \A p \in A : got[p] = Cardinality(ReadersOf(A, C, p))
       /\ \A p \in P : cited[p] = Cardinality(ReadersOf(A, C, p))
       /\ \A p \in P : seen[p] = Cardinality(ReadersOf(A, shown, p))
  BY <1>6 DEF CountsReaders
<1>7. \A p \in A : /\ p \in DOMAIN weights <=> Cardinality(ReadersOf(A, C, p)) > 0
                   /\ p \in DOMAIN weights => weights[p][1] = Cardinality(ReadersOf(A, C, p))
  BY <1>2, <1>4, WeightsCountCiters
<1>8. \A p \in A : /\ Cardinality(ReadersOf(A, C, p)) \in Nat /\ Cardinality(ReadersOf(A, shown, p)) \in Nat
                   /\ Cardinality(ReadersOf(A, C, p)) <= Cardinality(ReadersOf(A, shown, p))
  <2>1. \A a \in A : C[a] \subseteq shown[a]
    BY <1>2
  <2> QED
    BY <1>2, <2>1, CitersAreReaders
<1>9. \A p \in P : Influence(shown, w)[p] = <<cited[p] + 1, seen[p] + 2>>
  BY DEF Influence
<1>10. DOMAIN BracketRates(shown, w, bracket) = BracketsOf(P, bracket)
  BY DEF BracketRates
<1>11. \A b \in BracketsOf(P, bracket) :
         LET rate == BracketRates(shown, w, bracket)[b] IN rate[1] < rate[2] /\ rate[2] = slots[b] + 2
  <2>1. \A a \in A : C[a] \subseteq shown[a]
    BY <1>2
  <2>2. CountsReaders(CitedTimes(shown, w), UNION Range(shown), A, C)
        /\ CountsReaders(ShownTimes(shown), UNION Range(shown), A, shown)
    BY <1>6
  <2>3. \A b \in BracketsOf(P, bracket) :
          ProperRate(BracketRates(shown, w, bracket)[b], Slots(shown, A, bracket)[b])
    BY <1>2, <2>1, <2>2, RatesAreProper
  <2> QED
    BY <2>3 DEF ProperRate
<1>12. SumFunction(slots) = SumFunction(seen)
  BY <1>2, <1>6, SlotsAddUp
<1>13. \A b \in DOMAIN slots : Readers(shown, A, bracket)[b] <= slots[b]
  <2>1. DOMAIN slots = BracketsOf(A, bracket)
    BY DEF Slots
  <2> QED
    BY <1>2, <2>1, SlotsAreReadings
<1>14. Validity(named, shown)[1] = SumFunction(got) /\ Validity(named, shown)[1] <= Validity(named, shown)[2]
  BY <1>2, <1>3, <1>6, <1>18, CitationsAreReceived
<1>15. DistinctPeers(shown, A) = Cardinality(DOMAIN seen)
  <2>1. P \cap A = P
    BY <1>6
  <2>2. DistinctPeers(shown, A) = Cardinality(P \cap A)
    BY DEF DistinctPeers
  <2> HIDE DEF P, seen
  <2> QED
    BY <1>6, <2>1, <2>2
<1> HIDE DEF P, seen, cited, got, weights, slots
<1>16. \A p \in A : /\ p \in DOMAIN weights <=> got[p] > 0
                    /\ p \in DOMAIN weights => weights[p][1] = got[p]
                    /\ got[p] = IF p \in DOMAIN seen THEN CitedTimes(shown, w)[p] ELSE 0
  <2> SUFFICES ASSUME NEW p \in A
               PROVE  /\ p \in DOMAIN weights <=> got[p] > 0
                      /\ p \in DOMAIN weights => weights[p][1] = got[p]
                      /\ got[p] = IF p \in DOMAIN seen THEN cited[p] ELSE 0
    BY DEF cited
  <2> DEFINE S == ReadersOf(A, C, p)
  <2>1. got[p] = Cardinality(S) /\ (p \in P => cited[p] = Cardinality(S)) /\ (p \notin P => S = {})
    BY <1>6, <1>18
  <2>2. /\ p \in DOMAIN weights <=> Cardinality(S) > 0
        /\ p \in DOMAIN weights => weights[p][1] = Cardinality(S)
    BY <1>7
  <2> HIDE DEF S
  <2>3. p \notin P => got[p] = 0
    BY <2>1, FS_EmptySet
  <2> QED
    BY <1>6, <2>1, <2>2, <2>3
<1>17. \A p \in DOMAIN seen : LET rate == Influence(shown, w)[p] IN 0 < rate[1] /\ rate[1] < rate[2]
  <2> SUFFICES ASSUME NEW p \in P
               PROVE  LET rate == Influence(shown, w)[p] IN 0 < rate[1] /\ rate[1] < rate[2]
    BY <1>6
  <2>1. cited[p] \in Nat /\ seen[p] \in Nat /\ cited[p] <= seen[p]
    BY <1>6, <1>8, <1>18
  <2>2. 0 < cited[p] + 1 /\ cited[p] + 1 < seen[p] + 2
    BY <2>1
  <2> QED
    BY <1>9, <2>2
<1> QED
  BY <1>5, <1>10, <1>11, <1>12, <1>13, <1>14, <1>15, <1>16, <1>17

\* A failed answer nowhere weighs as a vote, a change of mind or attention, and
\* what is computed in several places (metrics.py, consensus.py, influence.py,
\* evaluation.py, graph/analytics.py) is the same in each, for every roster, every
\* two rounds of answers and every exposure.
THEOREM MeasuresSayTheSame ==
  ASSUME Positions = {"buy", "sell", "hold"},
         Given("moves") => TwoRounds(input), Given("votes") => OneRound(input), Given("cites") => OneExposure(input)
  PROVE  MeasuresAgree
BY FlipsAreCountedOnce, FailuresWeighNothing, ScoresAreSane, AttentionIsTheSame DEF MeasuresAgree
=============================================================================
