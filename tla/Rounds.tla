------------------------------- MODULE Rounds -------------------------------
(***************************************************************************)
(* What a run computes and what it stores: the round engine (rounds.py     *)
(* run_round, simulation.py _run_simulation) and the transactions of       *)
(* graph/schema_writes.py, one cycle of them.  RunLifecycle has the task   *)
(* that runs this coroutine; here is the data it carries from one round to *)
(* the next and into the graph.                                            *)
(*                                                                         *)
(* pc names the await the run is at.  A transaction is atomic; the call    *)
(* that awaits it may fail after it committed as well as before.           *)
(***************************************************************************)
EXTENDS Measures

CONSTANTS
  Agents,         \* Agent ids
  BracketOf,      \* AgentPersona.bracket
  Setups,         \* the [roster, rounds, others] a run may be started with:
                  \* others are the rosters of the versions of the code whose
                  \* commands may run next to it
  AbortPercent,   \* governor.round_abort_failure_percent
  ControlPercent, \* simulation.control_fraction, as a percentage
  Knobs,          \* peer_strategy, peer_limit, min_brackets, bracket_cap, and
                  \* how many peer lines fit in peer_budget_chars
  MaxNamed        \* bound: how many ids a model names in cited_agents

ASSUME RoundsAssumption ==
  /\ BracketOf \in [Agents -> STRING]
  /\ \A s \in Setups : /\ s.roster \subseteq Agents /\ s.roster # {} /\ IsFiniteSet(s.roster)
                       /\ s.rounds \in Nat \ {0}
                       /\ s.others \subseteq SUBSET Agents
  /\ ParseError \notin Positions /\ IsFiniteSet(Positions)
  /\ AbortPercent \in 0..100
  /\ ControlPercent \in 0..100
  /\ MaxNamed \in Nat

VARIABLES
  setup,     \* the roster and the number of rounds of this run
  control,   \* control_ids, drawn from the run seed
  pc,        \* the await of the run, "over" once it returned, "dead" if killed
  outcomes,  \* one RoundOutcome per finished round: decisions and weights
  wave,      \* the decisions of the round that is running
  pairs,     \* the citation pairs read for this round's edges
  applied,   \* the rounds before which a shock was consumed
  status,    \* Cycle.status, "none" without a Cycle node
  described, \* Cycle.run_manifest_json is set
  metrics,   \* the cycle metrics on the Cycle: flips per round, final counts
  nodes,     \* Agent nodes
  decisions, \* Decision nodes with their MADE and CITED edges
  episodes,  \* RationaleEpisode nodes
  edges,     \* INFLUENCED_BY edges
  shocks     \* ShockEvent nodes, by injected_before_round

memory == <<setup, control, outcomes, applied>>
graph  == <<status, described, metrics, nodes, decisions, episodes, edges, shocks>>
vars   == <<memory, pc, wave, pairs, graph>>

NoWave == <<>>
NoMetrics == <<>>

Roster == setup.roster
Round == Len(outcomes) + 1
Previous == outcomes[Len(outcomes)].wave

-----------------------------------------------------------------------------
(* What a round computes. *)

FlipInRound(a, w) ==
  IF Len(outcomes) = 0 THEN NoFlip ELSE FlipType(Previous[a].signal, w[a].signal)

\* _raise_if_round_failed.
WaveFailed(w) ==
  w = NoWave \/ Cardinality(Failed(w)) * 100 > AbortPercent * Cardinality(DOMAIN w)

\* build_round_context: nobody is shown a peer in round 1.  Every weight is
\* positive (influence_weight_base is), so weights only order the draw.
ShownTo(r) ==
  IF Len(outcomes) = 0
  THEN {{}}
  ELSE Exposures(r, Roster, Failed(Previous), control, BracketOf, [a \in Roster |-> 1], Knobs)

\* dispatch_wave and filter_round_citations: a decision per agent, with the
\* citations that survive; an agent that failed named nobody.
Waves ==
  LET Answer(a) ==
        (UNION {{[signal |-> s, shown |-> shown, cited |-> ValidCitations(named, shown, a)] :
                   s \in Positions,
                   named \in UNION {kSubset(k, Roster) : k \in 0..MaxNamed}} : shown \in ShownTo(a)})
        \cup {[signal |-> ParseError, shown |-> shown, cited |-> {}] : shown \in ShownTo(a)}
      answers == [a \in Roster |-> Answer(a)]
  IN  {w \in [Roster -> UNION Range(answers)] : \A a \in Roster : w[a] \in answers[a]}

-----------------------------------------------------------------------------
(* The transactions. *)

\* Bug: an Agent that is missing only costs its own decision.
StoreWhatMatches(w) ==
  LET rows == {a \in DOMAIN w : a \in nodes} IN
  /\ decisions' = decisions \cup
       {[round |-> Round, agent |-> a, signal |-> w[a].signal, shown |-> w[a].shown,
         cited |-> w[a].cited \cap nodes, control |-> a \in control] : a \in rows}
  /\ episodes' = episodes \cup {[round |-> Round, agent |-> a, flip |-> FlipInRound(a, w)] : a \in rows}

\* _persist_round_tx: every decision finds its Agent and its Cycle, or the
\* transaction raises and nothing is written.
StoreRound(w) ==
  /\ DOMAIN w \subseteq nodes /\ status # "none"
  /\ decisions' = decisions \cup
       {[round |-> Round, agent |-> a, signal |-> w[a].signal, shown |-> w[a].shown,
         cited |-> w[a].cited \cap nodes, control |-> a \in control] : a \in DOMAIN w}
  /\ episodes' = episodes \cup
       {[round |-> Round, agent |-> a, flip |-> FlipInRound(a, w)] : a \in DOMAIN w}

\* Bug: the pairs of this round alone.
PairsOfThisRound(upTo) ==
  UNION {{<<d.agent, c>> : c \in d.cited \ {d.agent}} : d \in {e \in decisions : e.round = upTo}}

\* _read_citation_pairs_tx: DISTINCT over all rounds so far.
CitationPairs(upTo) ==
  UNION {{<<d.agent, c>> : c \in d.cited \ {d.agent}} : d \in {e \in decisions : e.round <= upTo}}

\* _write_influence_edges_tx.
StoreEdges(ps, active) ==
  edges' = edges \cup
    {[round |-> Round, source |-> p[1], target |-> p[2],
      weight |-> CitationWeights(ps, active)[p[2]]] : p \in {q \in ps : {q[1], q[2]} \subseteq nodes}}

SetStatus(s) == IF status = "none" THEN UNCHANGED status ELSE status' = s

-----------------------------------------------------------------------------
Init ==
  /\ setup \in Setups
  /\ control \in BracketSubsets(setup.roster, BracketOf, ControlPercent)
  /\ pc = "seeding"
  /\ outcomes = <<>> /\ wave = NoWave /\ pairs = {} /\ applied = {}
  /\ status = "none" /\ described = FALSE /\ metrics = NoMetrics
  /\ nodes = setup.roster
  /\ decisions = {} /\ episodes = {} /\ edges = {} /\ shocks = {}

\* An exception (or a cancellation) leaves the run, which records it if it
\* knows its cycle.
Leave == pc' = IF pc = "seeding" THEN "over" ELSE "recording"

Forget == outcomes' = <<>> /\ wave' = NoWave /\ pairs' = {} /\ applied' = {}

\* The await returns, or fails although the transaction committed.  (RunFails
\* at the next await is the same for the transactions that do not use this.)
Reach(p) == pc' = p \/ Leave

CreateCycle ==
  /\ pc = "seeding"
  /\ status' = "running"
  /\ Reach("describing")
  /\ UNCHANGED <<memory, wave, pairs, described, metrics, nodes, decisions, episodes, edges, shocks>>

\* write_run_manifest fails the run if it finds no Cycle.
Describe ==
  /\ pc = "describing" /\ status # "none"
  /\ described' = TRUE
  /\ pc' = "round"
  /\ UNCHANGED <<memory, wave, pairs, status, metrics, nodes, decisions, episodes, edges, shocks>>

\* From round 2 on a pending shock is consumed as the round starts.
BeginRound ==
  /\ pc = "round" /\ Round <= setup.rounds
  /\ \E shocked \in IF Round >= 2 THEN BOOLEAN ELSE {FALSE} :
       /\ applied' = IF shocked THEN applied \cup {Round} ELSE applied
       /\ pc' = IF shocked THEN "shock" ELSE "dispatch"
  /\ UNCHANGED <<setup, control, outcomes, wave, pairs, graph>>

\* write_shock_event: without a Cycle the MATCH finds nothing and nothing fails.
WriteShock ==
  /\ pc = "shock"
  /\ shocks' = IF status = "none" THEN shocks ELSE shocks \cup {Round}
  /\ pc' = "dispatch"
  /\ UNCHANGED <<memory, wave, pairs, status, described, metrics, nodes, decisions, episodes, edges>>

Dispatch ==
  /\ pc = "dispatch"
  /\ \E w \in Waves :
       IF WaveFailed(w)
       THEN Leave /\ Forget
       ELSE wave' = w /\ pc' = "persist" /\ UNCHANGED <<outcomes, pairs, applied>>
  /\ UNCHANGED <<setup, control, graph>>

\* Round 1 has no edges, and neither has a round in which nobody is active.
PersistRound ==
  /\ pc = "persist"
  /\ StoreRound(wave)
  /\ pc' = IF Len(outcomes) > 0 /\ Active(wave) # {} THEN "pairs" ELSE "finish"
  /\ UNCHANGED <<memory, wave, pairs, status, described, metrics, nodes, edges, shocks>>

ReadPairs ==
  /\ pc = "pairs"
  /\ pairs' = CitationPairs(Round)
  /\ pc' = IF pairs' = {} THEN "finish" ELSE "edges"
  /\ UNCHANGED <<memory, wave, graph>>

WriteEdges ==
  /\ pc = "edges"
  /\ StoreEdges(pairs, Cardinality(Active(wave)))
  /\ pc' = "finish"
  /\ UNCHANGED <<memory, wave, pairs, status, described, metrics, nodes, decisions, episodes, shocks>>

\* set_bracket_summaries, on_round_complete and, in round 1, the retest, which
\* stores nothing; then the next round, or the end of the last one.
FinishRound ==
  /\ pc = "finish"
  /\ outcomes' = Append(outcomes,
       [wave |-> wave, weights |-> CitationWeights(pairs, Cardinality(Active(wave)))])
  /\ pc' = IF Round < setup.rounds THEN "round" ELSE "metrics"
  /\ wave' = NoWave /\ pairs' = {}
  /\ UNCHANGED <<setup, control, applied, graph>>

\* _cycle_metrics.
CycleMetrics ==
  [flips |-> [r \in 2..Len(outcomes) |-> TotalFlips(outcomes[r - 1].wave, outcomes[r].wave)],
   final |-> [p \in Positions |-> Cardinality({a \in Roster : Previous[a].signal = p})]]

\* A failed metrics write is logged; only a cancellation leaves the run.
RecordMetrics ==
  /\ pc = "metrics"
  /\ \/ metrics' = CycleMetrics /\ status # "none" /\ pc' = "completing"
     \/ UNCHANGED metrics /\ pc' = "completing"
  /\ UNCHANGED <<memory, wave, pairs, status, described, nodes, decisions, episodes, edges, shocks>>

Complete ==
  /\ pc = "completing" /\ status # "none"
  /\ SetStatus("complete")
  /\ Reach("over")
  /\ UNCHANGED <<memory, wave, pairs, described, metrics, nodes, decisions, episodes, edges, shocks>>

\* An await fails, before its transaction committed: nothing was written.
RunFails ==
  /\ pc \notin {"recording", "over", "dead"}
  /\ Leave /\ Forget
  /\ UNCHANGED <<setup, control, graph>>

\* _record_terminal_status: best effort, and no longer than its timeout.
\* "failed" is also for "cancelled".
RecordTerminal ==
  /\ pc = "recording"
  /\ pc' = "over"
  /\ SetStatus("failed") \/ UNCHANGED status
  /\ UNCHANGED <<memory, wave, pairs, described, metrics, nodes, decisions, episodes, edges, shocks>>

\* The process is killed: what it had in memory is gone.
Kill ==
  /\ pc \notin {"over", "dead"}
  /\ pc' = "dead"
  /\ Forget
  /\ UNCHANGED <<setup, control, graph>>

RunNext ==
  \/ CreateCycle \/ Describe \/ BeginRound \/ WriteShock \/ Dispatch
  \/ PersistRound \/ ReadPairs \/ WriteEdges \/ FinishRound \/ RecordMetrics
  \/ Complete \/ RunFails \/ RecordTerminal \/ Kill
=============================================================================
