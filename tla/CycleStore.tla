----------------------------- MODULE CycleStore -----------------------------
(***************************************************************************)
(* The cycle in the graph while a run writes it and other processes use    *)
(* it: every alphaswarm command that opens the runtime seeds and prunes    *)
(* the Agent nodes (graph/manager.py ensure_schema), "cycles delete" takes *)
(* the cycle apart statement by statement, "cycles export" copies it, and  *)
(* the report and the replay read it back (graph/analytics.py,             *)
(* graph/replay_interview.py).  The commands under "cycles" do not take    *)
(* the instance lock, so they run next to a run.                           *)
(***************************************************************************)
EXTENDS Rounds

VARIABLES
  command,  \* where the other process is, "idle" without one
  version,  \* the roster its code was built with, while it seeds
  asked,    \* the status it read before it acts
  exported, \* what the last export wrote, if anything
  deleting  \* a delete has removed something of this cycle

cmdVars == <<command, version, asked, exported, deleting>>
storeVars == <<vars, cmdVars>>

NoExport == <<>>

StoreInit ==
  /\ Init
  /\ command = "idle"
  /\ version = {}
  /\ asked = "none"
  /\ exported = NoExport
  /\ deleting = FALSE

\* The final round, from the Cycle (num_rounds is stored when it is created).
FinalRound == setup.rounds

DecisionsIn(r) == {d \in decisions : d.round = r}
DecidedIn(r) == {d \in DecisionsIn(r) : d.signal # ParseError}
EpisodeOf(d) == {e \in episodes : e.round = d.round /\ e.agent = d.agent}

-----------------------------------------------------------------------------
(* A command opens the runtime. *)

\* _seed_agents_tx: MERGE the roster of the code that runs.
OpenRuntime ==
  /\ command = "idle"
  /\ version' \in setup.others
  /\ nodes' = nodes \cup version'
  /\ command' = "seeded"
  /\ UNCHANGED <<memory, pc, wave, pairs, status, described, metrics,
                 decisions, episodes, edges, shocks, asked, exported, deleting>>

\* _prune_stale_agents_tx, a second transaction: agents outside the roster
\* that have made no decision.
PruneAgents ==
  /\ command = "seeded"
  /\ nodes' = {a \in nodes : a \in version \/ \E d \in decisions : d.agent = a}
  /\ command' = "open" /\ version' = {}
  /\ UNCHANGED <<memory, pc, wave, pairs, status, described, metrics,
                 decisions, episodes, edges, shocks, asked, exported, deleting>>

\* The command is interrupted, or it ends.
CommandEnds ==
  /\ command # "idle"
  /\ command' = "idle" /\ asked' = "none" /\ version' = {}
  /\ UNCHANGED <<vars, exported, deleting>>

-----------------------------------------------------------------------------
(* cycles delete. *)

\* _cycles_delete refuses an unknown and a running cycle, then asks;
\* delete_cycle counts the cycle's nodes and ends without one.
AskDelete ==
  /\ command = "open" /\ status \notin {"none", "running"}
  /\ command' = "edges"
  /\ UNCHANGED <<vars, version, asked, exported, deleting>>

\* Bug: the Cycle goes before what is found through it.
DeleteCycleFirst ==
  /\ command = "edges"
  /\ status' = "none" /\ deleting' = TRUE
  /\ command' = "episodes" /\ edges' = {}
  /\ UNCHANGED <<memory, pc, wave, pairs, described, metrics, nodes, decisions,
                 episodes, shocks, version, asked, exported>>

DeleteEdges ==
  /\ command = "edges"
  /\ edges' = {} /\ deleting' = TRUE
  /\ command' = "episodes"
  /\ UNCHANGED <<memory, pc, wave, pairs, status, described, metrics, nodes,
                 decisions, episodes, shocks, version, asked, exported>>

DeleteEpisodes ==
  /\ command = "episodes"
  /\ episodes' = {}
  /\ command' = "decisions"
  /\ UNCHANGED <<memory, pc, wave, pairs, status, described, metrics, nodes,
                 decisions, edges, shocks, version, asked, exported, deleting>>

\* One of the statement's batches; a batch is a round here.
DeleteDecisions ==
  /\ command = "decisions"
  /\ \/ decisions = {} /\ command' = "shocks" /\ UNCHANGED decisions
     \/ \E d \in decisions : decisions' = decisions \ DecisionsIn(d.round) /\ UNCHANGED command
  /\ UNCHANGED <<memory, pc, wave, pairs, status, described, metrics, nodes,
                 episodes, edges, shocks, version, asked, exported, deleting>>

DeleteShocks ==
  /\ command = "shocks"
  /\ shocks' = {}
  /\ command' = "cycle"
  /\ UNCHANGED <<memory, pc, wave, pairs, status, described, metrics, nodes,
                 decisions, episodes, edges, version, asked, exported, deleting>>

\* The Cycle node goes last, with all its properties.
DeleteCycleNode ==
  /\ command = "cycle"
  /\ status' = "none" /\ described' = FALSE /\ metrics' = NoMetrics
  /\ command' = "idle"
  /\ UNCHANGED <<memory, pc, wave, pairs, nodes, decisions, episodes, edges,
                 shocks, version, asked, exported, deleting>>

-----------------------------------------------------------------------------
(* cycles export. *)

\* The status is read first; a running cycle is refused.
AskExport ==
  /\ command = "open" /\ status \notin {"none", "running"}
  /\ command' = "exporting" /\ asked' = status
  /\ UNCHANGED <<vars, version, exported, deleting>>

\* Then every row, in one transaction; of them, the rounds of which every
\* decision is there.  Without a Cycle: CycleNotFoundError.
Export ==
  /\ command = "exporting"
  /\ command' = "idle" /\ asked' = "none"
  /\ exported' = IF status = "none" THEN exported
                 ELSE [status |-> asked,
                       rounds |-> {r \in 1..FinalRound : {d.agent : d \in DecisionsIn(r)} = Roster}]
  /\ UNCHANGED <<vars, version, deleting>>

-----------------------------------------------------------------------------
Commands ==
  \/ OpenRuntime \/ PruneAgents \/ CommandEnds \/ AskDelete
  \/ DeleteEdges \/ DeleteEpisodes \/ DeleteDecisions \/ DeleteShocks
  \/ DeleteCycleNode \/ AskExport \/ Export

StoreNext == (RunNext /\ UNCHANGED cmdVars) \/ Commands

StoreSpec == StoreInit /\ [][StoreNext]_storeVars

-----------------------------------------------------------------------------
(* What the report, the replay and the history read back. *)

SignalCount(r, s) == Cardinality({d \in DecisionsIn(r) : d.signal = s})

ConsensusSummary == [s \in Signals |-> SignalCount(FinalRound, s)]

RoundTimeline ==
  [r \in {d.round : d \in decisions} |-> [s \in Signals |-> SignalCount(r, s)]]

\* The decided agents of each bracket that has a decision.
BracketCounts(r) ==
  [b \in {BracketOf[d.agent] : d \in DecisionsIn(r)} |->
     [p \in Positions |->
        Cardinality({d \in DecisionsIn(r) : BracketOf[d.agent] = b /\ d.signal = p})]]

\* Through the episodes.
SignalFlips ==
  {<<e.round, e.agent, e.flip>> : e \in {x \in episodes : x.flip # NoFlip}}

\* The distinct citers over the agents active in the final round.
InfluenceLeaders ==
  LET final == {e \in edges : e.round = FinalRound} IN
  [t \in {e.target : e \in final} |->
     <<Cardinality({e.source : e \in {x \in final : x.target = t}}),
       Cardinality(DecidedIn(FinalRound))>>]

\* The earliest shock, and who changed position across it.
ShockPivots ==
  LET first == Min(shocks)
      Held(a, r) == CHOOSE d \in DecidedIn(r) : d.agent = a
      comparable == {d.agent : d \in DecidedIn(first - 1)} \cap {d.agent : d \in DecidedIn(first)}
  IN  IF shocks = {} \/ first < 2 THEN {}
      ELSE {a \in comparable : Held(a, first - 1).signal # Held(a, first).signal}

\* Each citation with the position the cited agent held before.
RoundCitations(r) ==
  UNION {{<<d.agent, c, {p.signal : p \in {x \in DecisionsIn(r - 1) : x.agent = c}}>> :
            c \in d.cited \ {d.agent}} : d \in DecisionsIn(r)}

\* The edges of a round, as the live frame and the replay fetch them.
InfluenceEdges(r) == {<<e.source, e.target, e.weight>> : e \in {x \in edges : x.round = r}}

\* What an interview is told its agent did.
AgentDecisions(a) == {<<d.round, d.signal, d.cited>> : d \in {x \in decisions : x.agent = a}}

\* What the advisory reads.
FinalDecisions == {<<d.agent, d.signal>> : d \in DecisionsIn(FinalRound)}

ReplaySignals == {<<d.agent, d.round, d.signal>> : d \in decisions}

\* read_completed_cycles: null without metrics, and r3_flips may be absent.
HistoryFlips ==
  IF metrics = NoMetrics THEN {} ELSE {SumFunction(metrics.flips)}

-----------------------------------------------------------------------------
(* Properties. *)

Whole == status = "complete" /\ ~deleting /\ outcomes # <<>>

Wave(r) == outcomes[r].wave
Rounds == 1..Len(outcomes)

\* What the report, the history and the replay show of a complete cycle is
\* what its run computed in memory and streamed while it ran: counts, flips
\* (kept three ways), shares of influence, pivots, citations.
ReadsAgreeWithRun ==
  Whole =>
    /\ ConsensusSummary = [s \in Signals |-> Cardinality({a \in Roster : Wave(FinalRound)[a].signal = s})]
    /\ DOMAIN RoundTimeline = Rounds
    /\ \A r \in Rounds : BracketCounts(r) = SummaryTable(Wave(r), Roster, BracketOf)
    /\ SignalFlips = UNION {{<<r, a, FlipType(Wave(r - 1)[a].signal, Wave(r)[a].signal)>> :
                              a \in {x \in Active(Wave(r)) \cap Active(Wave(r - 1)) :
                                      Wave(r - 1)[x].signal # Wave(r)[x].signal}} : r \in Rounds \ {1}}
    /\ HistoryFlips \subseteq {Cardinality(SignalFlips)}
    /\ InfluenceLeaders = outcomes[FinalRound].weights
    /\ shocks = applied
    /\ ShockPivots = IF applied = {} THEN {} ELSE {f[2] : f \in {x \in SignalFlips : x[1] = Min(applied)}}
    /\ \A r \in Rounds \ {1} :
         RoundCitations(r) = UNION {{<<a, c, {Wave(r - 1)[c].signal}>> : c \in Wave(r)[a].cited} : a \in Roster}
    /\ \A r \in Rounds : \A e \in InfluenceEdges(r) : e[3] = outcomes[r].weights[e[2]]
    /\ \A a \in Roster :
         AgentDecisions(a) = {<<r, Wave(r)[a].signal, Wave(r)[a].cited>> : r \in Rounds}
    /\ FinalDecisions = {<<a, Wave(FinalRound)[a].signal>> : a \in Roster}
    /\ ReplaySignals = {<<a, r, Wave(r)[a].signal>> : a \in Roster, r \in Rounds}

\* _persist_round_records (rounds.py:233): whatever fails, a round is in the
\* graph for every agent or for none, no later round without the earlier ones,
\* and a complete cycle has them all and says how it was run.
RoundsAreWhole ==
  ~deleting =>
    LET stored == {d.round : d \in decisions} IN
    /\ stored = 1..Cardinality(stored)
    /\ \A r \in stored : {d.agent : d \in DecisionsIn(r)} = Roster
                         /\ Cardinality(DecisionsIn(r)) = Cardinality(Roster)
                         /\ \A d \in DecisionsIn(r) : Cardinality(EpisodeOf(d)) = 1
    /\ status = "complete" => described /\ stored = 1..FinalRound

\* A citation in the graph names a peer that its author was shown: never in
\* round 1, never by a control reader, and always one that held a position in
\* the round before.
CitationsWereShown ==
  \A d \in decisions : \A c \in d.cited :
    /\ c \in d.shown /\ c # d.agent /\ ~d.control /\ d.round > 1
    /\ (~deleting => \E p \in DecidedIn(d.round - 1) : p.agent = c)

\* The edges of a round are the citations so far, once for each pair, however
\* often and in however many rounds it was cited.
EdgesAreCitations ==
  ~deleting => \A r \in {e.round : e \in edges} :
    LET found == {e \in edges : e.round = r}
        cited == UNION {{<<d.agent, c>> : c \in d.cited} : d \in {x \in decisions : x.round \in 1..r}}
    IN  /\ {<<e.source, e.target>> : e \in found} = cited
        /\ Cardinality(found) = Cardinality(cited)

\* What the graph says of who cited whom is what happened in the run's rounds.
CitationsHold == CitationsWereShown /\ EdgesAreCitations

\* A delete that was interrupted can be run again: what is left of a cycle is
\* found from a Cycle node that the command does not refuse.
LeftoversReachable ==
  /\ (decisions # {} \/ episodes # {} \/ edges # {} \/ shocks # {}) => status # "none"
  /\ deleting => status # "running"

\* schema_writes.py:242: whoever decided or was cited keeps the Agent node,
\* whichever version of the code prunes next to the run.
AuthorsSurvive == \A d \in decisions : {d.agent} \cup d.cited \subseteq nodes

\* No command leaves a decision that cannot be reached: not without its cycle,
\* not without its author (schema_writes.py:242, :952).
NothingStranded == LeftoversReachable /\ AuthorsSurvive
=============================================================================
