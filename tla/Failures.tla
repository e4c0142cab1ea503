------------------------------ MODULE Failures ------------------------------
(***************************************************************************)
(* What becomes of an exception: the class hierarchy of errors.py, the     *)
(* agents that turn one into a failed decision and the wave that does not  *)
(* (batch_dispatcher.py), and the codes by which a run, a job, a request   *)
(* and a command say what went wrong (errors.py, services/jobs.py,         *)
(* web/errors.py, cli.py).  A class is its name.                           *)
(***************************************************************************)
EXTENDS Integers, SequencesExt, FiniteSets

CONSTANT Nothing  \* no exception

-----------------------------------------------------------------------------
(* The classes. *)

InferenceFailures ==
  [InferenceError       |-> {"OllamaInferenceError", "AuthError", "ProviderConfigError", "StructuredOutputError"},
   OllamaInferenceError |-> {"ModelLoadError"}]

DomainFailures ==
  [AlphaSwarmError      |-> {"GraphError", "RoundFailedError", "RoundAlignmentError", "InferenceConfigError",
                             "AgentNotFoundError", "CycleNotFoundError", "CycleNotReadyError",
                             "JobInProgressError", "AdvisoryNotAllowedError"},
   GraphError           |-> {"Neo4jUnavailableError", "Neo4jQueryError", "Neo4jWriteError"},
   InferenceConfigError |-> {"InferenceConfigIncompleteError", "InferenceConfigFileError"}]

ManagerFailures == {"SimulationAlreadyRunningError", "ReplayActiveError", "PostRunJobsInProgressError",
                    "NoSimulationRunningError", "ShockAlreadyQueuedError", "ShockWindowClosedError",
                    "ReplayAlreadyActiveError", "SimulationActiveError", "NoReplayActiveError"}

\* A class and those that derive from it; the built-in ones are at the end.
Derived(c) ==
  (IF c \in DOMAIN InferenceFailures THEN InferenceFailures[c] ELSE {})
  \cup (IF c \in DOMAIN DomainFailures THEN DomainFailures[c] ELSE {})
  \cup (CASE c = "Exception" -> {"InferenceError", "BudgetExceededError", "GovernorCrisisError", "AlphaSwarmError",
                                 "ValueError", "DriverError", "TransportError"} \cup ManagerFailures
          [] c = "ValueError" -> {"InferenceConfigFileError", "ValidationError"}
          [] OTHER -> {})

\* The hierarchy is no deeper than four.
WithDerived(S) == S \cup UNION {Derived(c) : c \in S}
Below(c) == WithDerived(WithDerived(WithDerived(WithDerived({c}))))

Classes == Below("Exception")
Above == [e \in Classes |-> {c \in Classes : e \in Below(c)}]

ASSUME NothingIsNoFailure == Nothing \notin Classes

\* isinstance(e, c).
IsA(e, c) == c \in Above[e]

\* graph/manager.py _map_graph_error: "auth" and "pool" are how the driver says
\* that it got no connection.
GraphFailure(cause, write) ==
  CASE cause \in {"driver", "auth", "pool"} -> "Neo4jUnavailableError"
    [] OTHER -> IF write THEN "Neo4jWriteError" ELSE "Neo4jQueryError"

-----------------------------------------------------------------------------
(* A wave. *)

HardStops == {"BudgetExceededError", "AuthError", "GovernorCrisisError", "ProviderConfigError"}

\* What the call of one agent came to: a reply that was understood or was not,
\* or a class.
Stops(outcome) == outcome \in Classes /\ \E h \in HardStops : IsA(outcome, h)

\* Bug: an exception is a decision that could not be parsed.
DecisionUnmarked(outcome) ==
  CASE outcome = "decided" -> [signal |-> "valid", kind |-> "none"]
    [] OTHER -> [signal |-> "PARSE_ERROR", kind |-> "parse"]

\* _safe_agent_inference, for an outcome that is no hard stop.
Decision(outcome) ==
  CASE outcome = "decided" -> [signal |-> "valid", kind |-> "none"]
    [] outcome = "unparsed" -> [signal |-> "PARSE_ERROR", kind |-> "parse"]
    [] OTHER -> [signal |-> "PARSE_ERROR", kind |-> "inference"]

\* The agents whose state, and whose rationale, the store was sent.
Streamed(finished) == {f.agent : f \in {g \in Range(finished) : ~Stops(g.outcome)}}
Rationales(finished) == {f.agent : f \in {g \in Range(finished) : g.outcome = "decided"}}

\* dispatch_wave: the calls of the wave that ended, in the order they did.  The
\* task group cancels the others at the first hard stop, and raises that one.
WaveEnds(roster, finished) ==
  LET stops == {i \in DOMAIN finished : Stops(finished[i].outcome)}
      results == [a \in roster |-> Decision((CHOOSE f \in Range(finished) : f.agent = a).outcome)]
      failed == {a \in roster : results[a].kind = "inference"}
  IN  IF stops # {}
      THEN [raised |-> finished[Min(stops)].outcome, results |-> <<>>, told |-> <<>>]
      ELSE [raised |-> Nothing, results |-> results,
            told |-> IF failed = {} THEN <<>>
                     ELSE <<Cardinality(roster) - Cardinality(failed), Cardinality(failed)>>]

\* The round of that wave: _raise_if_round_failed.
RoundEnds(roster, finished, percent) ==
  LET w == WaveEnds(roster, finished)
      failed == {a \in DOMAIN w.results : w.results[a].signal = "PARSE_ERROR"}
  IN  CASE w.raised # Nothing -> w.raised
        [] OTHER -> IF Cardinality(failed) * 100 > percent * Cardinality(roster) THEN "RoundFailedError" ELSE Nothing

-----------------------------------------------------------------------------
(* What is said of it. *)

\* _describe tries them in this order.
Described ==
  << <<"BudgetExceededError", "budget_exceeded">>, <<"AuthError", "auth_failed">>,
     <<"ProviderConfigError", "provider_config">>, <<"GovernorCrisisError", "governor_crisis">>,
     <<"RoundFailedError", "round_failed">>, <<"Neo4jUnavailableError", "graph_unavailable">>,
     <<"GraphError", "graph_error">>,
     <<"InferenceConfigIncompleteError", "inference_config_invalid">>,
     <<"InferenceConfigError", "inference_config_invalid">> >>

RunCode(e) ==
  LET applies == {i \in DOMAIN Described : IsA(e, Described[i][1])} IN
  IF applies = {} THEN "internal_error" ELSE Described[Min(applies)][2]

JobFailureCodes == [report |-> "report_generation_failed", advisory |-> "advisory_generation_failed"]

\* services/jobs.py _failure_code; gate is what the refusal of an advisory names.
JobCode(kind, e, gate) ==
  CASE IsA(e, "InferenceConfigError") -> "inference_config_invalid"
    [] IsA(e, "AdvisoryNotAllowedError") -> gate
    [] OTHER -> JobFailureCodes[kind]

\* DOMAIN_ERROR_STATUS and the handlers of the database's failures.
Conflicts == ManagerFailures
Answered == Conflicts \cup {"InferenceConfigError", "CycleNotFoundError", "CycleNotReadyError",
                            "Neo4jUnavailableError", "DriverError"}

\* The handler of a request is that of the most derived class that has one.
HttpStatus(e) ==
  LET applies == Answered \cap Above[e]
      nearest == {c \in applies : \A d \in applies : IsA(c, d)}
  IN  CASE nearest = {} -> 500
        [] nearest \subseteq Conflicts /\ nearest # {} -> 409
        [] nearest \subseteq {"InferenceConfigError", "CycleNotReadyError"} /\ nearest # {} -> 422
        [] nearest = {"CycleNotFoundError"} -> 404
        [] OTHER -> 503

\* cli.py _run_command; an interrupt is 130 whatever it interrupts.
ExitCode(e) ==
  CASE e = Nothing -> 0
    [] e # Nothing /\ \E c \in {"ValidationError", "InferenceConfigError", "ProviderConfigError"} : IsA(e, c) -> 2
    [] OTHER -> 1

\* run_cli: what a command that uses the models exits with, the lock being free,
\* held by another process, or impossible to open.
CommandExit(lock, e) == CASE lock = "free" -> ExitCode(e) [] lock = "held" -> 75 [] OTHER -> 1
=============================================================================
