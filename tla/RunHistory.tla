----------------------------- MODULE RunHistory -----------------------------
(***************************************************************************)
(* The run lifecycle with what its user was told: the shocks that were     *)
(* accepted and the runs that were stopped.                                *)
(***************************************************************************)
EXTENDS RunLifecycle

VARIABLES
  accepted,  \* how many shocks each run accepted
  stopped    \* the runs for which stop() returned

hvars == <<vars, accepted, stopped>>

HInit == Init /\ accepted = [c \in Cycles |-> 0] /\ stopped = {}

HStop == Stop /\ stopped' = stopped \cup {run} /\ UNCHANGED accepted

HInjectShock ==
  /\ InjectShock
  /\ accepted' = [accepted EXCEPT ![run] = @ + 1]
  /\ UNCHANGED stopped

HNext ==
  \/ HStop \/ HInjectShock
  \/ (Start \/ TaskStep \/ TaskDone) /\ UNCHANGED <<accepted, stopped>>

HSpec == HInit /\ [][HNext]_hvars
HFairSpec == HSpec /\ WF_hvars(TaskStep /\ HNext) /\ WF_hvars(TaskDone /\ HNext)

\* A shock that was accepted reaches a round: a complete cycle holds one
\* ShockEvent for each (state.py:473, "can still reach a later round").
NoShockLost == \A c \in Cycles : status[c] = "complete" => events[c] = accepted[c]

\* simulation_manager.py:291: "Stop the running simulation by cancelling the
\* background task": a run that was stopped does not go on to the report.
StopEndsTheRun == stopped \cap triggered = {}
=============================================================================
