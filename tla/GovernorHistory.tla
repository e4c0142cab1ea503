--------------------------- MODULE GovernorHistory ---------------------------
(***************************************************************************)
(* The governor with history variables, for the promises that relate a     *)
(* step to what came before it: how long the gate has been shut, how many  *)
(* calm checks came in a row, and whether this session's monitor failed.   *)
(***************************************************************************)
EXTENDS Governor

VARIABLES
  closedAge,  \* ticks since the gate was last open
  calmRun,    \* consecutive calm readings, saturated at ScaleUpChecks
  crashed     \* the monitor of the current session has failed

hvars == <<vars, closedAge, calmRun, crashed>>

HInit ==
  /\ Init
  /\ closedAge = 0
  /\ calmRun = 0
  /\ crashed = FALSE

\* A session that ends takes its failure with it.
Record ==
  crashed' = IF phase = "stopped" /\ phase' = "idle" THEN FALSE
             ELSE crashed \/ monitor' = "failed"

HCheck ==
  \E r \in Readings :
    /\ Check(r)
    /\ calmRun' = IF IsScaleUpEligible(r) THEN AtMost(calmRun + 1, ScaleUpChecks) ELSE 0
    /\ closedAge' = IF paused' THEN closedAge ELSE 0

HTick ==
  /\ Tick
  /\ closedAge' = IF paused THEN AtMost(closedAge + 1, Old) ELSE 0
  /\ UNCHANGED calmRun

HOther ==
  /\ (\E a \in Agents : AgentNext(a)) \/ MonitorDies \/ MonitorDone \/ RunNext
  /\ closedAge' = IF paused' THEN closedAge ELSE 0
  /\ UNCHANGED calmRun

HNext == (HCheck \/ HTick \/ HOther) /\ Record

HSpec == HInit /\ [][HNext]_hvars

\* The history variables follow every step, so the fairness is Governor's.
HFairSpec == HSpec /\ Fairness

----------------------------------------------------------------------------
\* D-07: the abort comes only when the queue has been shut for more than the
\* timeout without interruption and nothing succeeded in that time, whichever
\* way through PAUSED and CRISIS led there (governor.py:569-611).
AbortJustified ==
  [][\A r \in Readings :
       Check(r) /\ monitor' = "failed" => /\ closedAge > CrisisTimeout
                                          /\ successAge > CrisisTimeout]_hvars

\* D-02: the limit is scaled up only after enough calm checks in a row; calm
\* checks from before another state or another reading do not count.
ScaleUpEarned ==
  [][state = "RUNNING" /\ phase' # "stopped" /\ limit' > limit /\ debt' = debt
       => calmRun' >= ScaleUpChecks]_hvars

\* The monitor's two drastic steps, the abort and the scale-up, come only when
\* an uninterrupted stretch of readings has earned them (governor.py:519-611).
StepsEarned == AbortJustified /\ ScaleUpEarned

\* A run whose monitor failed never ends as if nothing had happened: some
\* agent raised the error, stop_monitoring() did, or another exception was
\* already propagating (governor.py:173-203).
CrashNeverSilent == phase = "stopped" /\ verdict = "ok" => ~crashed
=============================================================================
