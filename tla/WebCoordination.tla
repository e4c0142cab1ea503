--------------------------- MODULE WebCoordination ---------------------------
(***************************************************************************)
(* What shares one web process with the runs (web/app.py wires it): the    *)
(* replay (web/replay_manager.py, web/routes/replay.py), the orchestrator  *)
(* jobs (services/jobs.py) with the routes that start them                 *)
(* (web/routes/report.py, web/routes/advisory.py, web/guards.py), and the  *)
(* post-run pipeline (services/post_run.py).                               *)
(*                                                                         *)
(* All of it runs on one event loop; an action is again what runs between  *)
(* two awaits.  A run, a job and a replay exclude each other only by       *)
(* flags that each side reads before it starts.                            *)
(***************************************************************************)
EXTENDS RunLifecycle, FiniteSets

CONSTANT Viewers  \* the concurrent requests to start a replay

ASSUME ViewersAssumption == IsFiniteSet(Viewers)

Kinds == {"advisory", "report"}

VARIABLES
  viewer,    \* where each replay-start request is
  replayOn,  \* ReplayManager._store is set
  asking,    \* the job kinds whose POST route is at an await
  job,       \* who started the job marked running in the StateStore
  task,      \* the task of each job; "ended" until its _on_done has run
  pipe,      \* where the post-run pipeline of the last run is
  outcome    \* the pipeline's ReportOutcome for each cycle

replayVars == <<viewer, replayOn>>
jobVars == <<asking, job, task>>
postRun == <<pipe, outcome>>
wvars == <<vars, replayVars, jobVars, postRun>>

\* ReplayManager._starting; its holder has the manager's lock as well.
Starting == \E q \in Viewers : viewer[q] = "starting"

\* Bug: a replay that is still starting does not count as active.
ReplayShown == replayOn

ReplayActive == replayOn \/ Starting

\* JobRunner.is_busy, for the job statuses j.
BusyWith(j) == \E k \in Kinds : j[k] # "none"

WTypeOK ==
  /\ TypeOK
  /\ viewer \in [Viewers -> {"none", "reading", "starting"}]
  /\ replayOn \in BOOLEAN
  /\ asking \in SUBSET Kinds
  /\ job \in [Kinds -> {"none", "manual", "auto"}]
  /\ task \in [Kinds -> {"none", "working", "ended"}]
  /\ pipe \in {"none", "created", "gating", "advising", "reporting"}
  /\ outcome \in [Cycles -> {"none", "ran", "failed", "skipped"}]

WInit ==
  /\ Init
  /\ viewer = [q \in Viewers |-> "none"] /\ replayOn = FALSE
  /\ asking = {} /\ job = [k \in Kinds |-> "none"] 
  /\ task = [k \in Kinds |-> "none"]
  /\ pipe = "none" /\ outcome = [c \in Cycles |-> "none"]

-----------------------------------------------------------------------------
(* Runs. *)

\* SimulationManager.start with the guards it asks of the others.
StartRun ==
  /\ ~ReplayActive
  /\ pipe = "none" /\ ~BusyWith(job)
  /\ Start
  /\ UNCHANGED <<replayVars, jobVars, postRun>>

\* The done-callback that frees the lock also creates the pipeline's task.
RunDone ==
  /\ TaskDone
  /\ pipe' = IF triggered' # triggered THEN "created" ELSE pipe
  /\ UNCHANGED <<replayVars, jobVars, outcome>>

RunStep ==
  /\ Stop \/ InjectShock \/ TaskStep
  /\ UNCHANGED <<replayVars, jobVars, postRun>>

-----------------------------------------------------------------------------
(* Replay. *)

MoveViewer(q, from, to) == viewer[q] = from /\ viewer' = [viewer EXCEPT ![q] = to]

\* The route checks both flags, then reads the cycle's signals.
AskReplay(q) ==
  /\ MoveViewer(q, "none", "reading")
  /\ ~Running
  /\ ~ReplayActive
  /\ UNCHANGED <<vars, replayOn, jobVars, postRun>>

\* ReplayManager.start, once it has the lock: the flags again, then round 1.
BeginReplay(q) ==
  /\ ~Starting
  /\ ~ReplayActive
  /\ ~Running
  /\ MoveViewer(q, "reading", "starting")
  /\ UNCHANGED <<vars, replayOn, jobVars, postRun>>

\* No signals, a failed read, a replay that is active, or a run.
RefuseReplay(q) ==
  /\ MoveViewer(q, "reading", "none")
  /\ UNCHANGED <<vars, replayOn, jobVars, postRun>>

ShowReplay(q) ==
  /\ MoveViewer(q, "starting", "none")
  /\ replayOn' = TRUE
  /\ UNCHANGED <<vars, jobVars, postRun>>

ReplayFails(q) ==
  /\ MoveViewer(q, "starting", "none")
  /\ UNCHANGED <<vars, replayOn, jobVars, postRun>>

\* stop() waits for the lock, so it never meets a start half done.
StopReplay ==
  /\ replayOn /\ ~Starting
  /\ replayOn' = FALSE
  /\ UNCHANGED <<vars, viewer, jobVars, postRun>>

-----------------------------------------------------------------------------
(* Jobs. *)

\* JobRunner.start with the statuses j: one job at a time, of either kind.
Launch(k, who, j) ==
  /\ ~BusyWith(j)
  /\ job' = [j EXCEPT ![k] = who]
  /\ task' = [task EXCEPT ![k] = "working"]

\* The POST routes: refused during a run, then they read the cycle's status
\* (and the advisory its gate).
AskJob(k) ==
  /\ k \notin asking
  /\ ~Running
  /\ asking' = asking \cup {k}
  /\ UNCHANGED <<vars, replayVars, job, task, postRun>>

\* Bug: the run is not checked again after the route's awaits.
StartJobUnchecked(k) ==
  /\ k \in asking
  /\ asking' = asking \ {k}
  /\ Launch(k, "manual", job)
  /\ \E c \in Cycles : status[c] = "complete"
  /\ UNCHANGED <<vars, replayVars, postRun>>

\* After the last await: the run is checked again, then JobRunner.start.
StartJob(k) ==
  /\ k \in asking
  /\ asking' = asking \ {k}
  /\ ~Running
  /\ \E c \in Cycles : status[c] = "complete"
  /\ Launch(k, "manual", job)
  /\ UNCHANGED <<vars, replayVars, postRun>>

RefuseJob(k) ==
  /\ k \in asking
  /\ asking' = asking \ {k}
  /\ UNCHANGED <<vars, replayVars, job, task, postRun>>

EndJob(k) ==
  /\ task[k] = "working"
  /\ task' = [task EXCEPT ![k] = "ended"]
  /\ UNCHANGED <<vars, replayVars, asking, job, postRun>>

-----------------------------------------------------------------------------
(* The post-run pipeline; its cycle is the last run's, because no run starts *)
(* while it is pending.                                                      *)

\* run_report with the job statuses j and the tasks t: refused at once when
\* a job is running.
StartReport(j, t) ==
  IF BusyWith(j)
  THEN /\ pipe' = "none"
       /\ outcome' = [outcome EXCEPT ![run] = "skipped"]
       /\ job' = j /\ task' = t
  ELSE /\ pipe' = "reporting"
       /\ job' = [j EXCEPT !["report"] = "auto"]
       /\ task' = [t EXCEPT !["report"] = "working"]
       /\ UNCHANGED outcome

BeginPipeline ==
  /\ pipe = "created"
  /\ pipe' = "gating"
  /\ UNCHANGED <<vars, replayVars, jobVars, outcome>>

\* The gate says run, and no other job holds the orchestrator.
StartAdvisory ==
  /\ pipe = "gating"
  /\ Launch("advisory", "auto", job)
  /\ pipe' = "advising"
  /\ UNCHANGED <<vars, replayVars, asking, outcome>>

\* The gate refuses or fails, or the orchestrator is busy: the report is next.
\* A recorded refusal leaves the status of a running job alone.
SkipAdvisory ==
  /\ pipe = "gating"
  /\ StartReport(job, task)
  /\ UNCHANGED <<vars, replayVars, asking>>

AwaitedByPipeline(k) ==
  \/ pipe = "advising" /\ k = "advisory"
  \/ pipe = "reporting" /\ k = "report"

\* Bug: an advisory that raises ends the pipeline.
ResumeOrStop(k, j, t) ==
  IF k = "advisory"
  THEN StartReport(j, t) \/ (pipe' = "none" /\ job' = j /\ task' = t /\ UNCHANGED outcome)
  ELSE /\ pipe' = "none"
       /\ \E o \in {"ran", "failed"} : outcome' = [outcome EXCEPT ![run] = o]
       /\ job' = j /\ task' = t

\* The pipeline's step when the job it awaits has ended, with or without an
\* exception: the advisory is followed by the report either way.
Resume(k, j, t) ==
  IF k = "advisory"
  THEN StartReport(j, t)
  ELSE /\ pipe' = "none"
       /\ \E o \in {"ran", "failed"} : outcome' = [outcome EXCEPT ![run] = o]
       /\ job' = j /\ task' = t

\* _on_done was added to the task before the pipeline awaited it: the status
\* is cleared first, and the pipeline's step follows with nothing in between.
JobDone(k) ==
  LET j == [job EXCEPT ![k] = "none"]
      t == [task EXCEPT ![k] = "none"]
  IN  /\ task[k] = "ended"
      /\ IF AwaitedByPipeline(k)
         THEN Resume(k, j, t)
         ELSE job' = j /\ task' = t /\ UNCHANGED postRun
      /\ UNCHANGED <<vars, replayVars, asking>>

-----------------------------------------------------------------------------
ReplayStep ==
  \/ \E q \in Viewers :
       AskReplay(q) \/ BeginReplay(q) \/ RefuseReplay(q) \/ ShowReplay(q) \/ ReplayFails(q)
  \/ StopReplay

PipelineStep == BeginPipeline \/ StartAdvisory \/ SkipAdvisory

WNext ==
  \/ StartRun \/ RunDone \/ RunStep
  \/ ReplayStep
  \/ \E k \in Kinds : AskJob(k) \/ StartJob(k) \/ RefuseJob(k) \/ EndJob(k) \/ JobDone(k)
  \/ PipelineStep

WSpec == WInit /\ [][WNext]_wvars

\* What has begun goes on by itself; requests come when their users like.
WFairness ==
  /\ WF_wvars(TaskStep /\ UNCHANGED <<replayVars, jobVars, postRun>>)
  /\ WF_wvars(RunDone)
  /\ WF_wvars(PipelineStep)
  /\ \A k \in Kinds : WF_wvars(EndJob(k)) /\ WF_wvars(JobDone(k))
WFairSpec == WSpec /\ WFairness

-----------------------------------------------------------------------------
(* Properties. *)

OrchestratorUsers ==
  (IF Running THEN {"run"} ELSE {}) \cup {k \in Kinds : task[k] # "none"}

\* docs/DECISIONS.md:139: a second user that unloads the orchestrator under
\* the first corrupts the run, so a run, an advisory and a report never overlap.
OneOrchestratorUser == \A u, v \in OrchestratorUsers : u = v

\* What start() and the routes read as "busy" is what the tasks do: a job is
\* marked running exactly while its task is there.
BusyTellsTheTruth == \A k \in Kinds : job[k] = "none" <=> task[k] = "none"

\* One user of the orchestrator, and a mark that every guard can trust to find
\* it: neither is worth anything without the other (services/jobs.py:85).
OrchestratorIsGuarded == OneOrchestratorUser /\ BusyTellsTheTruth

\* B4: live frames and replay frames share the screen; never both at once, not
\* even while the replay still reads its first round.
ReplayExcludesRun == ~(Running /\ ReplayActive)

\* No run slips in between the end of a run and the end of its pipeline.
PipelineBeforeNextRun == pipe # "none" => ~Running /\ run \in triggered

\* A run has the process to itself: no replay next to it, and no pipeline of an
\* earlier run behind it (simulation_manager.py:119-160, replay_manager.py:212).
RunsAreAlone == ReplayExcludesRun /\ PipelineBeforeNextRun

\* The pipeline gives its report up only for a job some user started; its own
\* advisory is over when it looks (post_run.py:1, "then the report, always").
SkippedOnlyForUsers ==
  [][\A c \in Cycles :
       outcome[c] = "none" /\ outcome'[c] = "skipped"
         => \E k \in Kinds : job[k] = "manual"]_wvars

\* Every run that completes gets its report, a recorded failure, or a skip.
EveryRunReported == \A c \in Cycles : c \in triggered ~> outcome[c] # "none"

\* "then the report, always": it comes, and it is skipped only for a user's job.
ReportFollowsRun == EveryRunReported /\ SkippedOnlyForUsers
=============================================================================
