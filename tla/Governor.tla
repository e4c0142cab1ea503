------------------------------ MODULE Governor ------------------------------
(***************************************************************************)
(* ResourceGovernor (src/alphaswarm/governor.py): the slot limiter that    *)
(* every local worker call goes through, the five-state machine that a     *)
(* background monitor drives from memory readings, the rolling-window      *)
(* failure accounting, and the wave of agents that acquires and releases   *)
(* slots (worker.py agent_worker, batch_dispatcher.py dispatch_wave).      *)
(*                                                                         *)
(* One action is what the event loop runs between two awaits.  Time is     *)
(* kept as ages: the code only ever compares now - t > timeout, so an age  *)
(* that saturates at CrisisTimeout + 1 is exact.                           *)
(***************************************************************************)
EXTENDS Integers, Sequences, FiniteSets

CONSTANTS
  Agents,           \* the personas of one wave
  Baseline,         \* baseline_parallel
  MaxParallel,      \* max_parallel
  Step,             \* slot_adjustment_step
  Window,           \* failure_window_size
  FailPercent,      \* batch_failure_threshold_percent
  RegrowSuccesses,  \* failure_regrow_successes
  ScaleUpChecks,    \* scale_up_consecutive_checks
  CrisisTimeout,    \* crisis_timeout_seconds, in clock ticks
  MaxDebt           \* bound of the model: the code's _failure_debt has none

ASSUME AgentsAssumption == IsFiniteSet(Agents)
ASSUME LimitsAssumption ==
  /\ Baseline \in Nat \ {0}
  /\ MaxParallel \in Nat
  /\ Baseline <= MaxParallel
  /\ Step \in Nat \ {0}
ASSUME FailureAssumption ==
  /\ Window \in Nat \ {0}
  /\ FailPercent \in 1..100
  /\ RegrowSuccesses \in Nat \ {0}
  /\ ScaleUpChecks \in Nat \ {0}
  /\ MaxDebt \in Nat
ASSUME TimeoutAssumption == CrisisTimeout \in Nat \ {0}

VARIABLES
  state,         \* _state
  paused,        \* _paused, the gate
  limit,         \* _limit
  inUse,         \* _in_use
  fatal,         \* _fatal is set
  delivered,     \* _fatal_delivered
  pausedAge,     \* now - _paused_since, or Unset
  crisisAge,     \* now - _crisis_start, or Unset
  successAge,    \* now - _last_successful_inference
  green,         \* _consecutive_green_checks, saturated at ScaleUpChecks
  outcomes,      \* _outcomes, a deque of at most Window
  streak,        \* _consecutive_successes, saturated at RegrowSuccesses
  debt,          \* _failure_debt
  monitor,       \* _monitor_task: none, running, or done with an exception
  callback,      \* _on_monitor_done is scheduled and has not run
  agent,         \* where each agent's task is
  phase,         \* where the run that owns the governor is
  verdict        \* how the last stop_monitoring() ended

machine  == <<state, paused, pausedAge, crisisAge, green>>
failures == <<outcomes, streak, debt>>
raised   == <<fatal, delivered>>
task     == <<monitor, callback>>
session  == <<phase, verdict>>
vars == <<state, paused, limit, inUse, fatal, delivered, pausedAge, crisisAge,
          successAge, green, outcomes, streak, debt, monitor, callback, agent,
          phase, verdict>>

States == {"RUNNING", "THROTTLED", "PAUSED", "CRISIS", "RECOVERING"}
Unset == -1
Old == CrisisTimeout + 1
Ages == 0..Old
\* ready: runnable, about to evaluate the predicate; parked: on _changed.wait().
AgentStates == {"out", "ready", "parked", "holding"}
Phases == {"stopped", "idle", "wave", "aborting"}
Verdicts == {"none", "ok", "crisis", "error"}

----------------------------------------------------------------------------
(* MemoryReading: the five classes the thresholds tell apart.  The settings *)
(* force scale_up < throttle < pause, so every pause reading is also a      *)
(* throttle reading; kernel pressure overrides all of them.                 *)
Readings == {"calm", "mid", "throttle", "pause", "crisis"}
IsCrisis(r) == r = "crisis"
IsPauseZone(r) == r = "pause"
IsThrottleZone(r) == r \in {"throttle", "pause"}
IsScaleUpEligible(r) == r = "calm"

AtMost(a, b) == IF a <= b THEN a ELSE b
AtLeast(a, b) == IF a >= b THEN a ELSE b

\* _sync_gate: the queue is closed in PAUSED and CRISIS.
Gate(s) == s \in {"PAUSED", "CRISIS"}

\* _notify: the event is swapped and every parked waiter becomes runnable.
Wake(ag) == [a \in Agents |-> IF ag[a] = "parked" THEN "ready" ELSE ag[a]]

Push(window, x) ==
  IF Len(window) < Window THEN Append(window, x) ELSE Append(Tail(window), x)

FailureCount(window) == Cardinality({i \in DOMAIN window : ~window[i]})

----------------------------------------------------------------------------
Init ==
  /\ state = "RUNNING"
  /\ paused = FALSE
  /\ limit = Baseline
  /\ inUse = 0
  /\ fatal = FALSE
  /\ delivered = FALSE
  /\ pausedAge = Unset
  /\ crisisAge = Unset
  /\ successAge = 0
  /\ green = 0
  /\ outcomes = << >>
  /\ streak = 0
  /\ debt = 0
  /\ monitor = "none"
  /\ callback = FALSE
  /\ agent = [a \in Agents |-> "out"]
  /\ phase = "stopped"
  /\ verdict = "none"

----------------------------------------------------------------------------
(* The monitor's check: _apply_state_transition, one handler per state.     *)

EnterState(s) ==
  /\ state' = s
  /\ paused' = Gate(s)
  /\ agent' = Wake(agent)

\* _enter_crisis; `since` is the age the crisis clock starts from.
EnterCrisis(since) ==
  /\ EnterState("CRISIS")
  /\ limit' = 1
  /\ debt' = 0
  /\ crisisAge' = since
  /\ pausedAge' = Unset
  /\ green' = 0
  /\ UNCHANGED task

\* Bug: no notify.
GrowBySilently(n) == limit' = limit + n /\ UNCHANGED agent

GrowBy(n) == limit' = limit + n /\ agent' = Wake(agent)

\* Bug: the count outlives its streak.
KeepCalmChecks == UNCHANGED green

ResetCalmChecks == green' = 0

\* One more calm check, and scale-up when there have been enough of them.
CountCalmCheck ==
  LET count == AtMost(green + 1, ScaleUpChecks)
  IN  /\ UNCHANGED <<state, paused, pausedAge, crisisAge, debt, task>>
      /\ \/ /\ count >= ScaleUpChecks /\ limit < MaxParallel
            /\ GrowBy(AtMost(Step, MaxParallel - limit))
            /\ green' = 0
         \/ /\ ~(count >= ScaleUpChecks /\ limit < MaxParallel)
            /\ green' = count
            /\ UNCHANGED <<limit, agent>>

HandleRunning(r) ==
  /\ state = "RUNNING"
  /\ \/ IsCrisis(r) /\ EnterCrisis(0)
     \/ /\ ~IsCrisis(r) /\ IsPauseZone(r)
        /\ EnterState("PAUSED")
        /\ pausedAge' = 0
        /\ ResetCalmChecks
        /\ UNCHANGED <<limit, debt, crisisAge, task>>
     \/ /\ ~IsCrisis(r) /\ ~IsPauseZone(r) /\ IsThrottleZone(r)
        /\ EnterState("THROTTLED")
        /\ ResetCalmChecks
        /\ UNCHANGED <<limit, debt, pausedAge, crisisAge, task>>
     \/ ~IsCrisis(r) /\ ~IsThrottleZone(r) /\ IsScaleUpEligible(r) /\ CountCalmCheck
     \/ /\ ~IsCrisis(r) /\ ~IsThrottleZone(r) /\ ~IsScaleUpEligible(r)
        /\ ResetCalmChecks
        /\ UNCHANGED <<state, paused, limit, debt, pausedAge, crisisAge, task, agent>>

HandleThrottled(r) ==
  /\ state = "THROTTLED"
  /\ \/ IsCrisis(r) /\ EnterCrisis(0)
     \/ /\ ~IsCrisis(r) /\ IsPauseZone(r)
        /\ EnterState("PAUSED")
        /\ pausedAge' = 0
        /\ UNCHANGED <<limit, debt, green, crisisAge, task>>
     \/ /\ ~IsCrisis(r) /\ ~IsThrottleZone(r)
        /\ EnterState("RUNNING")
        /\ ResetCalmChecks
        /\ UNCHANGED <<limit, debt, pausedAge, crisisAge, task>>
     \/ /\ ~IsCrisis(r) /\ ~IsPauseZone(r) /\ IsThrottleZone(r)
        /\ UNCHANGED <<machine, limit, debt, task, agent>>

StuckFor(age) == age > CrisisTimeout /\ successAge > CrisisTimeout

\* Bug: a pause waits for memory, however long.
PauseNeverEscalates == FALSE

PauseEscalates == StuckFor(pausedAge)

HandlePaused(r) ==
  /\ state = "PAUSED"
  /\ \/ IsCrisis(r) /\ EnterCrisis(0)
     \/ /\ ~IsCrisis(r) /\ ~IsPauseZone(r)
        /\ EnterState(IF IsThrottleZone(r) THEN "THROTTLED" ELSE "RUNNING")
        /\ pausedAge' = Unset
        /\ UNCHANGED <<limit, debt, green, crisisAge, task>>
     \/ IsPauseZone(r) /\ PauseEscalates /\ EnterCrisis(pausedAge)
     \/ /\ IsPauseZone(r) /\ ~PauseEscalates
        /\ UNCHANGED <<machine, limit, debt, task, agent>>

\* The abort is tested before the reading is: raising ends the monitor task.
HandleCrisis(r) ==
  /\ state = "CRISIS"
  /\ \/ /\ StuckFor(crisisAge)
        /\ monitor' = "failed"
        /\ callback' = TRUE
        /\ UNCHANGED <<machine, limit, debt, agent>>
     \/ /\ ~StuckFor(crisisAge)
        /\ IsCrisis(r) \/ IsPauseZone(r)
        /\ UNCHANGED <<machine, limit, debt, task, agent>>
     \/ /\ ~StuckFor(crisisAge)
        /\ ~IsCrisis(r) /\ ~IsPauseZone(r)
        /\ EnterState("RECOVERING")
        /\ crisisAge' = Unset
        /\ limit' = AtLeast(limit, AtMost(Baseline, limit + Step))
        /\ UNCHANGED <<debt, pausedAge, green, task>>

HandleRecovering(r) ==
  /\ state = "RECOVERING"
  /\ \/ IsCrisis(r) /\ EnterCrisis(0)
     \/ /\ ~IsCrisis(r)
        /\ limit' = AtLeast(limit, AtMost(Baseline, limit + Step))
        /\ agent' = Wake(agent)
        /\ \/ /\ limit' >= Baseline
              /\ state' = "RUNNING" /\ paused' = Gate("RUNNING")
              /\ ResetCalmChecks
           \/ /\ limit' < Baseline
              /\ UNCHANGED <<state, paused, green>>
        /\ UNCHANGED <<debt, pausedAge, crisisAge, task>>

\* One pass of _monitor_loop with reading r.
Check(r) ==
  /\ monitor = "running"
  /\ \/ HandleRunning(r) \/ HandleThrottled(r) \/ HandlePaused(r)
     \/ HandleCrisis(r) \/ HandleRecovering(r)
  /\ UNCHANGED <<inUse, raised, successAge, outcomes, streak, session>>

\* read_combined() or the state machine raised: _monitor_loop turns it into a
\* GovernorCrisisError, which ends the task.
MonitorDies ==
  /\ monitor = "running"
  /\ monitor' = "failed"
  /\ callback' = TRUE
  /\ UNCHANGED <<machine, limit, inUse, raised, successAge, failures, agent, session>>

\* _on_monitor_done, in a later iteration of the event loop.
MonitorDone ==
  /\ callback
  /\ callback' = FALSE
  /\ fatal' = TRUE
  /\ agent' = IF fatal THEN agent ELSE Wake(agent)
  /\ UNCHANGED <<machine, limit, inUse, delivered, successAge, failures, monitor, session>>

\* Time passes: every clock that runs gets older.
Tick ==
  LET Older(age) == IF age = Unset THEN Unset ELSE AtMost(age + 1, Old)
  IN  /\ pausedAge' = Older(pausedAge)
      /\ crisisAge' = Older(crisisAge)
      /\ successAge' = Older(successAge)
      /\ UNCHANGED <<state, paused, green, limit, inUse, raised, failures, task,
                     agent, session>>

----------------------------------------------------------------------------
(* acquire(): absorb a dead monitor, raise, take a slot, or wait.           *)

\* Bug: a dead monitor is not absorbed.
FatalRecorded == fatal

FatalSeen == fatal \/ monitor = "failed"

\* Bug: the gate is not part of the predicate.
HasFreeSlot == inUse < limit

CanTake == ~paused /\ inUse < limit

AcquireRaises(a) ==
  /\ agent[a] = "ready"
  /\ FatalSeen
  /\ fatal' = TRUE
  /\ delivered' = TRUE
  /\ agent' = [(IF fatal THEN agent ELSE Wake(agent)) EXCEPT ![a] = "out"]
  /\ phase' = "aborting"    \* GovernorCrisisError is a hard stop of the wave
  /\ UNCHANGED <<machine, limit, inUse, successAge, failures, task, verdict>>

AcquireTakes(a) ==
  /\ agent[a] = "ready"
  /\ ~FatalSeen
  /\ CanTake
  /\ inUse' = inUse + 1
  /\ agent' = [agent EXCEPT ![a] = "holding"]
  /\ UNCHANGED <<machine, limit, raised, successAge, failures, task, session>>

AcquireWaits(a) ==
  /\ agent[a] = "ready"
  /\ ~FatalSeen
  /\ ~CanTake
  /\ agent' = [agent EXCEPT ![a] = "parked"]
  /\ UNCHANGED <<machine, limit, inUse, raised, successAge, failures, task, session>>

(* release(): the slot, the crisis clock, _record_outcome, _maybe_regrow.   *)

RegrowStep == AtMost(Step, AtMost(debt, MaxParallel - limit))

RecordSuccess ==
  LET run == AtMost(streak + 1, RegrowSuccesses)
      due == /\ debt > 0
             /\ run >= RegrowSuccesses
             /\ state \in {"RUNNING", "THROTTLED"}
      grow == RegrowStep
  IN  /\ outcomes' = Push(outcomes, TRUE)
      /\ \/ /\ ~due
            /\ streak' = run
            /\ UNCHANGED <<debt, limit>>
         \/ /\ due /\ grow > 0
            /\ streak' = 0
            /\ debt' = debt - grow
            /\ limit' = limit + grow
         \/ /\ due /\ grow <= 0
            /\ streak' = 0
            /\ debt' = 0
            /\ UNCHANGED limit

ShrinkStep == AtMost(Step, limit - 1)

RecordFailure ==
  LET window == Push(outcomes, FALSE)
      tripped == /\ Len(window) >= Window
                 /\ FailureCount(window) * 100 >= FailPercent * Len(window)
      shrink == IF state = "CRISIS" THEN 0 ELSE ShrinkStep
  IN  /\ streak' = 0
      /\ \/ /\ ~tripped
            /\ outcomes' = window
            /\ UNCHANGED <<debt, limit>>
         \/ /\ tripped
            /\ debt + shrink <= MaxDebt
            /\ outcomes' = << >>
            /\ debt' = debt + shrink
            /\ limit' = limit - shrink

Release(a, success) ==
  /\ agent[a] = "holding"
  /\ inUse' = AtLeast(0, inUse - 1)
  /\ successAge' = IF success THEN 0 ELSE successAge
  /\ IF success THEN RecordSuccess ELSE RecordFailure
  /\ agent' = [Wake(agent) EXCEPT ![a] = "out"]
  /\ UNCHANGED <<machine, raised, task, verdict>>

\* An inference returns (a parse fallback counts as a success) or fails.
Finish(a) ==
  /\ \E success \in BOOLEAN : Release(a, success)
  /\ UNCHANGED phase

----------------------------------------------------------------------------
(* The run around the governor: a wave per round, the end of the session.   *)

\* A hard stop raised by the provider (budget, authentication, configuration).
HardStop(a) ==
  /\ Release(a, FALSE)
  /\ phase' = "aborting"

\* The user's Stop cancels the wave's TaskGroup.
CancelWave ==
  /\ phase = "wave"
  /\ phase' = "aborting"
  /\ UNCHANGED <<machine, limit, inUse, raised, successAge, failures, task, agent, verdict>>

\* A waiter is cancelled in acquire(), outside agent_worker's try.
GiveUp(a) ==
  /\ agent[a] \in {"ready", "parked"}
  /\ agent' = [agent EXCEPT ![a] = "out"]
  /\ UNCHANGED <<machine, limit, inUse, raised, successAge, failures, task, verdict>>

\* The TaskGroup cancels its children.  CancelledError is no Exception, so
\* agent_worker releases a held slot with success=True.
CancelAgent(a) ==
  /\ phase = "aborting"
  /\ Release(a, TRUE) \/ GiveUp(a)
  /\ UNCHANGED phase

StartMonitoring ==
  /\ phase = "stopped"
  /\ phase' = "idle"
  /\ verdict' = "none"
  /\ monitor' = "running"
  /\ UNCHANGED <<machine, limit, inUse, raised, successAge, failures, callback, agent>>

BeginWave ==
  /\ phase = "idle"
  /\ phase' = "wave"
  /\ agent' = [a \in Agents |-> "ready"]
  /\ UNCHANGED <<machine, limit, inUse, raised, successAge, failures, task, verdict>>

EndWave ==
  /\ phase = "wave"
  /\ \A a \in Agents : agent[a] = "out"
  /\ phase' = "idle"
  /\ UNCHANGED <<machine, limit, inUse, raised, successAge, failures, task, agent, verdict>>

ResetSession ==
  /\ state' = "RUNNING"
  /\ paused' = FALSE
  /\ pausedAge' = Unset
  /\ crisisAge' = Unset
  /\ green' = 0
  /\ limit' = Baseline
  /\ inUse' = 0
  /\ fatal' = FALSE
  /\ delivered' = FALSE
  /\ outcomes' = << >>
  /\ streak' = 0
  /\ debt' = 0
  /\ agent' = Wake(agent)

\* stop_monitoring() in the run's finally; `propagating` says that another
\* exception is already on its way.  _last_successful_inference is kept.
StopMonitoring(propagating) ==
  /\ phase = "idle" \/ (phase = "aborting" /\ propagating)
  /\ \A a \in Agents : agent[a] = "out"
  /\ verdict' = IF propagating THEN "error"
                ELSE IF FatalSeen /\ ~delivered THEN "crisis" ELSE "ok"
  /\ monitor' = "none"
  /\ phase' = "stopped"
  /\ ResetSession
  /\ UNCHANGED <<callback, successAge>>

----------------------------------------------------------------------------
Acquire(a) == AcquireRaises(a) \/ AcquireTakes(a) \/ AcquireWaits(a)

AgentNext(a) == Acquire(a) \/ Finish(a) \/ HardStop(a) \/ CancelAgent(a)
MonitorNext == (\E r \in Readings : Check(r)) \/ MonitorDies \/ MonitorDone
RunNext ==
  \/ StartMonitoring \/ BeginWave \/ EndWave \/ CancelWave
  \/ \E propagating \in BOOLEAN : StopMonitoring(propagating)

Next == (\E a \in Agents : AgentNext(a)) \/ MonitorNext \/ RunNext \/ Tick

\* The states in which a check does something whatever it reads.  The monitor
\* keeps checking, but nothing promises that a reading is ever calm.
CheckActs ==
  \/ state = "PAUSED" /\ PauseEscalates
  \/ state = "CRISIS" /\ StuckFor(crisisAge)
  \/ state = "RECOVERING"

\* The event loop runs every runnable task, the monitor keeps checking, the
\* clock advances and an inference call ends (every provider has timeouts).
\* A woken waiter runs at the front of the ready queue, long before the next
\* check, so one that is repeatedly able to take a slot takes it.  Nothing
\* forces the run to stop, the user to cancel or the monitor to die.
Fairness ==
  /\ \A a \in Agents :
       /\ WF_vars(AcquireRaises(a) \/ AcquireWaits(a))
       /\ SF_vars(AcquireTakes(a))
       /\ WF_vars(Finish(a))
       /\ WF_vars(CancelAgent(a))
  /\ WF_vars(CheckActs /\ \E r \in Readings : Check(r))
  /\ WF_vars(MonitorDone)
  /\ WF_vars(Tick)

Spec == Init /\ [][Next]_vars
FairSpec == Spec /\ Fairness

----------------------------------------------------------------------------
TypeOK ==
  /\ state \in States
  /\ paused \in BOOLEAN
  /\ limit \in 1..MaxParallel
  /\ inUse \in Nat
  /\ fatal \in BOOLEAN
  /\ delivered \in BOOLEAN
  /\ pausedAge \in Ages \cup {Unset}
  /\ crisisAge \in Ages \cup {Unset}
  /\ successAge \in Ages
  /\ green \in 0..ScaleUpChecks
  /\ outcomes \in Seq(BOOLEAN) /\ Len(outcomes) <= Window
  /\ streak \in 0..RegrowSuccesses
  /\ debt \in 0..MaxDebt
  /\ monitor \in {"none", "running", "failed"}
  /\ callback \in BOOLEAN
  /\ agent \in [Agents -> AgentStates]
  /\ phase \in Phases
  /\ verdict \in Verdicts

----------------------------------------------------------------------------
Holding == {a \in Agents : agent[a] = "holding"}

\* An agent sleeps in acquire() only while it could not get anything by being
\* awake: no fatal error is recorded, and the gate is closed or every slot is
\* taken.  Every change of the predicate must therefore notify (_notify), from
\* the monitor, from release(), from the done callback and from the reset.
NoLostWakeup ==
  \A a \in Agents : agent[a] = "parked" => ~fatal /\ (paused \/ inUse >= limit)

\* The counter _in_use is the number of agents inside agent_worker, however
\* their slots come back: success, failure, hard stop or cancellation.
SlotsAccounted == inUse = Cardinality(Holding)

\* The promise of the slots: none is lost, neither to a wrong count nor to a
\* waiter that sleeps while it is free.
SlotsKept == NoLostWakeup /\ SlotsAccounted

\* A closed gate does not stay closed: the reading clears, or the D-07 abort
\* (directly in CRISIS, or by the escalation of a stuck PAUSED) is raised.
GateReopensOrFails == paused ~> (~paused \/ fatal)

\* Every agent that asks for a slot gets one, an error or a cancellation.
WaitersAnswered ==
  \A a \in Agents : (agent[a] \in {"ready", "parked"}) ~> (agent[a] \in {"out", "holding"})

\* Nothing waits for ever, neither behind the gate (governor.py:569) nor for a
\* slot, a notification or the end of a monitor that died (governor.py:381).
EveryWaitEnds == GateReopensOrFails /\ WaitersAnswered

\* The governor is a slot limiter whose life ends with the monitor's.
Limiter == INSTANCE SlotLimiter WITH
  holders <- Holding, slots <- limit, open <- ~paused, dead <- FatalSeen
ImplementsSlotLimiter == Limiter!Spec
=============================================================================
