--------------------------- MODULE GovernorProofs ---------------------------
(***************************************************************************)
(* Proofs about the governor for every number of agents and every setting  *)
(* the assumptions allow.                                                  *)
(***************************************************************************)
EXTENDS GovernorHistory, FiniteSetTheorems, SequenceTheorems, TLAPS

\* The deque keeps its type and its maximal length.
LEMMA PushType ==
  ASSUME NEW window \in Seq(BOOLEAN), Len(window) <= Window, NEW x \in BOOLEAN
  PROVE  Push(window, x) \in Seq(BOOLEAN) /\ Len(Push(window, x)) <= Window
<1>1. CASE Len(window) < Window
  BY <1>1, FailureAssumption DEF Push
<1>2. CASE ~(Len(window) < Window)
  <2>1. window # << >>
    BY <1>2, FailureAssumption
  <2>2. Tail(window) \in Seq(BOOLEAN) /\ Len(Tail(window)) = Len(window) - 1
    BY <2>1
  <2>3. Push(window, x) = Append(Tail(window), x)
    BY <1>2 DEF Push
  <2>. QED
    BY <2>2, <2>3, FailureAssumption
<1>. QED
  BY <1>1, <1>2

\* Waking keeps every task where an agent's task can be, and parks nobody.
LEMMA WakeType ==
  ASSUME NEW ag \in [Agents -> AgentStates]
  PROVE  /\ Wake(ag) \in [Agents -> AgentStates]
         /\ \A a \in Agents : Wake(ag)[a] # "parked"
         /\ \A a \in Agents : Wake(ag)[a] = "holding" <=> ag[a] = "holding"
BY DEF Wake, AgentStates

----------------------------------------------------------------------------
LEMMA GateBoolean == \A s : Gate(s) \in BOOLEAN
BY DEF Gate

\* The handlers of the state machine keep the types of what they write.
LEMMA CheckType ==
  ASSUME TypeOK, NEW r \in Readings, Check(r)
  PROVE  TypeOK'
<1>. USE DEF EnterState, EnterCrisis, GrowBy, ResetCalmChecks, machine, task, Check,
            HandleRunning, HandleThrottled, HandlePaused, HandleCrisis,
            HandleRecovering, CountCalmCheck
<1>1. agent' = agent \/ agent' = Wake(agent)
  OBVIOUS
<1>2. agent' \in [Agents -> AgentStates]
  BY <1>1, WakeType DEF TypeOK
<1>3. state' \in States
  BY DEF TypeOK, States
<1>4. paused' = paused \/ paused' = Gate(state')
  OBVIOUS
<1>5. paused' \in BOOLEAN
  BY <1>4, GateBoolean DEF TypeOK
<1>6. limit' \in 1..MaxParallel
  BY LimitsAssumption DEF TypeOK, AtMost, AtLeast
<1>7. debt' \in 0..MaxDebt
  BY FailureAssumption DEF TypeOK
<1>8. green' \in 0..ScaleUpChecks
  BY FailureAssumption DEF TypeOK, AtMost
<1>9. pausedAge' \in Ages \cup {Unset} /\ crisisAge' \in Ages \cup {Unset}
  BY TimeoutAssumption DEF TypeOK, Ages, Old, Unset
<1>10. monitor' \in {"none", "running", "failed"} /\ callback' \in BOOLEAN
  BY DEF TypeOK
<1>. QED
  BY <1>2, <1>3, <1>5, <1>6, <1>7, <1>8, <1>9, <1>10 DEF TypeOK, raised, session
\* release() keeps the types, whatever the caller does to the phase.
LEMMA ReleaseType ==
  ASSUME TypeOK, NEW a \in Agents, NEW success \in BOOLEAN, Release(a, success),
         phase' \in Phases
  PROVE  TypeOK'
<1>1. agent' \in [Agents -> AgentStates]
  BY WakeType DEF TypeOK, Release, AgentStates
<1>2. inUse' \in Nat /\ successAge' \in Ages
  BY TimeoutAssumption DEF TypeOK, Release, AtLeast, Ages, Old
<1>3. /\ limit' \in 1..MaxParallel /\ debt' \in 0..MaxDebt
      /\ streak' \in 0..RegrowSuccesses
      /\ outcomes' \in Seq(BOOLEAN) /\ Len(outcomes') <= Window
  <2>1. CASE success
    <3>1. RecordSuccess
      BY <2>1 DEF Release
    <3>2. outcomes' = Push(outcomes, TRUE)
      BY <3>1 DEF RecordSuccess
    <3>3. outcomes' \in Seq(BOOLEAN) /\ Len(outcomes') <= Window
      BY <3>2, PushType DEF TypeOK
    <3>4. limit' \in 1..MaxParallel /\ debt' \in 0..MaxDebt
      BY <3>1, LimitsAssumption, FailureAssumption DEF TypeOK, RecordSuccess, RegrowStep, AtMost
    <3>5. streak' \in 0..RegrowSuccesses
      BY <3>1, FailureAssumption DEF TypeOK, RecordSuccess, AtMost
    <3>. QED
      BY <3>3, <3>4, <3>5
  <2>2. CASE ~success
    <3>1. RecordFailure
      BY <2>2 DEF Release
    <3>2. outcomes' = Push(outcomes, FALSE) \/ outcomes' = << >>
      BY <3>1 DEF RecordFailure
    <3>3. outcomes' \in Seq(BOOLEAN) /\ Len(outcomes') <= Window
      <4>1. CASE outcomes' = Push(outcomes, FALSE)
        BY <4>1, PushType DEF TypeOK
      <4>2. CASE outcomes' = << >>
        BY <4>2, FailureAssumption
      <4>. QED
        BY <3>2, <4>1, <4>2
    <3>4. limit' \in 1..MaxParallel /\ debt' \in 0..MaxDebt
      <4>1. \/ limit' = limit /\ debt' = debt
            \/ \E s \in {0, ShrinkStep} :
                 debt + s <= MaxDebt /\ debt' = debt + s /\ limit' = limit - s
        BY <3>1, Zenon DEF RecordFailure
      <4>2. limit \in 1..MaxParallel /\ debt \in 0..MaxDebt
        BY DEF TypeOK
      <4>3. ShrinkStep \in 0..(limit - 1)
        BY <4>2, LimitsAssumption DEF ShrinkStep, AtMost
      <4>. QED
        BY <4>1, <4>2, <4>3, LimitsAssumption, FailureAssumption
    <3>5. streak' \in 0..RegrowSuccesses
      BY <3>1, FailureAssumption DEF RecordFailure
    <3>. QED
      BY <3>3, <3>4, <3>5
  <2>. QED
    BY <2>1, <2>2
<1>. QED
  BY <1>1, <1>2, <1>3 DEF TypeOK, Release, machine, raised, task

\* The steps of an agent: acquire, finish, hard stop, cancellation.
LEMMA AgentType ==
  ASSUME TypeOK, NEW a \in Agents, AgentNext(a)
  PROVE  TypeOK'
<1>1. CASE AcquireRaises(a)
  <2>1. agent' \in [Agents -> AgentStates]
    BY <1>1, WakeType DEF TypeOK, AcquireRaises, AgentStates
  <2>. QED
    BY <1>1, <2>1 DEF TypeOK, AcquireRaises, machine, failures, task, Phases
<1>2. CASE AcquireTakes(a)
  BY <1>2 DEF TypeOK, AcquireTakes, AgentStates, machine, raised, failures, task, session
<1>3. CASE AcquireWaits(a)
  BY <1>3 DEF TypeOK, AcquireWaits, AgentStates, machine, raised, failures, task, session
<1>4. CASE Finish(a)
  BY <1>4, ReleaseType DEF Finish, TypeOK
<1>5. CASE HardStop(a)
  BY <1>5, ReleaseType DEF HardStop, Phases
<1>6. CASE CancelAgent(a)
  <2>1. CASE Release(a, TRUE)
    BY <1>6, <2>1, ReleaseType DEF CancelAgent, TypeOK
  <2>2. CASE GiveUp(a)
    BY <1>6, <2>2
       DEF CancelAgent, GiveUp, TypeOK, AgentStates, machine, raised, failures, task
  <2>. QED
    BY <1>6, <2>1, <2>2 DEF CancelAgent
<1>. QED
  BY <1>1, <1>2, <1>3, <1>4, <1>5, <1>6 DEF AgentNext, Acquire

\* The steps of the monitor that are not checks, of the clock and of the run.
LEMMA OtherType ==
  ASSUME TypeOK, MonitorDies \/ MonitorDone \/ Tick \/ RunNext
  PROVE  TypeOK'
<1>. USE DEF TypeOK, machine, raised, failures, task, session, Phases, Verdicts
<1>1. CASE MonitorDies
  BY <1>1 DEF MonitorDies
<1>2. CASE MonitorDone
  BY <1>2, WakeType DEF MonitorDone
<1>3. CASE Tick
  BY <1>3, TimeoutAssumption DEF Tick, Ages, Old, Unset, AtMost
<1>4. CASE StartMonitoring \/ EndWave \/ CancelWave
  BY <1>4 DEF StartMonitoring, EndWave, CancelWave
<1>5. CASE BeginWave
  BY <1>5 DEF BeginWave, AgentStates
<1>6. ASSUME NEW p \in BOOLEAN, StopMonitoring(p)
      PROVE  TypeOK'
  <2>1. agent' \in [Agents -> AgentStates]
    BY <1>6, WakeType DEF StopMonitoring, ResetSession
  <2>2. /\ 0 \in 0..ScaleUpChecks /\ 0 \in 0..RegrowSuccesses /\ 0 \in 0..MaxDebt
        /\ Baseline \in 1..MaxParallel /\ << >> \in Seq(BOOLEAN) /\ Len(<< >>) <= Window
    BY LimitsAssumption, FailureAssumption
  <2>3. verdict' \in Verdicts
    BY <1>6 DEF StopMonitoring
  <2>. QED
    BY <1>6, <2>1, <2>2, <2>3 DEF StopMonitoring, ResetSession, States, Unset
<1>. QED
  BY <1>1, <1>2, <1>3, <1>4, <1>5, <1>6 DEF RunNext

LEMMA InitType == Init => TypeOK
<1>. SUFFICES ASSUME Init PROVE TypeOK
  OBVIOUS
<1>1. agent \in [Agents -> AgentStates]
  BY DEF Init, AgentStates
<1>2. outcomes \in Seq(BOOLEAN) /\ Len(outcomes) <= Window
  BY FailureAssumption DEF Init
<1>3. limit \in 1..MaxParallel
  BY LimitsAssumption DEF Init
<1>4. /\ green \in 0..ScaleUpChecks /\ streak \in 0..RegrowSuccesses
      /\ debt \in 0..MaxDebt
  BY FailureAssumption DEF Init
<1>5. /\ pausedAge \in Ages \cup {Unset} /\ crisisAge \in Ages \cup {Unset}
      /\ successAge \in Ages
  BY TimeoutAssumption DEF Init, Ages, Old, Unset
<1>. QED
  BY <1>1, <1>2, <1>3, <1>4, <1>5 DEF Init, TypeOK, States, Phases, Verdicts

LEMMA NextType == TypeOK /\ [Next]_vars => TypeOK'
<1>. SUFFICES ASSUME TypeOK, [Next]_vars PROVE TypeOK'
  OBVIOUS
<1>1. CASE UNCHANGED vars
  BY <1>1 DEF TypeOK, vars
<1>2. CASE Next
  BY <1>2, AgentType, CheckType, OtherType DEF Next, MonitorNext
<1>. QED
  BY <1>1, <1>2

\* Type correctness of the governor: the limit stays between one slot and
\* max_parallel, the window within its length and the debt non-negative.
THEOREM TypeCorrect == Spec => []TypeOK
BY InitType, NextType, PTL DEF Spec

----------------------------------------------------------------------------
(* The wake-up discipline and the slot count.                               *)

\* Between waves no agent's task exists; BeginWave relies on it.
WaveBound == phase \in {"stopped", "idle"} => \A a \in Agents : agent[a] = "out"

\* The strengthening that is inductive: neither promise is so alone, since
\* BeginWave overwrites every agent's place.
IInv == TypeOK /\ WaveBound /\ NoLostWakeup /\ SlotsAccounted

\* A check either notifies or leaves the predicate of acquire() alone.
LEMMA CheckNotifies ==
  ASSUME NEW r \in Readings, Check(r)
  PROVE  /\ agent' = Wake(agent) \/ (agent' = agent /\ limit' = limit /\ paused' = paused)
         /\ fatal' = fatal /\ inUse' = inUse /\ phase' = phase
BY Zenon DEF Check, HandleRunning, HandleThrottled, HandlePaused, HandleCrisis,
   HandleRecovering, CountCalmCheck, EnterState, EnterCrisis, GrowBy, machine,
   raised, session

\* Steps that leave every place but at most one alone, up to waking.
LEMMA WakeHolding ==
  ASSUME TypeOK, agent' = Wake(agent) \/ agent' = agent
  PROVE  Holding' = Holding
BY WakeType DEF TypeOK, Holding

LEMMA HoldingFinite == IsFiniteSet(Holding) /\ IsFiniteSet(Holding')
BY AgentsAssumption, FS_Subset DEF Holding

\* A taken slot adds one holder, a returned one removes one.
LEMMA HoldingAdds ==
  ASSUME NEW a \in Agents, a \notin Holding, Holding' = Holding \cup {a}, SlotsAccounted,
         inUse' = inUse + 1
  PROVE  SlotsAccounted'
BY HoldingFinite, FS_AddElement DEF SlotsAccounted

LEMMA HoldingRemoves ==
  ASSUME NEW a \in Agents, a \in Holding, Holding' = Holding \ {a}, SlotsAccounted,
         inUse' = AtLeast(0, inUse - 1)
  PROVE  SlotsAccounted'
<1>1. Cardinality(Holding') = Cardinality(Holding) - 1
  BY HoldingFinite, FS_RemoveElement
<1>2. Cardinality(Holding) \in Nat /\ Cardinality(Holding') \in Nat
  BY HoldingFinite, FS_CardinalityType
<1>. QED
  BY <1>1, <1>2 DEF SlotsAccounted, AtLeast

LEMMA ReleaseHolding ==
  ASSUME TypeOK, NEW a \in Agents, NEW success \in BOOLEAN, Release(a, success)
  PROVE  /\ a \in Holding /\ Holding' = Holding \ {a}
         /\ \A b \in Agents : agent'[b] # "parked"
<1>1. agent' = [Wake(agent) EXCEPT ![a] = "out"] /\ agent[a] = "holding"
  BY DEF Release
<1>2. /\ Wake(agent) \in [Agents -> AgentStates]
      /\ \A b \in Agents : Wake(agent)[b] # "parked"
      /\ \A b \in Agents : Wake(agent)[b] = "holding" <=> agent[b] = "holding"
  BY WakeType DEF TypeOK
<1>. QED
  BY <1>1, <1>2 DEF Holding

\* An agent's step: what it does to the three facts.
LEMMA AgentKeepsInv ==
  ASSUME IInv, NEW a \in Agents, AgentNext(a)
  PROVE  WaveBound' /\ NoLostWakeup' /\ SlotsAccounted'
<1>0. TypeOK /\ agent \in [Agents -> AgentStates] /\ inUse \in Nat /\ limit \in Nat
  BY DEF IInv, TypeOK
<1>1. CASE AcquireRaises(a)
  <2>1. agent' = [agent EXCEPT ![a] = "out"] \/ agent' = [Wake(agent) EXCEPT ![a] = "out"]
    BY <1>1 DEF AcquireRaises
  <2>2. \A b \in Agents : agent'[b] # "parked"
    <3>1. CASE fatal
      BY <1>0, <1>1, <3>1 DEF AcquireRaises, IInv, NoLostWakeup
    <3>2. CASE ~fatal
      BY <1>0, <1>1, <3>2, WakeType DEF AcquireRaises
    <3>. QED
      BY <3>1, <3>2
  <2>3. Holding' = Holding
    BY <1>0, <1>1, <2>1, WakeType DEF AcquireRaises, Holding
  <2>. QED
    BY <1>1, <2>2, <2>3
       DEF AcquireRaises, IInv, WaveBound, NoLostWakeup, SlotsAccounted
<1>2. CASE AcquireTakes(a)
  <2>1. Holding' = Holding \cup {a} /\ a \notin Holding
    BY <1>0, <1>2 DEF AcquireTakes, Holding
  <2>2. SlotsAccounted'
    BY <1>2, <2>1, HoldingAdds DEF AcquireTakes, IInv
  <2>3. NoLostWakeup'
    <3>1. \A b \in Agents : agent[b] # "parked"
      BY <1>0, <1>2 DEF AcquireTakes, CanTake, IInv, NoLostWakeup
    <3>. QED
      BY <1>0, <1>2, <3>1 DEF AcquireTakes, NoLostWakeup
  <2>4. WaveBound'
    BY <1>2 DEF AcquireTakes, IInv, WaveBound, session
  <2>. QED
    BY <2>2, <2>3, <2>4
<1>3. CASE AcquireWaits(a)
  <2>1. Holding' = Holding
    BY <1>0, <1>3 DEF AcquireWaits, Holding
  <2>2. NoLostWakeup'
    BY <1>0, <1>3 DEF AcquireWaits, CanTake, FatalSeen, IInv, NoLostWakeup, machine, raised
  <2>. QED
    BY <1>3, <2>1, <2>2 DEF AcquireWaits, IInv, WaveBound, SlotsAccounted, session
<1>4. ASSUME NEW success \in BOOLEAN, Release(a, success),
             phase' = phase \/ phase' = "aborting"
      PROVE  WaveBound' /\ NoLostWakeup' /\ SlotsAccounted'
  <2>1. /\ a \in Holding /\ Holding' = Holding \ {a}
        /\ \A b \in Agents : agent'[b] # "parked"
    BY <1>0, <1>4, ReleaseHolding
  <2>2. SlotsAccounted'
    BY <1>4, <2>1, HoldingRemoves DEF Release, IInv
  <2>. QED
    BY <1>4, <2>1, <2>2 DEF NoLostWakeup, WaveBound, IInv, Holding
<1>5. CASE GiveUp(a) /\ phase' = phase
  <2>1. Holding' = Holding
    BY <1>0, <1>5 DEF GiveUp, Holding
  <2>2. NoLostWakeup'
    BY <1>0, <1>5 DEF GiveUp, IInv, NoLostWakeup, machine, raised
  <2>. QED
    BY <1>0, <1>5, <2>1, <2>2 DEF GiveUp, IInv, WaveBound, SlotsAccounted
<1>. QED
  BY <1>1, <1>2, <1>3, <1>4, <1>5
     DEF AgentNext, Acquire, Finish, HardStop, CancelAgent

\* A step of the monitor, of the clock or of the run.
LEMMA OtherKeepsInv ==
  ASSUME IInv, MonitorNext \/ Tick \/ RunNext
  PROVE  WaveBound' /\ NoLostWakeup' /\ SlotsAccounted'
<1>0. TypeOK /\ agent \in [Agents -> AgentStates]
  BY DEF IInv, TypeOK
<1>1. ASSUME NEW r \in Readings, Check(r)
      PROVE  WaveBound' /\ NoLostWakeup' /\ SlotsAccounted'
  <2>1. /\ agent' = Wake(agent) \/ (agent' = agent /\ limit' = limit /\ paused' = paused)
        /\ fatal' = fatal /\ inUse' = inUse /\ phase' = phase
    BY <1>1, CheckNotifies
  <2>2. Holding' = Holding
    BY <1>0, <2>1, WakeHolding
  <2>3. NoLostWakeup'
    BY <1>0, <2>1, WakeType DEF IInv, NoLostWakeup
  <2>4. WaveBound'
    BY <1>0, <2>1 DEF IInv, WaveBound, Wake
  <2>. QED
    BY <2>1, <2>2, <2>3, <2>4 DEF IInv, SlotsAccounted
<1>2. CASE MonitorDone
  <2>1. agent' = agent \/ agent' = Wake(agent)
    BY <1>2 DEF MonitorDone
  <2>2. \A b \in Agents : agent'[b] # "parked"
    BY <1>0, <1>2, WakeType DEF MonitorDone, IInv, NoLostWakeup
  <2>3. Holding' = Holding
    BY <1>0, <2>1, WakeHolding
  <2>4. WaveBound'
    BY <1>0, <1>2, <2>1 DEF MonitorDone, IInv, WaveBound, Wake, session
  <2>. QED
    BY <1>2, <2>2, <2>3, <2>4 DEF MonitorDone, IInv, NoLostWakeup, SlotsAccounted
<1>3. CASE MonitorDies \/ Tick \/ StartMonitoring \/ EndWave \/ CancelWave
  BY <1>3 DEF MonitorDies, Tick, StartMonitoring, EndWave, CancelWave, IInv, WaveBound,
     NoLostWakeup, SlotsAccounted, Holding, machine, raised, session
<1>4. CASE BeginWave
  <2>1. Holding = {} /\ Holding' = {}
    BY <1>4 DEF BeginWave, IInv, WaveBound, Holding
  <2>. QED
    BY <1>4, <2>1 DEF BeginWave, IInv, WaveBound, NoLostWakeup, SlotsAccounted
<1>5. ASSUME NEW p \in BOOLEAN, StopMonitoring(p)
      PROVE  WaveBound' /\ NoLostWakeup' /\ SlotsAccounted'
  <2>1. \A b \in Agents : agent'[b] = "out"
    BY <1>0, <1>5 DEF StopMonitoring, ResetSession, Wake
  <2>2. Holding' = {} /\ inUse' = 0
    BY <1>5, <2>1 DEF StopMonitoring, ResetSession, Holding
  <2>. QED
    BY <2>1, <2>2, FS_EmptySet DEF WaveBound, NoLostWakeup, SlotsAccounted
<1>. QED
  BY <1>1, <1>2, <1>3, <1>4, <1>5 DEF MonitorNext, RunNext

LEMMA Inductive == Spec => []IInv
<1>1. Init => IInv
  <2>. SUFFICES ASSUME Init PROVE WaveBound /\ NoLostWakeup /\ SlotsAccounted
    BY InitType DEF IInv
  <2>1. Holding = {}
    BY DEF Init, Holding
  <2>. QED
    BY <2>1, FS_EmptySet DEF Init, WaveBound, NoLostWakeup, SlotsAccounted
<1>2. IInv /\ [Next]_vars => IInv'
  <2>. SUFFICES ASSUME IInv, [Next]_vars PROVE IInv'
    OBVIOUS
  <2>0. TypeOK'
    BY NextType DEF IInv
  <2>1. CASE UNCHANGED vars
    BY <2>0, <2>1 DEF vars, IInv, WaveBound, NoLostWakeup, SlotsAccounted, Holding
  <2>2. CASE Next
    BY <2>0, <2>2, AgentKeepsInv, OtherKeepsInv DEF Next, IInv
  <2>. QED
    BY <2>1, <2>2
<1>. QED
  BY <1>1, <1>2, PTL DEF Spec

\* No agent sleeps in acquire() while there is something for it to wake up for.
THEOREM WakeupsNeverLost == Spec => []NoLostWakeup
BY Inductive, PTL DEF IInv

\* The slot counter is the number of agents that hold a slot.
THEOREM SlotCountExact == Spec => []SlotsAccounted
BY Inductive, PTL DEF IInv

\* Both at once: no slot is lost to a wrong count or to a sleeping waiter.
THEOREM SlotsAreKept == Spec => []SlotsKept
BY WakeupsNeverLost, SlotCountExact, PTL DEF SlotsKept

----------------------------------------------------------------------------
(* The governor implements the slot limiter: each of its steps is a step of *)
(* SlotLimiter or leaves holders, slots, open and dead alone.               *)

\* stop_monitoring() leaves no monitor behind, so starting one does not bring
\* a failed limiter back to life.
NoMonitorWhenStopped == phase = "stopped" => monitor = "none"

LEMMA StoppedInvariant == Spec => []NoMonitorWhenStopped
<1>1. Init => NoMonitorWhenStopped
  BY DEF Init, NoMonitorWhenStopped
<1>2. NoMonitorWhenStopped /\ [Next]_vars => NoMonitorWhenStopped'
  <2>. SUFFICES ASSUME NoMonitorWhenStopped, [Next]_vars PROVE NoMonitorWhenStopped'
    OBVIOUS
  <2>. USE DEF NoMonitorWhenStopped, task, session
  <2>1. CASE UNCHANGED vars
    BY <2>1 DEF vars
  <2>2. ASSUME NEW a \in Agents, AgentNext(a) PROVE NoMonitorWhenStopped'
    BY <2>2 DEF AgentNext, Acquire, AcquireRaises, AcquireTakes, AcquireWaits, Finish,
       HardStop, CancelAgent, Release, GiveUp
  <2>3. CASE MonitorNext
    <3>1. ASSUME NEW r \in Readings, Check(r) PROVE NoMonitorWhenStopped'
      BY <3>1 DEF Check
    <3>. QED
      BY <2>3, <3>1 DEF MonitorNext, MonitorDies, MonitorDone
  <2>4. CASE RunNext
    BY <2>4 DEF RunNext, StartMonitoring, BeginWave, EndWave, CancelWave, StopMonitoring
  <2>5. CASE Tick
    BY <2>5 DEF Tick
  <2>. QED
    BY <2>1, <2>2, <2>3, <2>4, <2>5 DEF Next
<1>. QED
  BY <1>1, <1>2, PTL DEF Spec

\* What has to be shown of a step for each action of the abstract limiter.
LEMMA AsAdjust ==
  ASSUME Holding' = Holding, limit' \in 1..MaxParallel, paused' \in BOOLEAN,
         fatal' = fatal, monitor' = monitor
  PROVE  [Limiter!Next]_Limiter!vars
<1>1. Limiter!Adjust
  BY Zenon DEF Limiter!Adjust, FatalSeen
<1>. QED
  BY <1>1 DEF Limiter!Next

LEMMA AsFail ==
  ASSUME Holding' = Holding, limit' = limit, paused' = paused,
         fatal' \/ monitor' = "failed", fatal' \in BOOLEAN
  PROVE  [Limiter!Next]_Limiter!vars
<1>1. FatalSeen' = TRUE
  BY Zenon DEF FatalSeen
<1>2. (~paused)' = ~paused
  BY Zenon
<1>3. Limiter!Fail
  BY <1>1, <1>2, Zenon DEF Limiter!Fail
<1>. QED
  BY <1>3 DEF Limiter!Next

LEMMA AsReturn ==
  ASSUME NEW a \in Agents, a \in Holding, Holding' = Holding \ {a},
         limit' \in 1..MaxParallel, paused' = paused, fatal' = fatal, monitor' = monitor
  PROVE  [Limiter!Next]_Limiter!vars
<1>1. Limiter!Return(a)
  BY Zenon DEF Limiter!Return, FatalSeen
<1>. QED
  BY <1>1 DEF Limiter!Next

LEMMA AsGrant ==
  ASSUME NEW a \in Agents, a \notin Holding, Holding' = Holding \cup {a},
         Cardinality(Holding) < limit, ~paused, ~FatalSeen, limit \in 1..MaxParallel,
         limit' = limit, paused' = paused, fatal' = fatal, monitor' = monitor
  PROVE  [Limiter!Next]_Limiter!vars
<1>1. FatalSeen' = FatalSeen /\ (~paused)' = ~paused
  BY Zenon DEF FatalSeen
<1>2. Limiter!Cardinality(Holding') = Cardinality(Holding')
  BY DEF Cardinality, Limiter!Cardinality
<1>3. Cardinality(Holding') <= limit
  <2>1. Cardinality(Holding') = Cardinality(Holding) + 1
    BY HoldingFinite, FS_AddElement
  <2>2. Cardinality(Holding) \in Nat
    BY HoldingFinite, FS_CardinalityType
  <2>. QED
    BY <2>1, <2>2
<1>4. Limiter!Grant(a)
  BY <1>1, <1>2, <1>3 DEF Limiter!Grant
<1>. QED
  BY <1>4 DEF Limiter!Next

LEMMA AsReset ==
  ASSUME Holding = {}, Holding' = {}, limit' \in 1..MaxParallel, paused' = FALSE,
         fatal' = FALSE, monitor' = "none"
  PROVE  [Limiter!Next]_Limiter!vars
<1>1. FatalSeen' = FALSE /\ (~paused)' = TRUE
  BY Zenon DEF FatalSeen
<1>2. Limiter!Reset
  BY <1>1 DEF Limiter!Reset
<1>. QED
  BY <1>2 DEF Limiter!Next

\* The step simulation.
LEMMA StepSimulation ==
  ASSUME IInv, IInv', NoMonitorWhenStopped, [Next]_vars
  PROVE  [Limiter!Next]_Limiter!vars
<1>0. /\ TypeOK /\ TypeOK' /\ agent \in [Agents -> AgentStates]
      /\ limit \in 1..MaxParallel /\ limit' \in 1..MaxParallel
      /\ paused \in BOOLEAN /\ paused' \in BOOLEAN
      /\ fatal \in BOOLEAN /\ fatal' \in BOOLEAN
  BY DEF IInv, TypeOK
<1>1. CASE UNCHANGED vars
  BY <1>0, <1>1, AsAdjust DEF vars, Holding
<1>2. ASSUME NEW a \in Agents, AgentNext(a)
      PROVE  [Limiter!Next]_Limiter!vars
  <2>1. CASE AcquireRaises(a)
    <3>1. Holding' = Holding
      BY <1>0, <2>1, WakeType DEF AcquireRaises, Holding
    <3>. QED
      BY <1>0, <2>1, <3>1, AsFail DEF AcquireRaises, machine
  <2>2. CASE AcquireTakes(a)
    <3>1. Holding' = Holding \cup {a} /\ a \notin Holding
      BY <1>0, <2>2 DEF AcquireTakes, Holding
    <3>2. Cardinality(Holding) < limit
      BY <2>2 DEF AcquireTakes, CanTake, IInv, SlotsAccounted
    <3>. QED
      BY <1>0, <2>2, <3>1, <3>2, AsGrant DEF AcquireTakes, CanTake, machine, raised, task
  <2>3. CASE AcquireWaits(a)
    <3>1. Holding' = Holding
      BY <1>0, <2>3 DEF AcquireWaits, Holding
    <3>. QED
      BY <1>0, <2>3, <3>1, AsAdjust DEF AcquireWaits, machine, raised, task
  <2>4. ASSUME NEW success \in BOOLEAN, Release(a, success)
        PROVE  [Limiter!Next]_Limiter!vars
    <3>1. a \in Holding /\ Holding' = Holding \ {a}
      BY <1>0, <2>4, ReleaseHolding
    <3>. QED
      BY <1>0, <2>4, <3>1, AsReturn DEF Release, machine, raised, task
  <2>5. CASE GiveUp(a)
    <3>1. Holding' = Holding
      BY <1>0, <2>5 DEF GiveUp, Holding
    <3>. QED
      BY <1>0, <2>5, <3>1, AsAdjust DEF GiveUp, machine, raised, task
  <2>. QED
    BY <1>2, <2>1, <2>2, <2>3, <2>4, <2>5
       DEF AgentNext, Acquire, Finish, HardStop, CancelAgent
<1>3. ASSUME NEW r \in Readings, Check(r)
      PROVE  [Limiter!Next]_Limiter!vars
  <2>1. Holding' = Holding /\ fatal' = fatal
    BY <1>0, <1>3, CheckNotifies, WakeHolding
  <2>2. \/ monitor' = monitor
        \/ monitor' = "failed" /\ limit' = limit /\ paused' = paused
    BY <1>3, Zenon DEF Check, HandleRunning, HandleThrottled, HandlePaused, HandleCrisis,
       HandleRecovering, CountCalmCheck, EnterCrisis, machine, task
  <2>. QED
    BY <1>0, <2>1, <2>2, AsAdjust, AsFail
<1>4. CASE MonitorDies \/ MonitorDone
  <2>1. Holding' = Holding
    BY <1>0, <1>4, WakeHolding DEF MonitorDies, MonitorDone
  <2>. QED
    BY <1>0, <1>4, <2>1, AsFail DEF MonitorDies, MonitorDone, machine
<1>5. CASE Tick \/ EndWave \/ CancelWave
  BY <1>0, <1>5, AsAdjust DEF Tick, EndWave, CancelWave, Holding, machine, raised, task
<1>6. CASE StartMonitoring
  <2>1. Holding' = Holding /\ limit' = limit /\ paused' = paused /\ fatal' = fatal
    BY <1>6 DEF StartMonitoring, Holding, machine, raised
  <2>2. FatalSeen' = FatalSeen
    BY <1>6, <2>1, Zenon DEF StartMonitoring, FatalSeen, NoMonitorWhenStopped
  <2>3. UNCHANGED Limiter!vars
    BY <2>1, <2>2, Zenon DEF Limiter!vars
  <2>. QED
    BY <2>3
<1>7. CASE BeginWave
  <2>1. Holding' = Holding
    BY <1>7 DEF BeginWave, IInv, WaveBound, Holding
  <2>. QED
    BY <1>0, <1>7, <2>1, AsAdjust DEF BeginWave, machine, raised, task
<1>8. ASSUME NEW p \in BOOLEAN, StopMonitoring(p)
      PROVE  [Limiter!Next]_Limiter!vars
  <2>1. Holding = {} /\ Holding' = {}
    BY <1>0, <1>8 DEF StopMonitoring, ResetSession, Wake, Holding
  <2>. QED
    BY <1>0, <1>8, <2>1, AsReset DEF StopMonitoring, ResetSession
<1>. QED
  BY <1>1, <1>2, <1>3, <1>4, <1>5, <1>6, <1>7, <1>8 DEF Next, MonitorNext, RunNext

\* Whatever the memory readings, failures and cancellations do, the governor
\* is a slot limiter: a slot only while open, alive and below the limit, and a
\* failure that only a reset with no holders undoes.
THEOREM Implements == Spec => ImplementsSlotLimiter
<1>1. Init => Limiter!Init
  <2>. SUFFICES ASSUME Init PROVE Limiter!Init
    OBVIOUS
  <2>1. Holding = {} /\ limit \in 1..MaxParallel
    BY LimitsAssumption DEF Init, Holding
  <2>2. (~paused) = TRUE /\ FatalSeen = FALSE
    BY Zenon DEF Init, FatalSeen
  <2>. QED
    BY <2>1, <2>2 DEF Limiter!Init
<1>2. IInv /\ IInv' /\ NoMonitorWhenStopped /\ [Next]_vars => [Limiter!Next]_Limiter!vars
  BY StepSimulation
<1>. QED
  BY <1>1, <1>2, Inductive, StoppedInvariant, PTL DEF Spec, ImplementsSlotLimiter, Limiter!Spec

-----------------------------------------------------------------------------
(* What the steps owe to the past: a monitor that failed is heard of, an    *)
(* abort was waited for and a scale-up was earned.                         *)

\* The failure of a session's monitor is on record until somebody hears of it.
CrashInv ==
  /\ crashed \in BOOLEAN
  /\ phase = "stopped" => monitor = "none" /\ (verdict = "ok" => ~crashed)
  /\ phase # "stopped" /\ crashed => monitor = "failed"
  /\ delivered => phase = "aborting"

\* The gate has been shut for at least as long as a clock of it runs.
ClockInv ==
  /\ closedAge \in Ages
  /\ Gate(state) => paused
  /\ pausedAge # Unset => state = "PAUSED" /\ pausedAge <= closedAge
  /\ crisisAge # Unset => state = "CRISIS" /\ crisisAge <= closedAge

\* Calm checks are counted in RUNNING only, and at most those in a row.
CalmInv ==
  /\ calmRun \in 0..ScaleUpChecks
  /\ green <= calmRun
  /\ state # "RUNNING" => green = 0

HInv == CrashInv /\ ClockInv /\ CalmInv

-----------------------------------------------------------------------------
LEMMA HistoryIsNext == HNext => Next
BY DEF HNext, HCheck, HTick, HOther, Next, MonitorNext

LEMMA HInitially == HInit => HInv
<1>. SUFFICES ASSUME HInit PROVE HInv
  OBVIOUS
<1>1. CrashInv
  BY DEF HInit, Init, CrashInv
<1>2. ClockInv
  <2>1. 0 \in Ages
    BY TimeoutAssumption DEF Ages, Old
  <2>2. ~Gate(state)
    BY DEF HInit, Init, Gate
  <2>. QED
    BY <2>1, <2>2 DEF HInit, Init, ClockInv
<1>3. CalmInv
  BY FailureAssumption DEF HInit, Init, CalmInv
<1>. QED
  BY <1>1, <1>2, <1>3 DEF HInv

\* A session ends well only when its monitor is alive.
LEMMA CrashStep ==
  ASSUME IInv, CrashInv, Next, Record
  PROVE  CrashInv'
<1>0. /\ monitor \in {"none", "running", "failed"} /\ delivered \in BOOLEAN
      /\ phase \in Phases /\ verdict \in Verdicts
      /\ \A a \in Agents : phase = "stopped" => agent[a] = "out"
  BY DEF IInv, TypeOK, WaveBound
<1>. USE DEF CrashInv, Record, task, raised, session
<1>1. CASE UNCHANGED <<phase, verdict, delivered>> /\ (monitor' = monitor \/ monitor = "running")
  BY <1>0, <1>1, Zenon
<1>2. CASE /\ phase # "stopped" /\ phase' = "aborting" /\ UNCHANGED <<verdict, monitor>>
  BY <1>0, <1>2, Zenon
<1>3. CASE phase # "stopped" /\ phase' \in {"wave", "idle"} /\ phase # "aborting"
           /\ UNCHANGED <<verdict, monitor, delivered>>
  BY <1>0, <1>3, Zenon
<1>4. CASE StartMonitoring
  BY <1>0, <1>4, Zenon DEF StartMonitoring
<1>5. ASSUME NEW p \in BOOLEAN, StopMonitoring(p)
      PROVE  CrashInv'
  <2>1. phase # "stopped" /\ phase' = "stopped" /\ monitor' = "none" /\ delivered' = FALSE
    BY <1>5 DEF StopMonitoring, ResetSession
  <2>2. crashed' \in BOOLEAN /\ (crashed' => crashed)
    <3>1. phase # "stopped" /\ monitor' # "failed"
      BY <2>1
    <3>. QED
      BY <3>1, Zenon
  <2>3. verdict' = "ok" => phase = "idle" /\ (delivered \/ monitor # "failed")
    BY <1>5 DEF StopMonitoring, FatalSeen
  <2>4. phase = "idle" => ~delivered
    BY <1>0
  <2>5. verdict' = "ok" => ~crashed'
    BY <2>1, <2>2, <2>3, <2>4, Zenon
  <2>. QED
    BY <2>1, <2>2, <2>5
<1>6. ASSUME NEW a \in Agents, AgentNext(a)
      PROVE  CrashInv'
  <2>1. phase # "stopped"
    BY <1>0, <1>6 DEF AgentNext, Acquire, AcquireRaises, AcquireTakes, AcquireWaits, Finish,
       HardStop, CancelAgent, Release, GiveUp
  <2>2. \/ UNCHANGED <<phase, verdict, delivered, monitor>>
        \/ phase' = "aborting" /\ UNCHANGED <<verdict, monitor>>
    BY <1>6 DEF AgentNext, Acquire, AcquireRaises, AcquireTakes, AcquireWaits, Finish,
       HardStop, CancelAgent, Release, GiveUp
  <2>. QED
    BY <1>1, <1>2, <2>1, <2>2
<1>7. CASE MonitorNext \/ Tick
  <2>1. ASSUME NEW r \in Readings, Check(r) PROVE CrashInv'
    <3>1. UNCHANGED <<phase, verdict, delivered>> /\ monitor = "running"
      BY <2>1 DEF Check
    <3>. QED
      BY <1>1, <3>1
  <2>2. CASE MonitorDies \/ MonitorDone \/ Tick
    <3>1. UNCHANGED <<phase, verdict, delivered>> /\ (monitor' = monitor \/ monitor = "running")
      BY <2>2 DEF MonitorDies, MonitorDone, Tick
    <3>. QED
      BY <1>1, <3>1
  <2>. QED
    BY <1>7, <2>1, <2>2 DEF MonitorNext
<1>8. CASE BeginWave \/ EndWave
  <2>1. phase # "stopped" /\ phase' \in {"wave", "idle"} /\ phase # "aborting"
        /\ UNCHANGED <<verdict, monitor, delivered>>
    BY <1>8 DEF BeginWave, EndWave
  <2>. QED
    BY <1>3, <2>1
<1>9. CASE CancelWave
  <2>1. phase # "stopped" /\ phase' = "aborting" /\ UNCHANGED <<verdict, monitor>>
    BY <1>9 DEF CancelWave
  <2>. QED
    BY <1>2, <2>1
<1>. QED
  BY <1>4, <1>5, <1>6, <1>7, <1>8, <1>9 DEF Next, RunNext

-----------------------------------------------------------------------------
(* The clocks and the calm checks.                                          *)

\* What a check does to the clocks of the gate.
LEMMA CheckClocks ==
  ASSUME TypeOK, ClockInv, NEW r \in Readings, Check(r)
  PROVE  /\ Gate(state') => paused'
         /\ pausedAge' # Unset => state' = "PAUSED" /\ pausedAge' <= closedAge
         /\ crisisAge' # Unset => state' = "CRISIS" /\ crisisAge' <= closedAge
<1>0. pausedAge \in Ages \cup {Unset} /\ crisisAge \in Ages \cup {Unset} /\ closedAge \in Nat
  BY TimeoutAssumption DEF TypeOK, ClockInv, Ages, Old
<1>. USE <1>0 DEF ClockInv, EnterState, EnterCrisis, machine, task, Unset
<1>1. CASE HandleRunning(r)
  BY <1>1 DEF HandleRunning, CountCalmCheck
<1>2. CASE HandleThrottled(r)
  BY <1>2 DEF HandleThrottled
<1>3. CASE HandlePaused(r)
  BY <1>3 DEF HandlePaused
<1>4. CASE HandleCrisis(r)
  BY <1>4 DEF HandleCrisis
<1>5. CASE HandleRecovering(r)
  BY <1>5 DEF HandleRecovering
<1>. QED
  BY <1>1, <1>2, <1>3, <1>4, <1>5 DEF Check

\* What a check does to the count of calm checks.
LEMMA CheckCounts ==
  ASSUME TypeOK, CalmInv, NEW r \in Readings, Check(r),
         calmRun' = IF IsScaleUpEligible(r) THEN AtMost(calmRun + 1, ScaleUpChecks) ELSE 0
  PROVE  /\ CalmInv'
         /\ state = "RUNNING" /\ limit' > limit => calmRun' >= ScaleUpChecks
<1>0. green \in Nat /\ limit \in Nat /\ ScaleUpChecks \in Nat /\ calmRun \in Nat
  BY FailureAssumption, LimitsAssumption DEF TypeOK, CalmInv
<1>1. calmRun' \in 0..ScaleUpChecks
  BY <1>0 DEF CalmInv, AtMost
<1>. USE <1>0, <1>1 DEF CalmInv, EnterState, EnterCrisis, ResetCalmChecks, machine, task
<1>2. CASE HandleRunning(r)
  <2>1. CASE ~IsScaleUpEligible(r)
    <3>1. green' = 0 /\ (limit' = limit \/ limit' = 1)
      BY <1>2, <2>1 DEF HandleRunning
    <3>2. limit \in 1..MaxParallel
      BY DEF TypeOK
    <3>. QED
      BY <1>2, <3>1, <3>2, LimitsAssumption
  <2>2. CASE IsScaleUpEligible(r)
    <3>1. CountCalmCheck
      BY <1>2, <2>2 DEF HandleRunning, IsScaleUpEligible, IsCrisis, IsPauseZone, IsThrottleZone
    <3>2. calmRun' = AtMost(calmRun + 1, ScaleUpChecks) /\ state' = "RUNNING"
      <4>1. calmRun' = AtMost(calmRun + 1, ScaleUpChecks)
        BY <2>2, Zenon
      <4>2. UNCHANGED <<state, paused, pausedAge, crisisAge, debt, task>>
        BY <3>1, Zenon DEF CountCalmCheck
      <4>3. state = "RUNNING"
        BY <1>2 DEF HandleRunning
      <4>. QED
        BY <4>1, <4>2, <4>3
    <3>. DEFINE count == AtMost(green + 1, ScaleUpChecks)
               grows == GrowBy(AtMost(Step, MaxParallel - limit))
               enough == count >= ScaleUpChecks /\ limit < MaxParallel
    <3>3. \/ enough /\ grows /\ green' = 0
          \/ ~enough /\ green' = count /\ UNCHANGED <<limit, agent>>
      BY <3>1, Zenon DEF CountCalmCheck
    <3>. HIDE DEF grows, count
    <3>4. (count >= ScaleUpChecks /\ green' = 0) \/ (green' = count /\ limit' = limit)
      BY <3>3
    <3>. USE DEF count
    <3>. QED
      BY <3>2, <3>4 DEF AtMost
  <2>. QED
    BY <1>2, <2>1, <2>2 DEF HandleRunning
<1>3. CASE HandleThrottled(r)
  BY <1>3 DEF HandleThrottled
<1>4. CASE HandlePaused(r)
  BY <1>4 DEF HandlePaused
<1>5. CASE HandleCrisis(r)
  BY <1>5 DEF HandleCrisis
<1>6. CASE HandleRecovering(r)
  BY <1>6 DEF HandleRecovering
<1>. QED
  BY <1>2, <1>3, <1>4, <1>5, <1>6 DEF Check

\* The gate's clocks start when it shuts and stop when it opens.
LEMMA ClockStep ==
  ASSUME TypeOK, ClockInv, HNext
  PROVE  ClockInv'
<1>0. /\ pausedAge \in Ages \cup {Unset} /\ crisisAge \in Ages \cup {Unset}
      /\ closedAge \in Ages /\ paused \in BOOLEAN /\ 0 \in Ages
  BY TimeoutAssumption DEF TypeOK, ClockInv, Ages, Old
<1>1. CASE HCheck
  <2>1. PICK r \in Readings : Check(r) /\ closedAge' = IF paused' THEN closedAge ELSE 0
    BY <1>1 DEF HCheck
  <2>2. /\ Gate(state') => paused'
        /\ pausedAge' # Unset => state' = "PAUSED" /\ pausedAge' <= closedAge
        /\ crisisAge' # Unset => state' = "CRISIS" /\ crisisAge' <= closedAge
    BY <2>1, CheckClocks
  <2>3. (state' = "PAUSED" \/ state' = "CRISIS") => paused'
    BY <2>2 DEF Gate
  <2>4. paused' => closedAge' = closedAge
    BY <2>1
  <2>5. closedAge' \in Ages
    BY <1>0, <2>1
  <2>. QED
    BY <2>2, <2>3, <2>4, <2>5 DEF ClockInv
<1>2. CASE HTick
  <2>1. /\ pausedAge' = IF pausedAge = Unset THEN Unset ELSE AtMost(pausedAge + 1, Old)
        /\ crisisAge' = IF crisisAge = Unset THEN Unset ELSE AtMost(crisisAge + 1, Old)
        /\ state' = state /\ paused' = paused
        /\ closedAge' = IF paused THEN AtMost(closedAge + 1, Old) ELSE 0
    BY <1>2 DEF HTick, Tick
  <2>2. closedAge' \in Ages
    BY <1>0, <2>1, TimeoutAssumption DEF Ages, Old, AtMost
  <2>3. (state = "PAUSED" \/ state = "CRISIS") => paused
    BY DEF ClockInv, Gate
  <2>4. paused => closedAge' = AtMost(closedAge + 1, Old)
    BY <2>1
  <2>. HIDE DEF Unset
  <2>5. pausedAge' # Unset => state' = "PAUSED" /\ pausedAge' <= closedAge'
    <3>. SUFFICES ASSUME pausedAge' # Unset PROVE state' = "PAUSED" /\ pausedAge' <= closedAge'
      OBVIOUS
    <3>1. pausedAge # Unset /\ pausedAge' = AtMost(pausedAge + 1, Old)
      BY <2>1
    <3>2. state = "PAUSED" /\ pausedAge <= closedAge /\ pausedAge \in Ages
      BY <1>0, <3>1 DEF ClockInv
    <3>. QED
      BY <1>0, <2>1, <2>3, <2>4, <3>1, <3>2, TimeoutAssumption DEF Ages, Old, AtMost
  <2>6. crisisAge' # Unset => state' = "CRISIS" /\ crisisAge' <= closedAge'
    <3>. SUFFICES ASSUME crisisAge' # Unset PROVE state' = "CRISIS" /\ crisisAge' <= closedAge'
      OBVIOUS
    <3>1. crisisAge # Unset /\ crisisAge' = AtMost(crisisAge + 1, Old)
      BY <2>1
    <3>2. state = "CRISIS" /\ crisisAge <= closedAge /\ crisisAge \in Ages
      BY <1>0, <3>1 DEF ClockInv
    <3>. QED
      BY <1>0, <2>1, <2>3, <2>4, <3>1, <3>2, TimeoutAssumption DEF Ages, Old, AtMost
  <2>. QED
    BY <2>1, <2>2, <2>5, <2>6 DEF ClockInv, Gate
<1>3. CASE HOther
  <2>1. closedAge' = IF paused' THEN closedAge ELSE 0
    BY <1>3 DEF HOther
  <2>2. \/ UNCHANGED <<state, paused, pausedAge, crisisAge>>
        \/ state' = "RUNNING" /\ paused' = FALSE /\ pausedAge' = Unset /\ crisisAge' = Unset
    <3>1. ASSUME NEW a \in Agents, AgentNext(a)
          PROVE  UNCHANGED <<state, paused, pausedAge, crisisAge>>
      BY <3>1 DEF AgentNext, Acquire, AcquireRaises, AcquireTakes, AcquireWaits, Finish,
         HardStop, CancelAgent, Release, GiveUp, machine
    <3>2. ASSUME MonitorDies \/ MonitorDone \/ StartMonitoring \/ BeginWave \/ EndWave \/ CancelWave
          PROVE  UNCHANGED <<state, paused, pausedAge, crisisAge>>
      BY <3>2 DEF MonitorDies, MonitorDone, StartMonitoring, BeginWave, EndWave, CancelWave, machine
    <3>3. ASSUME NEW p \in BOOLEAN, StopMonitoring(p)
          PROVE  state' = "RUNNING" /\ paused' = FALSE /\ pausedAge' = Unset /\ crisisAge' = Unset
      BY <3>3 DEF StopMonitoring, ResetSession
    <3>. QED
      BY <1>3, <3>1, <3>2, <3>3, Zenon DEF HOther, RunNext
  <2>3. closedAge' \in Ages
    BY <1>0, <2>1
  <2>4. CASE UNCHANGED <<state, paused, pausedAge, crisisAge>>
    <3>1. (state = "PAUSED" \/ state = "CRISIS") => paused
      BY DEF ClockInv, Gate
    <3>2. paused => closedAge' = closedAge
      BY <2>1, <2>4
    <3>. QED
      BY <2>3, <2>4, <3>1, <3>2 DEF ClockInv, Gate
  <2>5. CASE state' = "RUNNING" /\ paused' = FALSE /\ pausedAge' = Unset /\ crisisAge' = Unset
    BY <2>3, <2>5 DEF ClockInv, Gate
  <2>. QED
    BY <2>2, <2>4, <2>5
<1>. QED
  BY <1>1, <1>2, <1>3 DEF HNext

\* release() moves the limit up only by paying off debt.
LEMMA ReleaseLimit ==
  ASSUME TypeOK, NEW a \in Agents, NEW success \in BOOLEAN, Release(a, success),
         debt' = debt
  PROVE  limit' <= limit
<1>0. limit \in 1..MaxParallel /\ debt \in 0..MaxDebt
  BY DEF TypeOK
<1>1. CASE success
  <2>1. RecordSuccess
    BY <1>1 DEF Release
  <2>2. limit' = limit \/ (RegrowStep > 0 /\ debt' = debt - RegrowStep)
    BY <2>1, Zenon DEF RecordSuccess
  <2>3. RegrowStep \in Int
    BY <1>0, LimitsAssumption, FailureAssumption DEF RegrowStep, AtMost
  <2>. QED
    BY <1>0, <2>2, <2>3, LimitsAssumption, FailureAssumption
<1>2. CASE ~success
  <2>1. RecordFailure
    BY <1>2 DEF Release
  <2>2. limit' = limit \/ \E s \in {0, ShrinkStep} : limit' = limit - s
    BY <2>1, Zenon DEF RecordFailure
  <2>3. ShrinkStep \in Nat
    BY <1>0, LimitsAssumption DEF ShrinkStep, AtMost
  <2>. QED
    BY <1>0, <2>2, <2>3, LimitsAssumption
<1>. QED
  BY <1>1, <1>2

\* No other step counts a calm check, or raises the limit without paying debt.
LEMMA OtherCounts ==
  ASSUME TypeOK, CalmInv, HTick \/ HOther
  PROVE  /\ CalmInv'
         /\ phase' # "stopped" /\ debt' = debt => limit' <= limit
<1>0. green \in Nat /\ limit \in 1..MaxParallel
  BY FailureAssumption DEF TypeOK
<1>1. ASSUME NEW a \in Agents, AgentNext(a)
      PROVE  /\ UNCHANGED <<state, green>>
             /\ debt' = debt => limit' <= limit
  <2>1. ASSUME NEW success \in BOOLEAN, Release(a, success)
        PROVE  /\ UNCHANGED <<state, green>>
               /\ debt' = debt => limit' <= limit
    BY <2>1, ReleaseLimit DEF Release, machine
  <2>2. CASE Acquire(a) \/ GiveUp(a)
    BY <1>0, <2>2, LimitsAssumption
       DEF Acquire, AcquireRaises, AcquireTakes, AcquireWaits, GiveUp, machine
  <2>. QED
    BY <1>1, <2>1, <2>2 DEF AgentNext, Finish, HardStop, CancelAgent
<1>2. ASSUME MonitorDies \/ MonitorDone \/ Tick \/ StartMonitoring \/ BeginWave
              \/ EndWave \/ CancelWave
      PROVE  UNCHANGED <<state, green, limit>>
  BY <1>2 DEF MonitorDies, MonitorDone, Tick, StartMonitoring, BeginWave, EndWave,
     CancelWave, machine
<1>3. ASSUME NEW p \in BOOLEAN, StopMonitoring(p)
      PROVE  state' = "RUNNING" /\ green' = 0 /\ phase' = "stopped"
  BY <1>3 DEF StopMonitoring, ResetSession
<1>4. calmRun' = calmRun
  BY DEF HTick, HOther
<1>5. /\ UNCHANGED <<state, green>> \/ (state' = "RUNNING" /\ green' = 0)
      /\ phase' # "stopped" /\ debt' = debt => limit' <= limit
  BY <1>0, <1>1, <1>2, <1>3, LimitsAssumption DEF HTick, HOther, RunNext
<1>6. calmRun \in Nat
  BY FailureAssumption DEF CalmInv
<1>. QED
  BY <1>4, <1>5, <1>6 DEF CalmInv

LEMMA CalmStep ==
  ASSUME TypeOK, CalmInv, HNext
  PROVE  CalmInv'
BY OtherCounts, CheckCounts DEF HNext, HCheck

\* The history only watches: what holds of every session holds with it.
THEOREM HistoryWatches == HSpec => Spec
<1>1. HInit => Init
  BY DEF HInit
<1>2. [HNext]_hvars => [Next]_vars
  BY HistoryIsNext DEF hvars
<1>. QED
  BY <1>1, <1>2, PTL DEF HSpec, Spec

LEMMA HInvariance == HSpec => [](IInv /\ HInv)
<1>1. IInv /\ HInv /\ [HNext]_hvars => HInv'
  <2>. SUFFICES ASSUME IInv, HInv, [HNext]_hvars PROVE HInv'
    OBVIOUS
  <2>1. CASE HNext
    <3>1. TypeOK /\ Next /\ Record
      BY <2>1, HistoryIsNext DEF IInv, HNext
    <3>. QED
      BY <2>1, <3>1, CrashStep, ClockStep, CalmStep DEF HInv
  <2>2. CASE UNCHANGED hvars
    BY <2>2 DEF hvars, vars, HInv, CrashInv, ClockInv, CalmInv
  <2>. QED
    BY <2>1, <2>2
<1>. QED
  BY <1>1, HInitially, HistoryWatches, Inductive, PTL DEF HSpec

\* A run whose monitor failed never ends as if nothing had happened: an agent
\* raised the error, stop_monitoring() did, or another one was on its way.
THEOREM CrashesAreHeard == HSpec => []CrashNeverSilent
<1>1. HInv => CrashNeverSilent
  BY DEF HInv, CrashInv, CrashNeverSilent
<1>. QED
  BY <1>1, HInvariance, PTL

\* An abort comes after an uninterrupted closure longer than the timeout, and a
\* scale-up after enough calm checks in a row.
THEOREM StepsAreEarned == HSpec => StepsEarned
<1>. DEFINE Abort == \A r \in Readings :
                       Check(r) /\ monitor' = "failed" => /\ closedAge > CrisisTimeout
                                                          /\ successAge > CrisisTimeout
           ScaleUp == state = "RUNNING" /\ phase' # "stopped" /\ limit' > limit /\ debt' = debt
                        => calmRun' >= ScaleUpChecks
<1>1. IInv /\ HInv => Abort
  <2>. SUFFICES ASSUME IInv, HInv, NEW r \in Readings, Check(r), monitor' = "failed"
                PROVE  closedAge > CrisisTimeout /\ successAge > CrisisTimeout
    OBVIOUS
  <2>1. StuckFor(crisisAge)
    BY DEF Check, HandleRunning, HandleThrottled, HandlePaused, HandleCrisis, HandleRecovering,
       CountCalmCheck, EnterCrisis, machine, task
  <2>2. crisisAge > CrisisTimeout /\ successAge > CrisisTimeout
    BY <2>1 DEF StuckFor
  <2>3. crisisAge # Unset /\ crisisAge \in Ages /\ closedAge \in Ages
    BY <2>2, TimeoutAssumption DEF IInv, TypeOK, HInv, ClockInv, Unset
  <2>. QED
    BY <2>2, <2>3, TimeoutAssumption DEF HInv, ClockInv, Ages, Old
<1>2. IInv /\ HInv /\ [HNext]_hvars => [ScaleUp]_hvars
  <2>. SUFFICES ASSUME IInv, HInv, HNext PROVE ScaleUp
    OBVIOUS
  <2>1. TypeOK /\ CalmInv
    BY DEF IInv, HInv
  <2>2. CASE HCheck
    BY <2>1, <2>2, CheckCounts DEF HCheck
  <2>3. CASE HTick \/ HOther
    <3>1. limit \in Int /\ (phase' # "stopped" /\ debt' = debt => limit' <= limit)
      BY <2>1, <2>3, OtherCounts, LimitsAssumption DEF TypeOK
    <3>2. limit' \in Int
      BY <2>1, HistoryIsNext, NextType, LimitsAssumption DEF TypeOK
    <3>. QED
      BY <3>1, <3>2
  <2>. QED
    BY <2>2, <2>3 DEF HNext
<1>3. IInv /\ HInv /\ [HNext]_hvars => [Abort]_hvars
  BY <1>1
<1>. QED
  BY <1>2, <1>3, HInvariance, PTL DEF HSpec, StepsEarned, AbortJustified, ScaleUpEarned
=============================================================================
