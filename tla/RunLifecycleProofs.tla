------------------------- MODULE RunLifecycleProofs -------------------------
(***************************************************************************)
(* Proofs about RunLifecycle for any number of rounds and of runs, and     *)
(* about WebCoordination, the rest of the process they run in.             *)
(*                                                                         *)
(* The safety properties speak of a run that is over; that they hold then  *)
(* depends on what was true at each await before.  IInv says what: it      *)
(* relates the await to the exception that propagates, to the governor's   *)
(* session, to the phase, and to what the graph holds by then.             *)
(***************************************************************************)
EXTENDS RunHistory, WebCoordination, TLAPS

\* The awaits at which the run goes well: no exception propagates.
Progress ==
  {"created", "opening", "git", "seeding", "creating", "context", "loading",
   "shocking", "dispatching", "persisting", "influencing", "metrics",
   "completing"}

\* The awaits inside the governor's session.
InSession ==
  {"loading", "shocking", "dispatching", "persisting", "influencing",
   "unloading", "unwatching"}

\* Where the phase is that of the run before, or final.
Settled == {"none", "created", "opening", "ended"}

\* The awaits before anything could end the run's cycle.
Unjudged == Progress \cup {"releasing", "unloading", "unwatching"}

\* Where the run's cycle is known to the tracker and to the StateStore.
Known ==
  InSession \cup {"context", "metrics", "completing", "recording"}

\* The types, in three parts.
TaskType ==
  /\ pc \in Awaits \cup {"none"} /\ exc \in Exceptions
  /\ cancel \in BOOLEAN /\ run \in 0..MaxRuns

StoreType ==
  /\ phase \in Phases /\ round \in 0..NumRounds /\ cycleShown \in 0..MaxRuns
  /\ lastError \in BOOLEAN /\ pending \in BOOLEAN /\ shocks \in {0, 1}
  /\ monitoring \in BOOLEAN

GraphType ==
  /\ status \in [Cycles -> Statuses] /\ persisted \in [Cycles -> 0..NumRounds]
  /\ events \in [Cycles -> Nat] /\ triggered \in SUBSET Cycles

RunInv ==
  /\ Running => run \in Cycles /\ run \notin triggered
  /\ \A c \in triggered : c <= run /\ status[c] = "complete"
  /\ \A c \in Cycles : c > run => status[c] = "none"
  /\ pc \in Known => CycleKnown

ExcInv ==
  /\ pc \in Progress => exc = "none"
  /\ pc = "recording" => exc # "none"

SessionInv ==
  /\ monitoring <=> pc \in InSession
  /\ pending => Running

PhaseInv ==
  /\ pc \in Settled => phase \in {"idle", "complete"}
  /\ pc = "closing" /\ exc = "none" => phase = "complete"
  /\ phase = "complete" =>
       /\ pc \in Settled \cup {"closing"}
       /\ cycleShown \in Cycles /\ status[cycleShown] = "complete"

WholeInv ==
  /\ CompleteMeansWhole
  /\ pc = "influencing" => persisted[run] = round
  /\ pc \in {"unloading", "unwatching", "metrics", "completing"} /\ exc = "none"
       => persisted[run] = NumRounds

StatusInv ==
  /\ pc \in Unjudged => status[run] \in {"none", "running"}
  /\ pc = "recording" /\ exc = "error" => status[run] \in {"none", "running"}
  /\ pc = "closing" /\ exc = "error" => status[run] \in {"none", "running", "failed"}
  /\ pc \in {"closing", "ended"} /\ exc = "none" => status[run] = "complete"
  /\ lastError => pc \in {"ended", "none"} /\ status[run] \in {"none", "running", "failed"}

IInv ==
  /\ TypeOK /\ RunInv /\ ExcInv /\ SessionInv /\ PhaseInv /\ WholeInv /\ StatusInv

-----------------------------------------------------------------------------
\* The manager starts with no run and an empty store.
LEMMA Initially == Init => IInv
<1>. SUFFICES ASSUME Init PROVE IInv
  OBVIOUS
<1>. USE RoundsAssumption, RunsAssumption DEF Init, Running, Cycles
<1>0. 0 \in 0..MaxRuns /\ 0 \in 0..NumRounds
  OBVIOUS
<1>1. TaskType /\ StoreType
  BY <1>0, Zenon DEF TaskType, StoreType, Awaits, Exceptions, Phases
<1>2. GraphType
  BY DEF GraphType, Statuses
<1>3. TypeOK
  BY <1>1, <1>2 DEF TypeOK, TaskType, StoreType, GraphType
<1>4. RunInv /\ ExcInv
  BY DEF RunInv, ExcInv, Progress, InSession, Known
<1>5. SessionInv /\ PhaseInv
  BY DEF SessionInv, PhaseInv, InSession, Settled
<1>6. WholeInv /\ StatusInv
  BY DEF WholeInv, CompleteMeansWhole, StatusInv, Progress, Unjudged
<1>. QED
  BY <1>3, <1>4, <1>5, <1>6 DEF IInv

\* Every step keeps the types of the task's variables,
LEMMA TaskTypeStep ==
  ASSUME TypeOK, Next
  PROVE  TaskType'
<1>. USE RunsAssumption DEF TypeOK, TaskType, Awaits, Exceptions, Running
<1>1. CASE Start
  <2>1. run' \in 0..MaxRuns
    BY <1>1 DEF Start
  <2>2. pc' \in Awaits /\ exc' \in Exceptions /\ cancel' \in BOOLEAN
    BY <1>1 DEF Start
  <2>. QED
    BY <2>1, <2>2
<1>2. CASE Stop \/ InjectShock
  BY <1>2 DEF Stop, store, graph, InjectShock, ShockWindowOpen
<1>3. CASE TaskDone
  BY <1>3 DEF TaskDone, store, graph
<1>4. CASE OpenAndSeed
  <2>1. CASE CancelUnstarted
    BY <2>1 DEF CancelUnstarted, store, graph
  <2>2. CASE Begin
    BY <2>2 DEF Begin, Returns, store, graph
  <2>3. CASE OpenFails
    BY <2>3 DEF OpenFails, Conclude, store, graph
  <2>4. CASE Open
    BY <2>4 DEF Open, Returns, graph
  <2>5. CASE BeginSeeding
    BY <2>5 DEF BeginSeeding, Returns, graph
  <2>6. CASE Seed
    BY <2>6 DEF Seed, Returns, store, graph
  <2>7. CASE SeedFails
    BY <2>7 DEF SeedFails, Raises, store, graph
  <2>8. CASE Release
    BY <2>8 DEF Release, Returns, store, graph
  <2>9. CASE Create
    BY <2>9 DEF Create, Returns
  <2>10. CASE CreateFails
    BY <2>10 DEF CreateFails, Raises, MayHaveWritten, LeaveSimulation, store,
        CycleKnown
  <2>. QED
    BY <1>4, <2>1, <2>2, <2>3, <2>4, <2>5, <2>6, <2>7, <2>8, <2>9, <2>10 DEF
        OpenAndSeed
<1>5. CASE RunRounds
  BY <1>5 DEF RunRounds, StartSession, Returns, store, graph, SimulationFails,
      Raises, LeaveSimulation, CycleKnown, Load, EnterRound, LoadFails,
      WriteShock, Dispatch, PersistRound, NextRound, Finalize, DispatchFails,
      RoundFails, MayHaveWritten
<1>6. CASE WindUp \/ LoseStatus
  BY <1>6 DEF WindUp, Unload, store, graph, StopSession, SessionWasFatal,
      LeaveSimulation, CycleKnown, RecordMetrics, Raises, Complete, Returns,
      CompleteFails, MayHaveWritten, RecordStatus, TerminalStatus,
      InterruptStatus, Close, Conclude, LoseStatus
<1>. QED
  BY <1>1, <1>2, <1>3, <1>4, <1>5, <1>6 DEF Next, TaskStep

\* of the StateStore, where no round passes the last one,
LEMMA StoreTypeStep ==
  ASSUME TypeOK, Next
  PROVE  StoreType'
<1>. USE RoundsAssumption, RunsAssumption DEF TypeOK, StoreType, Phases
<1>1. CASE Start
  BY <1>1 DEF Start, graph
<1>2. CASE Stop \/ InjectShock
  BY <1>2 DEF Stop, store, graph, InjectShock, ShockWindowOpen
<1>3. CASE TaskDone
  BY <1>3 DEF TaskDone, store, graph
<1>4. CASE OpenAndSeed
  <2>1. CASE CancelUnstarted
    BY <2>1 DEF CancelUnstarted, store, graph
  <2>2. CASE Begin
    BY <2>2 DEF Begin, Returns, store, graph
  <2>3. CASE OpenFails
    BY <2>3 DEF OpenFails, Conclude, store, graph
  <2>4. CASE Open
    BY <2>4 DEF Open, Returns, graph
  <2>5. CASE BeginSeeding
    BY <2>5 DEF BeginSeeding, Returns, graph
  <2>6. CASE Seed
    BY <2>6 DEF Seed, Returns, store, graph
  <2>7. CASE SeedFails
    BY <2>7 DEF SeedFails, Raises, store, graph
  <2>8. CASE Release
    BY <2>8 DEF Release, Returns, store, graph
  <2>9. CASE Create
    BY <2>9 DEF Create, Returns
  <2>10. CASE CreateFails
    BY <2>10 DEF CreateFails, Raises, MayHaveWritten, LeaveSimulation, store,
        CycleKnown
  <2>. QED
    BY <1>4, <2>1, <2>2, <2>3, <2>4, <2>5, <2>6, <2>7, <2>8, <2>9, <2>10 DEF
        OpenAndSeed
<1>5. CASE RunRounds
  <2>1. CASE StartSession
    BY <2>1 DEF StartSession, Returns, store, graph
  <2>2. CASE SimulationFails
    BY <2>2 DEF SimulationFails, Raises, LeaveSimulation, store, graph,
        CycleKnown
  <2>3. CASE Load
    BY <2>3 DEF Load, Returns, EnterRound, graph
  <2>4. CASE LoadFails
    BY <2>4 DEF LoadFails, Raises, store, graph
  <2>5. CASE WriteShock
    BY <2>5 DEF WriteShock, Returns, store
  <2>6. CASE Dispatch
    BY <2>6 DEF Dispatch, Returns, store, graph
  <2>7. CASE PersistRound
    BY <2>7 DEF PersistRound, Returns, store
  <2>8. CASE NextRound
    BY <2>8 DEF NextRound, Returns, EnterRound, graph
  <2>9. CASE Finalize
    BY <2>9 DEF Finalize, Returns, graph
  <2>10. CASE DispatchFails
    BY <2>10 DEF DispatchFails, store, graph
  <2>11. CASE RoundFails
    BY <2>11 DEF RoundFails, Raises, MayHaveWritten, store, graph
  <2>. QED
    BY <1>5, <2>1, <2>2, <2>3, <2>4, <2>5, <2>6, <2>7, <2>8, <2>9, <2>10,
        <2>11 DEF RunRounds
<1>6. CASE WindUp \/ LoseStatus
  BY <1>6 DEF WindUp, Unload, store, graph, StopSession, SessionWasFatal,
      LeaveSimulation, CycleKnown, RecordMetrics, Raises, Complete, Returns,
      CompleteFails, MayHaveWritten, RecordStatus, TerminalStatus,
      InterruptStatus, Close, Conclude, LoseStatus
<1>. QED
  BY <1>1, <1>2, <1>3, <1>4, <1>5, <1>6 DEF Next, TaskStep

\* and of the graph.
LEMMA GraphTypeStep ==
  ASSUME TypeOK, RunInv, Next
  PROVE  GraphType'
<1>0. pc \in Awaits \cup {"none"} /\ run \in 0..MaxRuns /\ round \in 0..NumRounds /\ GraphType /\ exc \in Exceptions
  BY DEF TypeOK, GraphType
<1>. USE <1>0 DEF GraphType, RunInv, Statuses, Running, Exceptions
<1>1. CASE Start
  BY <1>1 DEF Start, graph
<1>2. CASE Stop \/ InjectShock
  BY <1>2 DEF Stop, store, graph, InjectShock, ShockWindowOpen
<1>3. CASE TaskDone
  BY <1>3 DEF TaskDone, store, graph
<1>4. CASE OpenAndSeed
  <2>1. CASE CancelUnstarted
    BY <2>1 DEF CancelUnstarted, store, graph
  <2>2. CASE Begin
    BY <2>2 DEF Begin, Returns, store, graph
  <2>3. CASE OpenFails
    BY <2>3 DEF OpenFails, Conclude, store, graph
  <2>4. CASE Open
    BY <2>4 DEF Open, Returns, graph
  <2>5. CASE BeginSeeding
    BY <2>5 DEF BeginSeeding, Returns, graph
  <2>6. CASE Seed
    BY <2>6 DEF Seed, Returns, store, graph
  <2>7. CASE SeedFails
    BY <2>7 DEF SeedFails, Raises, store, graph
  <2>8. CASE Release
    BY <2>8 DEF Release, Returns, store, graph
  <2>9. CASE Create
    BY <2>9 DEF Create, Returns
  <2>10. CASE CreateFails
    BY <2>10 DEF CreateFails, Raises, MayHaveWritten, LeaveSimulation, store,
        CycleKnown
  <2>. QED
    BY <1>4, <2>1, <2>2, <2>3, <2>4, <2>5, <2>6, <2>7, <2>8, <2>9, <2>10 DEF
        OpenAndSeed
<1>5. CASE RunRounds
  BY <1>5 DEF RunRounds, StartSession, Returns, store, graph, SimulationFails,
      Raises, LeaveSimulation, CycleKnown, Load, EnterRound, LoadFails,
      WriteShock, Dispatch, PersistRound, NextRound, Finalize, DispatchFails,
      RoundFails, MayHaveWritten
<1>6. CASE WindUp \/ LoseStatus
  <2>1. CASE Unload
    BY <2>1 DEF Unload, store, graph
  <2>2. CASE StopSession
    BY <2>2 DEF StopSession, store, graph
  <2>3. CASE SessionWasFatal
    BY <2>3 DEF SessionWasFatal, LeaveSimulation, store, graph, CycleKnown
  <2>4. CASE RecordMetrics
    BY <2>4 DEF RecordMetrics, Raises, LeaveSimulation, store, graph,
        CycleKnown
  <2>5. CASE Complete
    BY <2>5 DEF Complete, Returns
  <2>6. CASE CompleteFails
    BY <2>6 DEF CompleteFails, Raises, MayHaveWritten, LeaveSimulation, store,
        CycleKnown
  <2>7. CASE RecordStatus
    BY <2>7 DEF RecordStatus, Returns, store, TerminalStatus
  <2>8. CASE InterruptStatus
    BY <2>8 DEF InterruptStatus, Raises, MayHaveWritten, store, TerminalStatus
  <2>9. CASE Close
    BY <2>9 DEF Close, Conclude, graph
  <2>10. CASE LoseStatus
    BY <2>10 DEF LoseStatus, Returns, store, graph
  <2>. QED
    BY <1>6, <2>1, <2>2, <2>3, <2>4, <2>5, <2>6, <2>7, <2>8, <2>9, <2>10 DEF
        WindUp
<1>. QED
  BY <1>1, <1>2, <1>3, <1>4, <1>5, <1>6 DEF Next, TaskStep

\* What concerns the runs before and after the current one stays.
LEMMA RunInvStep ==
  ASSUME TypeOK, RunInv, ExcInv, StatusInv, Next
  PROVE  RunInv'
<1>0. run \in 0..MaxRuns /\ status \in [Cycles -> Statuses] /\ triggered \subseteq Cycles
  BY DEF TypeOK
<1>. USE <1>0, RunsAssumption DEF RunInv, ExcInv, StatusInv, CycleKnown,
      Cycles, Running, Progress, InSession, Known, Unjudged
<1>1. CASE Start
  BY <1>1 DEF Start, graph
<1>2. CASE Stop \/ InjectShock
  BY <1>2 DEF Stop, store, graph, InjectShock, ShockWindowOpen
<1>3. CASE TaskDone
  BY <1>3 DEF TaskDone, store, graph
<1>4. CASE OpenAndSeed
  <2>1. CASE CancelUnstarted
    BY <2>1 DEF CancelUnstarted, store, graph
  <2>2. CASE Begin
    BY <2>2 DEF Begin, Returns, store, graph
  <2>3. CASE OpenFails
    BY <2>3 DEF OpenFails, Conclude, store, graph
  <2>4. CASE Open
    BY <2>4 DEF Open, Returns, graph
  <2>5. CASE BeginSeeding
    BY <2>5 DEF BeginSeeding, Returns, graph
  <2>6. CASE Seed
    BY <2>6 DEF Seed, Returns, store, graph
  <2>7. CASE SeedFails
    BY <2>7 DEF SeedFails, Raises, store, graph
  <2>8. CASE Release
    BY <2>8 DEF Release, Returns, store, graph
  <2>9. CASE Create
    BY <2>9 DEF Create, Returns
  <2>10. CASE CreateFails
    BY <2>10 DEF CreateFails, Raises, MayHaveWritten, LeaveSimulation, store,
        CycleKnown
  <2>. QED
    BY <1>4, <2>1, <2>2, <2>3, <2>4, <2>5, <2>6, <2>7, <2>8, <2>9, <2>10 DEF
        OpenAndSeed
<1>5. CASE RunRounds
  BY <1>5 DEF RunRounds, StartSession, Returns, store, graph, SimulationFails,
      Raises, LeaveSimulation, CycleKnown, Load, EnterRound, LoadFails,
      WriteShock, Dispatch, PersistRound, NextRound, Finalize, DispatchFails,
      RoundFails, MayHaveWritten
<1>6. CASE WindUp \/ LoseStatus
  <2>1. CASE Unload
    BY <2>1 DEF Unload, store, graph
  <2>2. CASE StopSession
    BY <2>2 DEF StopSession, store, graph
  <2>3. CASE SessionWasFatal
    BY <2>3 DEF SessionWasFatal, LeaveSimulation, store, graph, CycleKnown
  <2>4. CASE RecordMetrics
    BY <2>4 DEF RecordMetrics, Raises, LeaveSimulation, store, graph,
        CycleKnown
  <2>5. CASE Complete
    BY <2>5 DEF Complete, Returns
  <2>6. CASE CompleteFails
    BY <2>6 DEF CompleteFails, Raises, MayHaveWritten, LeaveSimulation, store,
        CycleKnown
  <2>7. CASE RecordStatus
    BY <2>7 DEF RecordStatus, Returns, store, TerminalStatus
  <2>8. CASE InterruptStatus
    BY <2>8 DEF InterruptStatus, Raises, MayHaveWritten, store, TerminalStatus
  <2>9. CASE Close
    BY <2>9 DEF Close, Conclude, graph
  <2>10. CASE LoseStatus
    BY <2>10 DEF LoseStatus, Returns, store, graph
  <2>. QED
    BY <1>6, <2>1, <2>2, <2>3, <2>4, <2>5, <2>6, <2>7, <2>8, <2>9, <2>10 DEF
        WindUp
<1>. QED
  BY <1>1, <1>2, <1>3, <1>4, <1>5, <1>6 DEF Next, TaskStep

\* An exception ends the good course of a run.
LEMMA ExcStep ==
  ASSUME ExcInv, Next
  PROVE  ExcInv'
<1>. USE DEF ExcInv, Progress
<1>1. CASE Start
  BY <1>1 DEF Start, graph
<1>2. CASE Stop \/ InjectShock
  BY <1>2 DEF Stop, store, graph, InjectShock, ShockWindowOpen
<1>3. CASE TaskDone
  BY <1>3 DEF TaskDone, store, graph
<1>4. CASE OpenAndSeed
  BY <1>4 DEF OpenAndSeed, CancelUnstarted, store, graph, Begin, Returns,
      OpenFails, Conclude, Open, BeginSeeding, Seed, SeedFails, Raises,
      Release, Create, CreateFails, MayHaveWritten, LeaveSimulation,
      CycleKnown
<1>5. CASE RunRounds
  BY <1>5 DEF RunRounds, StartSession, Returns, store, graph, SimulationFails,
      Raises, LeaveSimulation, CycleKnown, Load, EnterRound, LoadFails,
      WriteShock, Dispatch, PersistRound, NextRound, Finalize, DispatchFails,
      RoundFails, MayHaveWritten
<1>6. CASE WindUp \/ LoseStatus
  BY <1>6 DEF WindUp, Unload, store, graph, StopSession, SessionWasFatal,
      LeaveSimulation, CycleKnown, RecordMetrics, Raises, Complete, Returns,
      CompleteFails, MayHaveWritten, RecordStatus, TerminalStatus,
      InterruptStatus, Close, Conclude, LoseStatus
<1>. QED
  BY <1>1, <1>2, <1>3, <1>4, <1>5, <1>6 DEF Next, TaskStep

\* Every way into the session's try block leads through its end.
LEMMA SessionStep ==
  ASSUME SessionInv, Next
  PROVE  SessionInv'
<1>. USE DEF SessionInv, InSession, Running
<1>1. CASE Start
  BY <1>1 DEF Start, graph
<1>2. CASE Stop \/ InjectShock
  BY <1>2 DEF Stop, store, graph, InjectShock, ShockWindowOpen
<1>3. CASE TaskDone
  BY <1>3 DEF TaskDone, store, graph
<1>4. CASE OpenAndSeed
  BY <1>4 DEF OpenAndSeed, CancelUnstarted, store, graph, Begin, Returns,
      OpenFails, Conclude, Open, BeginSeeding, Seed, SeedFails, Raises,
      Release, Create, CreateFails, MayHaveWritten, LeaveSimulation,
      CycleKnown
<1>5. CASE RunRounds
  BY <1>5 DEF RunRounds, StartSession, Returns, store, graph, SimulationFails,
      Raises, LeaveSimulation, CycleKnown, Load, EnterRound, LoadFails,
      WriteShock, Dispatch, PersistRound, NextRound, Finalize, DispatchFails,
      RoundFails, MayHaveWritten
<1>6. CASE WindUp \/ LoseStatus
  <2>1. CASE Unload
    BY <2>1 DEF Unload, store, graph
  <2>2. CASE StopSession
    BY <2>2 DEF StopSession, store, graph
  <2>3. CASE SessionWasFatal
    BY <2>3 DEF SessionWasFatal, LeaveSimulation, store, graph, CycleKnown
  <2>4. CASE RecordMetrics
    BY <2>4 DEF RecordMetrics, Raises, LeaveSimulation, store, graph,
        CycleKnown
  <2>5. CASE Complete
    BY <2>5 DEF Complete, Returns
  <2>6. CASE CompleteFails
    BY <2>6 DEF CompleteFails, Raises, MayHaveWritten, LeaveSimulation, store,
        CycleKnown
  <2>7. CASE RecordStatus
    BY <2>7 DEF RecordStatus, Returns, store, TerminalStatus
  <2>8. CASE InterruptStatus
    BY <2>8 DEF InterruptStatus, Raises, MayHaveWritten, store, TerminalStatus
  <2>9. CASE Close
    BY <2>9 DEF Close, Conclude, graph
  <2>10. CASE LoseStatus
    BY <2>10 DEF LoseStatus, Returns, store, graph
  <2>. QED
    BY <1>6, <2>1, <2>2, <2>3, <2>4, <2>5, <2>6, <2>7, <2>8, <2>9, <2>10 DEF
        WindUp
<1>. QED
  BY <1>1, <1>2, <1>3, <1>4, <1>5, <1>6 DEF Next, TaskStep

\* The phase is settled by the time the task ends.
LEMMA PhaseStep ==
  ASSUME TypeOK, RunInv, ExcInv, PhaseInv, StatusInv, Next
  PROVE  PhaseInv'
<1>0. status \in [Cycles -> Statuses]
  BY DEF TypeOK
<1>. USE <1>0 DEF RunInv, ExcInv, PhaseInv, StatusInv, CycleKnown, Running,
      Progress, InSession, Known, Settled, Unjudged
<1>1. CASE Start
  BY <1>1 DEF Start, graph
<1>2. CASE Stop \/ InjectShock
  BY <1>2 DEF Stop, store, graph, InjectShock, ShockWindowOpen
<1>3. CASE TaskDone
  BY <1>3 DEF TaskDone, store, graph
<1>4. CASE OpenAndSeed
  BY <1>4 DEF OpenAndSeed, CancelUnstarted, store, graph, Begin, Returns,
      OpenFails, Conclude, Open, BeginSeeding, Seed, SeedFails, Raises,
      Release, Create, CreateFails, MayHaveWritten, LeaveSimulation,
      CycleKnown
<1>5. CASE RunRounds
  BY <1>5 DEF RunRounds, StartSession, Returns, store, graph, SimulationFails,
      Raises, LeaveSimulation, CycleKnown, Load, EnterRound, LoadFails,
      WriteShock, Dispatch, PersistRound, NextRound, Finalize, DispatchFails,
      RoundFails, MayHaveWritten
<1>6. CASE WindUp \/ LoseStatus
  <2>1. CASE Unload
    BY <2>1 DEF Unload, store, graph
  <2>2. CASE StopSession
    BY <2>2 DEF StopSession, store, graph
  <2>3. CASE SessionWasFatal
    BY <2>3 DEF SessionWasFatal, LeaveSimulation, store, graph, CycleKnown
  <2>4. CASE RecordMetrics
    BY <2>4 DEF RecordMetrics, Raises, LeaveSimulation, store, graph,
        CycleKnown
  <2>5. CASE Complete
    BY <2>5 DEF Complete, Returns
  <2>6. CASE CompleteFails
    BY <2>6 DEF CompleteFails, Raises, MayHaveWritten, LeaveSimulation, store,
        CycleKnown
  <2>7. CASE RecordStatus
    BY <2>7 DEF RecordStatus, Returns, store, TerminalStatus
  <2>8. CASE InterruptStatus
    BY <2>8 DEF InterruptStatus, Raises, MayHaveWritten, store, TerminalStatus
  <2>9. CASE Close
    BY <2>9 DEF Close, Conclude, graph
  <2>10. CASE LoseStatus
    BY <2>10 DEF LoseStatus, Returns, store, graph
  <2>. QED
    BY <1>6, <2>1, <2>2, <2>3, <2>4, <2>5, <2>6, <2>7, <2>8, <2>9, <2>10 DEF
        WindUp
<1>. QED
  BY <1>1, <1>2, <1>3, <1>4, <1>5, <1>6 DEF Next, TaskStep

\* A run that goes well has persisted every round behind it.
LEMMA WholeStep ==
  ASSUME TypeOK, RunInv, ExcInv, WholeInv, StatusInv, Next
  PROVE  WholeInv'
<1>0. status \in [Cycles -> Statuses] /\ persisted \in [Cycles -> 0..NumRounds]
  BY DEF TypeOK
<1>. USE <1>0 DEF RunInv, ExcInv, WholeInv, CompleteMeansWhole, StatusInv,
      Running, Progress, Unjudged
<1>1. CASE Start
  BY <1>1 DEF Start, graph
<1>2. CASE Stop \/ InjectShock
  BY <1>2 DEF Stop, store, graph, InjectShock, ShockWindowOpen
<1>3. CASE TaskDone
  BY <1>3 DEF TaskDone, store, graph
<1>4. CASE OpenAndSeed
  BY <1>4 DEF OpenAndSeed, CancelUnstarted, store, graph, Begin, Returns,
      OpenFails, Conclude, Open, BeginSeeding, Seed, SeedFails, Raises,
      Release, Create, CreateFails, MayHaveWritten, LeaveSimulation,
      CycleKnown
<1>5. CASE RunRounds
  <2>1. CASE StartSession
    BY <2>1 DEF StartSession, Returns, store, graph
  <2>2. CASE SimulationFails
    BY <2>2 DEF SimulationFails, Raises, LeaveSimulation, store, graph,
        CycleKnown
  <2>3. CASE Load
    BY <2>3 DEF Load, Returns, EnterRound, graph
  <2>4. CASE LoadFails
    BY <2>4 DEF LoadFails, Raises, store, graph
  <2>5. CASE WriteShock
    BY <2>5 DEF WriteShock, Returns, store
  <2>6. CASE Dispatch
    BY <2>6 DEF Dispatch, Returns, store, graph
  <2>7. CASE PersistRound
    BY <2>7 DEF PersistRound, Returns, store
  <2>8. CASE NextRound
    BY <2>8 DEF NextRound, Returns, EnterRound, graph
  <2>9. CASE Finalize
    BY <2>9 DEF Finalize, Returns, graph
  <2>10. CASE DispatchFails
    BY <2>10 DEF DispatchFails, store, graph
  <2>11. CASE RoundFails
    BY <2>11 DEF RoundFails, Raises, MayHaveWritten, store, graph
  <2>. QED
    BY <1>5, <2>1, <2>2, <2>3, <2>4, <2>5, <2>6, <2>7, <2>8, <2>9, <2>10,
        <2>11 DEF RunRounds
<1>6. CASE WindUp \/ LoseStatus
  <2>1. CASE Unload
    BY <2>1 DEF Unload, store, graph
  <2>2. CASE StopSession
    BY <2>2 DEF StopSession, store, graph
  <2>3. CASE SessionWasFatal
    BY <2>3 DEF SessionWasFatal, LeaveSimulation, store, graph, CycleKnown
  <2>4. CASE RecordMetrics
    BY <2>4 DEF RecordMetrics, Raises, LeaveSimulation, store, graph,
        CycleKnown
  <2>5. CASE Complete
    BY <2>5 DEF Complete, Returns
  <2>6. CASE CompleteFails
    BY <2>6 DEF CompleteFails, Raises, MayHaveWritten, LeaveSimulation, store,
        CycleKnown
  <2>7. CASE RecordStatus
    BY <2>7 DEF RecordStatus, Returns, store, TerminalStatus
  <2>8. CASE InterruptStatus
    BY <2>8 DEF InterruptStatus, Raises, MayHaveWritten, store, TerminalStatus
  <2>9. CASE Close
    BY <2>9 DEF Close, Conclude, graph
  <2>10. CASE LoseStatus
    BY <2>10 DEF LoseStatus, Returns, store, graph
  <2>. QED
    BY <1>6, <2>1, <2>2, <2>3, <2>4, <2>5, <2>6, <2>7, <2>8, <2>9, <2>10 DEF
        WindUp
<1>. QED
  BY <1>1, <1>2, <1>3, <1>4, <1>5, <1>6 DEF Next, TaskStep

\* The status of the current cycle agrees with the exception and the error.
LEMMA StatusStep ==
  ASSUME TypeOK, RunInv, ExcInv, StatusInv, Next
  PROVE  StatusInv'
<1>0. run \in 0..MaxRuns /\ exc \in Exceptions /\ status \in [Cycles -> Statuses]
  BY DEF TypeOK
<1>. USE <1>0, RunsAssumption DEF RunInv, ExcInv, StatusInv, Cycles,
      Exceptions, Running, Progress, Unjudged
<1>1. CASE Start
  BY <1>1 DEF Start, graph
<1>2. CASE Stop \/ InjectShock
  BY <1>2 DEF Stop, store, graph, InjectShock, ShockWindowOpen
<1>3. CASE TaskDone
  BY <1>3 DEF TaskDone, store, graph
<1>4. CASE OpenAndSeed
  <2>1. CASE CancelUnstarted
    BY <2>1 DEF CancelUnstarted, store, graph
  <2>2. CASE Begin
    BY <2>2 DEF Begin, Returns, store, graph
  <2>3. CASE OpenFails
    BY <2>3 DEF OpenFails, Conclude, store, graph
  <2>4. CASE Open
    BY <2>4 DEF Open, Returns, graph
  <2>5. CASE BeginSeeding
    BY <2>5 DEF BeginSeeding, Returns, graph
  <2>6. CASE Seed
    BY <2>6 DEF Seed, Returns, store, graph
  <2>7. CASE SeedFails
    BY <2>7 DEF SeedFails, Raises, store, graph
  <2>8. CASE Release
    BY <2>8 DEF Release, Returns, store, graph
  <2>9. CASE Create
    BY <2>9 DEF Create, Returns
  <2>10. CASE CreateFails
    BY <2>10 DEF CreateFails, Raises, MayHaveWritten, LeaveSimulation, store,
        CycleKnown
  <2>. QED
    BY <1>4, <2>1, <2>2, <2>3, <2>4, <2>5, <2>6, <2>7, <2>8, <2>9, <2>10 DEF
        OpenAndSeed
<1>5. CASE RunRounds
  BY <1>5 DEF RunRounds, StartSession, Returns, store, graph, SimulationFails,
      Raises, LeaveSimulation, CycleKnown, Load, EnterRound, LoadFails,
      WriteShock, Dispatch, PersistRound, NextRound, Finalize, DispatchFails,
      RoundFails, MayHaveWritten
<1>6. CASE WindUp \/ LoseStatus
  <2>1. CASE Unload
    BY <2>1 DEF Unload, store, graph
  <2>2. CASE StopSession
    BY <2>2 DEF StopSession, store, graph
  <2>3. CASE SessionWasFatal
    BY <2>3 DEF SessionWasFatal, LeaveSimulation, store, graph, CycleKnown
  <2>4. CASE RecordMetrics
    BY <2>4 DEF RecordMetrics, Raises, LeaveSimulation, store, graph,
        CycleKnown
  <2>5. CASE Complete
    BY <2>5 DEF Complete, Returns
  <2>6. CASE CompleteFails
    BY <2>6 DEF CompleteFails, Raises, MayHaveWritten, LeaveSimulation, store,
        CycleKnown
  <2>7. CASE RecordStatus
    BY <2>7 DEF RecordStatus, Returns, store, TerminalStatus
  <2>8. CASE InterruptStatus
    BY <2>8 DEF InterruptStatus, Raises, MayHaveWritten, store, TerminalStatus
  <2>9. CASE Close
    BY <2>9 DEF Close, Conclude, graph
  <2>10. CASE LoseStatus
    BY <2>10 DEF LoseStatus, Returns, store, graph
  <2>. QED
    BY <1>6, <2>1, <2>2, <2>3, <2>4, <2>5, <2>6, <2>7, <2>8, <2>9, <2>10 DEF
        WindUp
<1>. QED
  BY <1>1, <1>2, <1>3, <1>4, <1>5, <1>6 DEF Next, TaskStep

-----------------------------------------------------------------------------
\* The three parts together.
LEMMA TypeStep == ASSUME TypeOK, RunInv, Next PROVE TypeOK'
<1>1. TaskType' /\ StoreType' /\ GraphType'
  BY TaskTypeStep, StoreTypeStep, GraphTypeStep
<1>. QED
  BY <1>1 DEF TaskType, StoreType, GraphType, TypeOK

\* A stutter changes nothing the invariant speaks of.
LEMMA StutterStep == IInv /\ UNCHANGED vars => IInv'
<1>. SUFFICES ASSUME IInv, UNCHANGED vars PROVE IInv'
  OBVIOUS
<1>. USE DEF vars, IInv, Running, CycleKnown
<1>1. TypeOK' /\ ExcInv' /\ SessionInv'
  BY DEF TypeOK, ExcInv, SessionInv
<1>2. RunInv' /\ PhaseInv'
  BY DEF RunInv, PhaseInv
<1>3. WholeInv' /\ StatusInv'
  BY DEF WholeInv, CompleteMeansWhole, StatusInv
<1>. QED
  BY <1>1, <1>2, <1>3

\* The invariant is inductive: it holds at every step of every behaviour.
THEOREM Invariance == Spec => []IInv
<1>1. IInv /\ [Next]_vars => IInv'
  <2>. SUFFICES ASSUME IInv, [Next]_vars PROVE IInv'
    OBVIOUS
  <2>1. CASE Next
    BY <2>1, TypeStep, RunInvStep, ExcStep, SessionStep, PhaseStep, WholeStep,
       StatusStep DEF IInv
  <2>2. CASE UNCHANGED vars
    BY <2>2, StutterStep
  <2>. QED
    BY <2>1, <2>2
<1>. QED
  BY <1>1, Initially, PTL DEF Spec

\* Types: in particular the rounds stay within 1..num_rounds
\* (simulation.py:573) whatever fails.
THEOREM TypeCorrect == Spec => []TypeOK
<1>1. IInv => TypeOK
  BY DEF IInv
<1>. QED
  BY <1>1, Invariance, PTL

\* When the lock is free the phase is settled, the governor's session is
\* closed and no shock waits, whichever awaits failed or were stopped.
THEOREM FreeIsSettled == Spec => []FreeMeansSettled
<1>1. IInv => FreeMeansSettled
  BY DEF IInv, SessionInv, PhaseInv, FreeMeansSettled, Running, InSession, Settled
<1>. QED
  BY <1>1, Invariance, PTL

\* A cycle listed as complete has every one of its rounds in the graph.
THEOREM CompleteIsWhole == Spec => []CompleteMeansWhole
<1>1. IInv => CompleteMeansWhole
  BY DEF IInv, WholeInv
<1>. QED
  BY <1>1, Invariance, PTL

\* The screen says COMPLETE only for a cycle the graph lists as complete.
THEOREM ShownIsDurable == Spec => []CompleteIsDurable
<1>1. IInv => CompleteIsDurable
  <2>. SUFFICES ASSUME IInv, phase = "complete"
                PROVE  cycleShown # 0 /\ status[cycleShown] = "complete"
    BY DEF CompleteIsDurable
  <2>1. cycleShown \in Cycles /\ status[cycleShown] = "complete"
    BY DEF IInv, PhaseInv
  <2>. QED
    BY <2>1, RunsAssumption DEF Cycles
<1>. QED
  BY <1>1, Invariance, PTL

\* The post-run pipeline is started only for complete cycles, so none of its
\* jobs is refused for the state of the cycle.
THEOREM PipelineIsSound == Spec => []PipelineOnlyForComplete
<1>1. IInv => PipelineOnlyForComplete
  BY DEF IInv, RunInv, PipelineOnlyForComplete
<1>. QED
  BY <1>1, Invariance, PTL

\* A run that shows an error is not listed as complete or as cancelled.
THEOREM ErrorsAgree == Spec => []ErrorAgreesWithStatus
<1>1. IInv => ErrorAgreesWithStatus
  BY DEF IInv, StatusInv, ErrorAgreesWithStatus
<1>. QED
  BY <1>1, Invariance, PTL

\* All that is said of a run, in the UI, the graph and the pipeline, agrees.
THEOREM StatusIsTrue == Spec => []StatusTellsTheTruth
BY CompleteIsWhole, ShownIsDurable, PipelineIsSound, ErrorsAgree, PTL
   DEF StatusTellsTheTruth

-----------------------------------------------------------------------------
(* No accepted shock is lost.  The argument follows a shock from the slot  *)
(* (pending) over the round that consumed it (shocks) to its ShockEvent:   *)
(* while a run goes well the three add up to what it accepted, and past    *)
(* the last round the first two are empty, because the window closes       *)
(* before the last round looks.                                            *)

InRound == {"shocking", "dispatching", "persisting", "influencing"}

PastRounds == {"unloading", "unwatching", "metrics", "completing"}

\* The shocks that are on their way.
OnTheWay == shocks + (IF pending THEN 1 ELSE 0)

CountInv ==
  /\ accepted \in [Cycles -> Nat]
  /\ \A c \in Cycles : c > run => accepted[c] = 0 /\ events[c] = 0
  /\ Running /\ exc = "none" => accepted[run] = events[run] + OnTheWay
  /\ NoShockLost

SlotInv ==
  /\ shocks = IF pc = "shocking" THEN 1 ELSE 0
  /\ pc \in InRound => phase = "round" /\ (round = NumRounds => ~pending)
  /\ pc \in PastRounds /\ exc = "none" => phase = "finalizing" /\ ~pending

\* The window is closed once the cycle may be complete.
ClosedInv ==
  Running /\ status[run] = "complete" => phase \notin {"seeding", "round"}

HInv == CountInv /\ SlotInv /\ ClosedInv

-----------------------------------------------------------------------------
\* The slot is emptied where a round looks at it, and past the last round it
\* stays empty.
LEMMA SlotStep ==
  ASSUME TypeOK, ExcInv, SlotInv, Next
  PROVE  SlotInv'
<1>0. round \in 0..NumRounds /\ pending \in BOOLEAN
  BY DEF TypeOK
<1>. USE <1>0, RoundsAssumption DEF SlotInv, InRound, PastRounds, ExcInv,
      Progress, Running
<1>1. CASE Start
  BY <1>1 DEF Start, graph
<1>2. CASE Stop \/ InjectShock
  BY <1>2 DEF Stop, store, graph, InjectShock, ShockWindowOpen
<1>3. CASE TaskDone
  BY <1>3 DEF TaskDone, store, graph
<1>4. CASE OpenAndSeed
  BY <1>4 DEF OpenAndSeed, CancelUnstarted, store, graph, Begin, Returns,
      OpenFails, Conclude, Open, BeginSeeding, Seed, SeedFails, Raises,
      Release, Create, CreateFails, MayHaveWritten, LeaveSimulation,
      CycleKnown
<1>5. CASE RunRounds
  <2>1. CASE StartSession
    BY <2>1 DEF StartSession, Returns, store, graph
  <2>2. CASE SimulationFails
    BY <2>2 DEF SimulationFails, Raises, LeaveSimulation, store, graph,
        CycleKnown
  <2>3. CASE Load
    BY <2>3 DEF Load, Returns, EnterRound, graph
  <2>4. CASE LoadFails
    BY <2>4 DEF LoadFails, Raises, store, graph
  <2>5. CASE WriteShock
    BY <2>5 DEF WriteShock, Returns, store
  <2>6. CASE Dispatch
    BY <2>6 DEF Dispatch, Returns, store, graph
  <2>7. CASE PersistRound
    BY <2>7 DEF PersistRound, Returns, store
  <2>8. CASE NextRound
    BY <2>8 DEF NextRound, Returns, EnterRound, graph
  <2>9. CASE Finalize
    BY <2>9 DEF Finalize, Returns, graph
  <2>10. CASE DispatchFails
    BY <2>10 DEF DispatchFails, store, graph
  <2>11. CASE RoundFails
    BY <2>11 DEF RoundFails, Raises, MayHaveWritten, store, graph
  <2>. QED
    BY <1>5, <2>1, <2>2, <2>3, <2>4, <2>5, <2>6, <2>7, <2>8, <2>9, <2>10,
        <2>11 DEF RunRounds
<1>6. CASE WindUp \/ LoseStatus
  <2>1. CASE Unload
    BY <2>1 DEF Unload, store, graph
  <2>2. CASE StopSession
    BY <2>2 DEF StopSession, store, graph
  <2>3. CASE SessionWasFatal
    BY <2>3 DEF SessionWasFatal, LeaveSimulation, store, graph, CycleKnown
  <2>4. CASE RecordMetrics
    BY <2>4 DEF RecordMetrics, Raises, LeaveSimulation, store, graph,
        CycleKnown
  <2>5. CASE Complete
    BY <2>5 DEF Complete, Returns
  <2>6. CASE CompleteFails
    BY <2>6 DEF CompleteFails, Raises, MayHaveWritten, LeaveSimulation, store,
        CycleKnown
  <2>7. CASE RecordStatus
    BY <2>7 DEF RecordStatus, Returns, store, TerminalStatus
  <2>8. CASE InterruptStatus
    BY <2>8 DEF InterruptStatus, Raises, MayHaveWritten, store, TerminalStatus
  <2>9. CASE Close
    BY <2>9 DEF Close, Conclude, graph
  <2>10. CASE LoseStatus
    BY <2>10 DEF LoseStatus, Returns, store, graph
  <2>. QED
    BY <1>6, <2>1, <2>2, <2>3, <2>4, <2>5, <2>6, <2>7, <2>8, <2>9, <2>10 DEF
        WindUp
<1>. QED
  BY <1>1, <1>2, <1>3, <1>4, <1>5, <1>6 DEF Next, TaskStep

\* The status becomes complete only when the window is closed for good.
LEMMA ClosedStep ==
  ASSUME TypeOK, RunInv, ExcInv, PhaseInv, StatusInv, SlotInv, ClosedInv, Next
  PROVE  ClosedInv'
<1>0. status \in [Cycles -> Statuses]
  BY DEF TypeOK
<1>. USE <1>0 DEF ClosedInv, RunInv, ExcInv, PhaseInv, StatusInv, SlotInv,
      Running, Progress, Unjudged, PastRounds, Settled
<1>1. CASE Start
  BY <1>1 DEF Start, graph
<1>2. CASE Stop \/ InjectShock
  BY <1>2 DEF Stop, store, graph, InjectShock, ShockWindowOpen
<1>3. CASE TaskDone
  BY <1>3 DEF TaskDone, store, graph
<1>4. CASE OpenAndSeed
  <2>1. CASE CancelUnstarted
    BY <2>1 DEF CancelUnstarted, store, graph
  <2>2. CASE Begin
    BY <2>2 DEF Begin, Returns, store, graph
  <2>3. CASE OpenFails
    BY <2>3 DEF OpenFails, Conclude, store, graph
  <2>4. CASE Open
    BY <2>4 DEF Open, Returns, graph
  <2>5. CASE BeginSeeding
    BY <2>5 DEF BeginSeeding, Returns, graph
  <2>6. CASE Seed
    BY <2>6 DEF Seed, Returns, store, graph
  <2>7. CASE SeedFails
    BY <2>7 DEF SeedFails, Raises, store, graph
  <2>8. CASE Release
    BY <2>8 DEF Release, Returns, store, graph
  <2>9. CASE Create
    BY <2>9 DEF Create, Returns
  <2>10. CASE CreateFails
    BY <2>10 DEF CreateFails, Raises, MayHaveWritten, LeaveSimulation, store,
        CycleKnown
  <2>. QED
    BY <1>4, <2>1, <2>2, <2>3, <2>4, <2>5, <2>6, <2>7, <2>8, <2>9, <2>10 DEF
        OpenAndSeed
<1>5. CASE RunRounds
  <2>1. CASE StartSession
    BY <2>1 DEF StartSession, Returns, store, graph
  <2>2. CASE SimulationFails
    BY <2>2 DEF SimulationFails, Raises, LeaveSimulation, store, graph,
        CycleKnown
  <2>3. CASE Load
    BY <2>3 DEF Load, Returns, EnterRound, graph
  <2>4. CASE LoadFails
    BY <2>4 DEF LoadFails, Raises, store, graph
  <2>5. CASE WriteShock
    BY <2>5 DEF WriteShock, Returns, store
  <2>6. CASE Dispatch
    BY <2>6 DEF Dispatch, Returns, store, graph
  <2>7. CASE PersistRound
    BY <2>7 DEF PersistRound, Returns, store
  <2>8. CASE NextRound
    BY <2>8 DEF NextRound, Returns, EnterRound, graph
  <2>9. CASE Finalize
    BY <2>9 DEF Finalize, Returns, graph
  <2>10. CASE DispatchFails
    BY <2>10 DEF DispatchFails, store, graph
  <2>11. CASE RoundFails
    BY <2>11 DEF RoundFails, Raises, MayHaveWritten, store, graph
  <2>. QED
    BY <1>5, <2>1, <2>2, <2>3, <2>4, <2>5, <2>6, <2>7, <2>8, <2>9, <2>10,
        <2>11 DEF RunRounds
<1>6. CASE WindUp \/ LoseStatus
  <2>1. CASE Unload
    BY <2>1 DEF Unload, store, graph
  <2>2. CASE StopSession
    BY <2>2 DEF StopSession, store, graph
  <2>3. CASE SessionWasFatal
    BY <2>3 DEF SessionWasFatal, LeaveSimulation, store, graph, CycleKnown
  <2>4. CASE RecordMetrics
    BY <2>4 DEF RecordMetrics, Raises, LeaveSimulation, store, graph,
        CycleKnown
  <2>5. CASE Complete
    BY <2>5 DEF Complete, Returns
  <2>6. CASE CompleteFails
    BY <2>6 DEF CompleteFails, Raises, MayHaveWritten, LeaveSimulation, store,
        CycleKnown
  <2>7. CASE RecordStatus
    BY <2>7 DEF RecordStatus, Returns, store, TerminalStatus
  <2>8. CASE InterruptStatus
    BY <2>8 DEF InterruptStatus, Raises, MayHaveWritten, store, TerminalStatus
  <2>9. CASE Close
    BY <2>9 DEF Close, Conclude, graph
  <2>10. CASE LoseStatus
    BY <2>10 DEF LoseStatus, Returns, store, graph
  <2>. QED
    BY <1>6, <2>1, <2>2, <2>3, <2>4, <2>5, <2>6, <2>7, <2>8, <2>9, <2>10 DEF
        WindUp
<1>. QED
  BY <1>1, <1>2, <1>3, <1>4, <1>5, <1>6 DEF Next, TaskStep

\* No step of the task drops a shock while the run goes well.
LEMMA CarriedStep ==
  ASSUME TypeOK, RunInv, ExcInv, SlotInv, TaskStep
  PROVE  /\ run' = run /\ \A c \in Cycles : c # run => events'[c] = events[c]
         /\ exc' = "none" => /\ exc = "none" /\ Running
                            /\ events'[run] + OnTheWay' = events[run] + OnTheWay
<1>0. events \in [Cycles -> Nat] /\ pending \in BOOLEAN /\ round \in 0..NumRounds
  BY DEF TypeOK
<1>. USE <1>0 DEF RunInv, ExcInv, SlotInv, OnTheWay, Running, InRound,
      Progress, Exceptions
<1>1. CASE OpenAndSeed
  <2>1. CASE CancelUnstarted
    BY <2>1 DEF CancelUnstarted, store, graph
  <2>2. CASE Begin
    BY <2>2 DEF Begin, Returns, store, graph
  <2>3. CASE OpenFails
    BY <2>3 DEF OpenFails, Conclude, store, graph
  <2>4. CASE Open
    BY <2>4 DEF Open, Returns, graph
  <2>5. CASE BeginSeeding
    BY <2>5 DEF BeginSeeding, Returns, graph
  <2>6. CASE Seed
    BY <2>6 DEF Seed, Returns, store, graph
  <2>7. CASE SeedFails
    BY <2>7 DEF SeedFails, Raises, store, graph
  <2>8. CASE Release
    BY <2>8 DEF Release, Returns, store, graph
  <2>9. CASE Create
    BY <2>9 DEF Create, Returns
  <2>10. CASE CreateFails
    BY <2>10 DEF CreateFails, Raises, MayHaveWritten, LeaveSimulation, store,
        CycleKnown
  <2>. QED
    BY <1>1, <2>1, <2>2, <2>3, <2>4, <2>5, <2>6, <2>7, <2>8, <2>9, <2>10 DEF
        OpenAndSeed
<1>2. CASE RunRounds
  <2>1. CASE StartSession
    BY <2>1 DEF StartSession, Returns, store, graph
  <2>2. CASE SimulationFails
    BY <2>2 DEF SimulationFails, Raises, LeaveSimulation, store, graph,
        CycleKnown
  <2>3. CASE Load
    BY <2>3 DEF Load, Returns, EnterRound, graph
  <2>4. CASE LoadFails
    BY <2>4 DEF LoadFails, Raises, store, graph
  <2>5. CASE WriteShock
    BY <2>5 DEF WriteShock, Returns, store
  <2>6. CASE Dispatch
    BY <2>6 DEF Dispatch, Returns, store, graph
  <2>7. CASE PersistRound
    BY <2>7 DEF PersistRound, Returns, store
  <2>8. CASE NextRound
    <3>1. shocks = 0 /\ events' = events /\ exc = "none" /\ run' = run /\ exc' = exc
      BY <2>8 DEF NextRound, Returns, EnterRound, graph
    <3>2. \/ ~pending /\ ~pending' /\ shocks' = 0
          \/ pending /\ ~pending' /\ shocks' = 1
          \/ pending /\ pending' /\ shocks' = 0
      BY <2>8 DEF NextRound, EnterRound
    <3>3. Running
      BY <2>8 DEF NextRound, Returns
    <3>. QED
      BY <3>1, <3>2, <3>3
  <2>9. CASE Finalize
    BY <2>9 DEF Finalize, Returns, graph
  <2>10. CASE DispatchFails
    BY <2>10 DEF DispatchFails, store, graph
  <2>11. CASE RoundFails
    BY <2>11 DEF RoundFails, Raises, MayHaveWritten, store, graph
  <2>. QED
    BY <1>2, <2>1, <2>2, <2>3, <2>4, <2>5, <2>6, <2>7, <2>8, <2>9, <2>10,
        <2>11 DEF RunRounds
<1>3. CASE WindUp \/ LoseStatus
  <2>1. CASE Unload
    BY <2>1 DEF Unload, store, graph
  <2>2. CASE StopSession
    BY <2>2 DEF StopSession, store, graph
  <2>3. CASE SessionWasFatal
    BY <2>3 DEF SessionWasFatal, LeaveSimulation, store, graph, CycleKnown
  <2>4. CASE RecordMetrics
    BY <2>4 DEF RecordMetrics, Raises, LeaveSimulation, store, graph,
        CycleKnown
  <2>5. CASE Complete
    BY <2>5 DEF Complete, Returns
  <2>6. CASE CompleteFails
    BY <2>6 DEF CompleteFails, Raises, MayHaveWritten, LeaveSimulation, store,
        CycleKnown
  <2>7. CASE RecordStatus
    BY <2>7 DEF RecordStatus, Returns, store, TerminalStatus
  <2>8. CASE InterruptStatus
    BY <2>8 DEF InterruptStatus, Raises, MayHaveWritten, store, TerminalStatus
  <2>9. CASE Close
    BY <2>9 DEF Close, Conclude, graph
  <2>10. CASE LoseStatus
    BY <2>10 DEF LoseStatus, Returns, store, graph
  <2>. QED
    BY <1>3, <2>1, <2>2, <2>3, <2>4, <2>5, <2>6, <2>7, <2>8, <2>9, <2>10 DEF
        WindUp
<1>. QED
  BY <1>1, <1>2, <1>3 DEF TaskStep

\* The step that makes a cycle complete finds no shock on its way, and once a
\* cycle is complete no step writes to it.
LEMMA JudgedStep ==
  ASSUME TypeOK, RunInv, ExcInv, StatusInv, SlotInv, TaskStep
  PROVE  /\ \A c \in Cycles : c # run => status'[c] = status[c]
         /\ status'[run] = "complete" =>
              /\ events' = events
              /\ status[run] = "complete" \/ (exc = "none" /\ Running /\ OnTheWay = 0)
<1>0. status \in [Cycles -> Statuses]
  BY DEF TypeOK
<1>. USE <1>0 DEF RunInv, ExcInv, StatusInv, SlotInv, OnTheWay, Running,
      InRound, PastRounds, Progress, Unjudged
<1>1. CASE OpenAndSeed
  <2>1. CASE CancelUnstarted
    BY <2>1 DEF CancelUnstarted, store, graph
  <2>2. CASE Begin
    BY <2>2 DEF Begin, Returns, store, graph
  <2>3. CASE OpenFails
    BY <2>3 DEF OpenFails, Conclude, store, graph
  <2>4. CASE Open
    BY <2>4 DEF Open, Returns, graph
  <2>5. CASE BeginSeeding
    BY <2>5 DEF BeginSeeding, Returns, graph
  <2>6. CASE Seed
    BY <2>6 DEF Seed, Returns, store, graph
  <2>7. CASE SeedFails
    BY <2>7 DEF SeedFails, Raises, store, graph
  <2>8. CASE Release
    BY <2>8 DEF Release, Returns, store, graph
  <2>9. CASE Create
    BY <2>9 DEF Create, Returns
  <2>10. CASE CreateFails
    BY <2>10 DEF CreateFails, Raises, MayHaveWritten, LeaveSimulation, store,
        CycleKnown
  <2>. QED
    BY <1>1, <2>1, <2>2, <2>3, <2>4, <2>5, <2>6, <2>7, <2>8, <2>9, <2>10 DEF
        OpenAndSeed
<1>2. CASE RunRounds
  <2>1. CASE StartSession
    BY <2>1 DEF StartSession, Returns, store, graph
  <2>2. CASE SimulationFails
    BY <2>2 DEF SimulationFails, Raises, LeaveSimulation, store, graph,
        CycleKnown
  <2>3. CASE Load
    BY <2>3 DEF Load, Returns, EnterRound, graph
  <2>4. CASE LoadFails
    BY <2>4 DEF LoadFails, Raises, store, graph
  <2>5. CASE WriteShock
    BY <2>5 DEF WriteShock, Returns, store
  <2>6. CASE Dispatch
    BY <2>6 DEF Dispatch, Returns, store, graph
  <2>7. CASE PersistRound
    BY <2>7 DEF PersistRound, Returns, store
  <2>8. CASE NextRound
    BY <2>8 DEF NextRound, Returns, EnterRound, graph
  <2>9. CASE Finalize
    BY <2>9 DEF Finalize, Returns, graph
  <2>10. CASE DispatchFails
    BY <2>10 DEF DispatchFails, store, graph
  <2>11. CASE RoundFails
    BY <2>11 DEF RoundFails, Raises, MayHaveWritten, store, graph
  <2>. QED
    BY <1>2, <2>1, <2>2, <2>3, <2>4, <2>5, <2>6, <2>7, <2>8, <2>9, <2>10,
        <2>11 DEF RunRounds
<1>3. CASE WindUp \/ LoseStatus
  <2>1. CASE Unload
    BY <2>1 DEF Unload, store, graph
  <2>2. CASE StopSession
    BY <2>2 DEF StopSession, store, graph
  <2>3. CASE SessionWasFatal
    BY <2>3 DEF SessionWasFatal, LeaveSimulation, store, graph, CycleKnown
  <2>4. CASE RecordMetrics
    BY <2>4 DEF RecordMetrics, Raises, LeaveSimulation, store, graph,
        CycleKnown
  <2>5. CASE Complete
    BY <2>5 DEF Complete, Returns
  <2>6. CASE CompleteFails
    BY <2>6 DEF CompleteFails, Raises, MayHaveWritten, LeaveSimulation, store,
        CycleKnown
  <2>7. CASE RecordStatus
    BY <2>7 DEF RecordStatus, Returns, store, TerminalStatus
  <2>8. CASE InterruptStatus
    BY <2>8 DEF InterruptStatus, Raises, MayHaveWritten, store, TerminalStatus
  <2>9. CASE Close
    BY <2>9 DEF Close, Conclude, graph
  <2>10. CASE LoseStatus
    BY <2>10 DEF LoseStatus, Returns, store, graph
  <2>. QED
    BY <1>3, <2>1, <2>2, <2>3, <2>4, <2>5, <2>6, <2>7, <2>8, <2>9, <2>10 DEF
        WindUp
<1>. QED
  BY <1>1, <1>2, <1>3 DEF TaskStep

\* Put together: what was accepted is still accounted for after every step.
LEMMA CountStep ==
  ASSUME IInv, HInv, HNext
  PROVE  CountInv'
<1>0. /\ accepted \in [Cycles -> Nat] /\ events \in [Cycles -> Nat]
      /\ status \in [Cycles -> Statuses] /\ run \in 0..MaxRuns
      /\ pending \in BOOLEAN /\ shocks \in {0, 1}
  BY DEF HInv, CountInv, IInv, TypeOK
<1>1. CASE TaskStep /\ accepted' = accepted
  <2>1. /\ run' = run /\ \A c \in Cycles : c # run => events'[c] = events[c]
        /\ exc' = "none" => /\ exc = "none" /\ Running
                            /\ events'[run] + OnTheWay' = events[run] + OnTheWay
    BY <1>1, CarriedStep DEF IInv, HInv
  <2>2. /\ \A c \in Cycles : c # run => status'[c] = status[c]
        /\ status'[run] = "complete" =>
             /\ events' = events
             /\ status[run] = "complete" \/ (exc = "none" /\ Running /\ OnTheWay = 0)
    BY <1>1, JudgedStep DEF IInv, HInv
  <2>3. NoShockLost'
    <3>. SUFFICES ASSUME NEW c \in Cycles, status'[c] = "complete"
                  PROVE  events'[c] = accepted'[c]
      BY DEF NoShockLost
    <3>1. CASE c # run
      BY <1>1, <2>1, <2>2, <3>1 DEF HInv, CountInv, NoShockLost
    <3>2. CASE c = run /\ status[run] = "complete"
      BY <1>1, <2>2, <3>2 DEF HInv, CountInv, NoShockLost
    <3>3. CASE c = run /\ status[run] # "complete"
      <4>1. events' = events /\ OnTheWay = 0 /\ accepted[run] = events[run] + OnTheWay
        BY <2>2, <3>3 DEF HInv, CountInv
      <4>. QED
        BY <1>0, <1>1, <3>3, <4>1
    <3>. QED
      BY <3>1, <3>2, <3>3
  <2>4. \A c \in Cycles : c > run' => accepted'[c] = 0 /\ events'[c] = 0
    BY <1>0, <1>1, <2>1 DEF HInv, CountInv, Cycles
  <2>5. exc' = "none" => accepted'[run'] = events'[run'] + OnTheWay'
    BY <1>1, <2>1 DEF HInv, CountInv
  <2>. QED
    BY <1>0, <1>1, <2>3, <2>4, <2>5 DEF CountInv
<1>2. CASE Start /\ accepted' = accepted
  <2>1. run' = run + 1 /\ run' \in Cycles /\ UNCHANGED <<events, status>>
    BY <1>0, <1>2, RunsAssumption DEF Start, Cycles, graph
  <2>2. accepted[run'] = 0 /\ events[run'] = 0
    BY <1>0, <2>1 DEF HInv, CountInv
  <2>3. ~pending' /\ shocks' = 0
    BY <1>2 DEF Start, Running, HInv, SlotInv
  <2>4. NoShockLost'
    BY <1>2, <2>1 DEF HInv, CountInv, NoShockLost
  <2>5. \A c \in Cycles : c > run' => accepted'[c] = 0 /\ events'[c] = 0
    BY <1>0, <1>2, <2>1 DEF HInv, CountInv, Cycles
  <2>. QED
    BY <1>0, <1>2, <2>1, <2>2, <2>3, <2>4, <2>5 DEF CountInv, OnTheWay
<1>3. CASE (Stop \/ TaskDone) /\ accepted' = accepted
  <2>1. UNCHANGED <<run, exc, events, status, shocks>>
    BY <1>3 DEF Stop, TaskDone, store, graph
  <2>2. Running' => Running /\ pending' = pending
    BY <1>3 DEF Stop, TaskDone, Running
  <2>. QED
    BY <1>3, <2>1, <2>2 DEF HInv, CountInv, NoShockLost, OnTheWay
<1>4. CASE HInjectShock
  <2>1. /\ UNCHANGED <<run, exc, pc, events, status, shocks>>
        /\ ~pending /\ pending' = TRUE /\ Running
    BY <1>4 DEF HInjectShock, InjectShock, graph, store
  <2>2. run \in Cycles
    BY <2>1 DEF IInv, RunInv
  <2>3. accepted' = [accepted EXCEPT ![run] = @ + 1]
    BY <1>4 DEF HInjectShock
  <2>4. status[run] # "complete"
    BY <1>4, <2>1 DEF HInjectShock, InjectShock, ShockWindowOpen, HInv, ClosedInv
  <2>5. NoShockLost'
    BY <1>0, <2>1, <2>3, <2>4 DEF HInv, CountInv, NoShockLost
  <2>6. accepted' \in [Cycles -> Nat]
    BY <1>0, <2>2, <2>3
  <2>7. \A c \in Cycles : c > run' => accepted'[c] = 0 /\ events'[c] = 0
    BY <1>0, <2>1, <2>3 DEF HInv, CountInv, Cycles
  <2>8. exc = "none" => accepted'[run] = events[run] + shocks + 1
    BY <1>0, <2>1, <2>2, <2>3 DEF HInv, CountInv, OnTheWay
  <2>9. OnTheWay' = shocks + 1
    BY <2>1 DEF OnTheWay
  <2>10. exc' = "none" => accepted'[run'] = events'[run'] + OnTheWay'
    <3>1. run' = run /\ exc' = exc /\ events' = events
      BY <2>1
    <3>2. events[run] \in Nat
      BY <1>0, <2>2
    <3>. QED
      BY <1>0, <2>8, <2>9, <3>1, <3>2
  <2>. QED
    BY <2>5, <2>6, <2>7, <2>10 DEF CountInv
<1>. QED
  BY <1>1, <1>2, <1>3, <1>4 DEF HNext, HStop

\* Every step with the history is a step without it.
LEMMA HistoryIsNext == HNext => Next
BY DEF HNext, HStop, HInjectShock, Next

\* No run has accepted a shock yet.
LEMMA HInitially == HInit => HInv
<1>. SUFFICES ASSUME HInit PROVE HInv
  OBVIOUS
<1>1. CountInv
  BY DEF HInit, Init, CountInv, NoShockLost, Running
<1>2. SlotInv
  BY DEF HInit, Init, SlotInv, InRound, PastRounds
<1>3. ClosedInv
  BY DEF HInit, Init, ClosedInv, Running
<1>. QED
  BY <1>1, <1>2, <1>3 DEF HInv

\* The history only watches: what holds of every run holds with it.
THEOREM HistoryWatches == HSpec => Spec
<1>1. HInit => Init
  BY DEF HInit
<1>2. [HNext]_hvars => [Next]_vars
  BY HistoryIsNext DEF hvars
<1>. QED
  BY <1>1, <1>2, PTL DEF HSpec, Spec

\* Both invariants hold throughout.
THEOREM HInvariance == HSpec => [](IInv /\ HInv)
<1>1. IInv /\ HInv /\ [HNext]_hvars => HInv'
  <2>. SUFFICES ASSUME IInv, HInv, [HNext]_hvars PROVE HInv'
    OBVIOUS
  <2>1. CASE HNext
    BY <2>1, CountStep, SlotStep, ClosedStep, HistoryIsNext DEF HInv, IInv
  <2>2. CASE UNCHANGED hvars
    BY <2>2 DEF hvars, vars, HInv, CountInv, NoShockLost, OnTheWay, SlotInv,
       ClosedInv, Running
  <2>. QED
    BY <2>1, <2>2
<1>. QED
  BY <1>1, HInitially, HistoryWatches, Invariance, PTL DEF HSpec

\* Every shock a user queued on a run that completed reached a round: the
\* window (state.py:473) closes before the last round takes the slot.
THEOREM ShocksArrive == HSpec => []NoShockLost
<1>1. HInv => NoShockLost
  BY DEF HInv, CountInv
<1>. QED
  BY <1>1, HInvariance, PTL

-----------------------------------------------------------------------------
(* The rest of the web process: who excludes whom, for any number of rounds, *)
(* runs and concurrent replay requests.                                      *)

\* The types of what the rest of the process adds to the runs.
WebType ==
  /\ viewer \in [Viewers -> {"none", "reading", "starting"}]
  /\ replayOn \in BOOLEAN
  /\ asking \in SUBSET Kinds
  /\ job \in [Kinds -> {"none", "manual", "auto"}]
  /\ task \in [Kinds -> {"none", "working", "ended"}]
  /\ pipe \in {"none", "created", "gating", "advising", "reporting"}
  /\ outcome \in [Cycles -> {"none", "ran", "failed", "skipped"}]

\* At most one job has a task, and none has one during a run.
JobsInv ==
  /\ BusyTellsTheTruth
  /\ \A k, l \in Kinds : task[k] # "none" /\ task[l] # "none" => k = l
  /\ Running => \A k \in Kinds : task[k] = "none"

\* The pipeline's own job is the one it waits for.
AutoInv == \A k \in Kinds : job[k] = "auto" <=> AwaitedByPipeline(k)

CInv == WebType /\ JobsInv /\ AutoInv /\ ReplayExcludesRun /\ PipelineBeforeNextRun

-----------------------------------------------------------------------------
\* A step of the run's task neither starts a run nor triggers a pipeline.
LEMMA TaskOnly ==
  ASSUME Stop \/ InjectShock \/ TaskStep
  PROVE  Running /\ run' = run /\ triggered' = triggered
<1>1. CASE Stop \/ InjectShock
  BY <1>1 DEF Stop, InjectShock
<1>2. CASE OpenAndSeed
  BY <1>2 DEF OpenAndSeed, CancelUnstarted, Begin, OpenFails, Open, BeginSeeding,
     Seed, SeedFails, Release, Create, CreateFails, Returns, Raises, Running
<1>3. CASE RunRounds
  BY <1>3 DEF RunRounds, StartSession, SimulationFails, Load, LoadFails,
     WriteShock, Dispatch, PersistRound, NextRound, Finalize, DispatchFails,
     RoundFails, Returns, Raises, Running
<1>4. CASE WindUp \/ LoseStatus
  BY <1>4 DEF WindUp, LoseStatus, Unload, StopSession, SessionWasFatal,
     RecordMetrics, Complete, CompleteFails, RecordStatus, InterruptStatus,
     Close, Returns, Raises, Running
<1>. QED
  BY <1>1, <1>2, <1>3, <1>4 DEF TaskStep

\* Every step is a step of a run, or leaves the runs alone.
LEMMA StepOfARun ==
  ASSUME [WNext]_wvars
  PROVE  [Next]_vars
<1>1. CASE StartRun \/ RunDone \/ RunStep
  BY <1>1 DEF StartRun, RunDone, RunStep, Next
<1>2. CASE ReplayStep
  BY <1>2 DEF ReplayStep, AskReplay, BeginReplay, RefuseReplay, ShowReplay,
     ReplayFails, StopReplay
<1>3. CASE PipelineStep
  BY <1>3 DEF PipelineStep, BeginPipeline, StartAdvisory, SkipAdvisory
<1>4. ASSUME NEW k \in Kinds,
             AskJob(k) \/ StartJob(k) \/ RefuseJob(k) \/ EndJob(k) \/ JobDone(k)
      PROVE  UNCHANGED vars
  BY <1>4 DEF AskJob, StartJob, RefuseJob, EndJob, JobDone
<1>5. CASE UNCHANGED wvars
  BY <1>5 DEF wvars
<1>. QED
  BY <1>1, <1>2, <1>3, <1>4, <1>5 DEF WNext

\* What is proved of the runs holds of them in the web process.
THEOREM CoordinationRestricts == WSpec => Spec
<1>1. WInit => Init
  BY DEF WInit
<1>. QED
  BY <1>1, StepOfARun, PTL DEF WSpec, Spec

-----------------------------------------------------------------------------
\* Running is a matter of pc alone.
LEMMA RunningKept == UNCHANGED vars => (Running' <=> Running) /\ run' = run /\ triggered' = triggered
BY DEF vars, Running

\* At start-up nobody uses anything.
LEMMA WInitially == WInit => CInv
<1>. SUFFICES ASSUME WInit PROVE CInv
  OBVIOUS
<1>1. WebType
  BY DEF WInit, WebType
<1>2. JobsInv /\ AutoInv /\ ReplayExcludesRun /\ PipelineBeforeNextRun
  BY DEF WInit, Init, JobsInv, AutoInv, AwaitedByPipeline, BusyTellsTheTruth, ReplayExcludesRun,
     PipelineBeforeNextRun, Running
<1>. QED
  BY <1>1, <1>2 DEF CInv

\* Every step keeps the types.
LEMMA WebTypeStep ==
  ASSUME WebType, WNext
  PROVE  WebType'
<1>. USE DEF WebType, replayVars, jobVars, postRun
<1>1. CASE StartRun \/ RunDone \/ RunStep
  BY <1>1 DEF StartRun, RunDone, RunStep
<1>2. CASE StopReplay
  BY <1>2 DEF StopReplay
<1>3. ASSUME NEW q \in Viewers,
             \/ AskReplay(q) \/ BeginReplay(q) \/ RefuseReplay(q)
             \/ ShowReplay(q) \/ ReplayFails(q)
      PROVE  WebType'
  BY <1>3 DEF AskReplay, BeginReplay, RefuseReplay, ShowReplay, ReplayFails, MoveViewer
<1>4. ASSUME NEW k \in Kinds, AskJob(k) \/ StartJob(k) \/ RefuseJob(k) \/ EndJob(k)
      PROVE  WebType'
  BY <1>4 DEF AskJob, StartJob, RefuseJob, EndJob, Launch
<1>5. ASSUME NEW k \in Kinds, JobDone(k)
      PROVE  WebType'
  BY <1>5 DEF JobDone, Resume, StartReport
<1>6. CASE BeginPipeline
  BY <1>6 DEF BeginPipeline
<1>7. CASE StartAdvisory
  BY <1>7 DEF StartAdvisory, Launch, Kinds
<1>8. CASE SkipAdvisory
  BY <1>8 DEF SkipAdvisory, StartReport
<1>. QED
  BY <1>1, <1>2, <1>3, <1>4, <1>5, <1>6, <1>7, <1>8
     DEF WNext, ReplayStep, PipelineStep

\* A job starts only when no other job and no run is there (jobs.py:121 and the
\* second look of the routes, web/guards.py:31).
LEMMA JobsStep ==
  ASSUME CInv, WNext
  PROVE  JobsInv'
<1>. USE DEF CInv, WebType, JobsInv, BusyTellsTheTruth, BusyWith
<1>1. CASE StartRun
  BY <1>1 DEF StartRun, jobVars, Running
<1>2. CASE RunDone
  BY <1>2 DEF RunDone, jobVars, TaskDone, Running
<1>3. CASE RunStep
  BY <1>3, TaskOnly DEF RunStep, jobVars
<1>4. CASE ReplayStep
  BY <1>4, RunningKept DEF ReplayStep, AskReplay, BeginReplay, RefuseReplay,
     ShowReplay, ReplayFails, StopReplay, jobVars
<1>5. ASSUME NEW k \in Kinds, AskJob(k) \/ RefuseJob(k) \/ EndJob(k)
      PROVE  JobsInv'
  BY <1>5, RunningKept DEF AskJob, RefuseJob, EndJob
<1>6. ASSUME NEW k \in Kinds, StartJob(k)
      PROVE  JobsInv'
  BY <1>6, RunningKept DEF StartJob, Launch
<1>7. ASSUME NEW k \in Kinds, JobDone(k)
      PROVE  JobsInv'
  BY <1>7, RunningKept DEF JobDone, Resume, StartReport, AwaitedByPipeline, Kinds,
     postRun, PipelineBeforeNextRun
<1>8. CASE BeginPipeline
  BY <1>8, RunningKept DEF BeginPipeline, jobVars
<1>9. CASE StartAdvisory
  BY <1>9, RunningKept DEF StartAdvisory, Launch, PipelineBeforeNextRun, Kinds
<1>10. CASE SkipAdvisory
  BY <1>10, RunningKept DEF SkipAdvisory, StartReport, PipelineBeforeNextRun, Kinds
<1>. QED
  BY <1>1, <1>2, <1>3, <1>4, <1>5, <1>6, <1>7, <1>8, <1>9, <1>10
     DEF WNext, PipelineStep

\* The pipeline awaits exactly the job it started.
LEMMA AutoStep ==
  ASSUME CInv, WNext
  PROVE  AutoInv'
<1>. USE DEF CInv, WebType, JobsInv, AutoInv, BusyTellsTheTruth, BusyWith, Kinds,
            AwaitedByPipeline, jobVars, postRun
<1>1. CASE StartRun \/ RunStep
  BY <1>1 DEF StartRun, RunStep
<1>2. CASE RunDone
  <2>1. pipe \in {"none", "created"} \/ triggered' = triggered
    BY <1>2 DEF RunDone, TaskDone, PipelineBeforeNextRun, Running
  <2>. QED
    BY <1>2, <2>1 DEF RunDone
<1>3. CASE ReplayStep
  BY <1>3 DEF ReplayStep, AskReplay, BeginReplay, RefuseReplay, ShowReplay,
     ReplayFails, StopReplay
<1>4. ASSUME NEW k \in Kinds, AskJob(k) \/ StartJob(k) \/ RefuseJob(k) \/ EndJob(k)
      PROVE  AutoInv'
  BY <1>4 DEF AskJob, StartJob, RefuseJob, EndJob, Launch
<1>5. ASSUME NEW k \in Kinds, JobDone(k)
      PROVE  AutoInv'
  BY <1>5 DEF JobDone, Resume, StartReport
<1>6. CASE BeginPipeline
  BY <1>6 DEF BeginPipeline
<1>7. CASE StartAdvisory
  BY <1>7 DEF StartAdvisory, Launch
<1>8. CASE SkipAdvisory
  BY <1>8 DEF SkipAdvisory, StartReport
<1>. QED
  BY <1>1, <1>2, <1>3, <1>4, <1>5, <1>6, <1>7, <1>8 DEF WNext, PipelineStep

\* A run starts only without a replay, a replay only without a run.
LEMMA ReplayStepKeeps ==
  ASSUME CInv, WNext
  PROVE  ReplayExcludesRun'
<1>. USE DEF CInv, WebType, ReplayExcludesRun, ReplayActive, Starting, replayVars
<1>1. CASE StartRun
  BY <1>1 DEF StartRun
<1>2. CASE RunDone \/ RunStep
  BY <1>2, TaskOnly DEF RunDone, RunStep, TaskDone, Running
<1>3. ASSUME NEW q \in Viewers, AskReplay(q) \/ RefuseReplay(q) \/ ReplayFails(q)
      PROVE  ReplayExcludesRun'
  BY <1>3, RunningKept DEF AskReplay, RefuseReplay, ReplayFails, MoveViewer
<1>4. ASSUME NEW q \in Viewers, BeginReplay(q) \/ ShowReplay(q)
      PROVE  ReplayExcludesRun'
  BY <1>4, RunningKept DEF BeginReplay, ShowReplay, MoveViewer
<1>5. CASE StopReplay
  BY <1>5, RunningKept DEF StopReplay
<1>6. CASE PipelineStep
  BY <1>6, RunningKept DEF PipelineStep, BeginPipeline, StartAdvisory, SkipAdvisory
<1>7. ASSUME NEW k \in Kinds,
             AskJob(k) \/ StartJob(k) \/ RefuseJob(k) \/ EndJob(k) \/ JobDone(k)
      PROVE  ReplayExcludesRun'
  BY <1>7, RunningKept DEF AskJob, StartJob, RefuseJob, EndJob, JobDone
<1>. QED
  BY <1>1, <1>2, <1>3, <1>4, <1>5, <1>6, <1>7 DEF WNext, ReplayStep

\* A run starts only without a pipeline, a pipeline only at the end of a run.
LEMMA PipelineStepKeeps ==
  ASSUME CInv, WNext
  PROVE  PipelineBeforeNextRun'
<1>. USE DEF CInv, PipelineBeforeNextRun, postRun
<1>1. CASE StartRun
  BY <1>1 DEF StartRun
<1>2. CASE RunDone
  BY <1>2 DEF RunDone, TaskDone, Running
<1>3. CASE RunStep
  BY <1>3, TaskOnly DEF RunStep
<1>4. CASE ReplayStep
  BY <1>4, RunningKept DEF ReplayStep, AskReplay, BeginReplay, RefuseReplay,
     ShowReplay, ReplayFails, StopReplay
<1>5. CASE PipelineStep
  BY <1>5, RunningKept DEF PipelineStep, BeginPipeline, StartAdvisory,
     SkipAdvisory, StartReport
<1>6. ASSUME NEW k \in Kinds,
             AskJob(k) \/ StartJob(k) \/ RefuseJob(k) \/ EndJob(k)
      PROVE  PipelineBeforeNextRun'
  BY <1>6, RunningKept DEF AskJob, StartJob, RefuseJob, EndJob
<1>7. ASSUME NEW k \in Kinds, JobDone(k)
      PROVE  PipelineBeforeNextRun'
  BY <1>7, RunningKept DEF JobDone, Resume, StartReport, AwaitedByPipeline
<1>. QED
  BY <1>1, <1>2, <1>3, <1>4, <1>5, <1>6, <1>7 DEF WNext

\* The exclusions hold throughout.
THEOREM Coordination == WSpec => []CInv
<1>1. CInv /\ [WNext]_wvars => CInv'
  <2>. SUFFICES ASSUME CInv, [WNext]_wvars PROVE CInv'
    OBVIOUS
  <2>1. CASE WNext
    BY <2>1, WebTypeStep, JobsStep, AutoStep, ReplayStepKeeps, PipelineStepKeeps DEF CInv
  <2>2. CASE UNCHANGED wvars
    BY <2>2, RunningKept DEF wvars, replayVars, jobVars, postRun, CInv, WebType,
       JobsInv, AutoInv, AwaitedByPipeline, BusyTellsTheTruth, ReplayExcludesRun, ReplayActive, Starting,
       PipelineBeforeNextRun
  <2>. QED
    BY <2>1, <2>2
<1>. QED
  BY <1>1, WInitially, PTL DEF WSpec

\* Types of the whole web process.
THEOREM WebTypeCorrect == WSpec => []WTypeOK
<1>1. TypeOK /\ CInv => WTypeOK
  BY DEF CInv, WebType, WTypeOK
<1>. QED
  BY <1>1, Coordination, CoordinationRestricts, TypeCorrect, PTL

\* A run, an advisory and a report never use the orchestrator at the same time.
THEOREM OrchestratorIsExclusive == WSpec => []OneOrchestratorUser
<1>1. CInv => OneOrchestratorUser
  BY DEF CInv, JobsInv, OneOrchestratorUser, OrchestratorUsers
<1>. QED
  BY <1>1, Coordination, PTL

\* What the guards read as busy is what the tasks do.
THEOREM BusyIsTrue == WSpec => []BusyTellsTheTruth
<1>1. CInv => BusyTellsTheTruth
  BY DEF CInv, JobsInv
<1>. QED
  BY <1>1, Coordination, PTL

\* Live frames and replay frames never share the screen.
THEOREM ReplayIsExclusive == WSpec => []ReplayExcludesRun
<1>1. CInv => ReplayExcludesRun
  BY DEF CInv
<1>. QED
  BY <1>1, Coordination, PTL

\* No run slips in before the pipeline of the last one is over.
THEOREM PipelineIsNotOvertaken == WSpec => []PipelineBeforeNextRun
<1>1. CInv => PipelineBeforeNextRun
  BY DEF CInv
<1>. QED
  BY <1>1, Coordination, PTL

\* The pipeline skips its report only for a job that a user started: its own
\* advisory is over, and marked so, when it looks.
THEOREM SkipsAreForUsers == WSpec => SkippedOnlyForUsers
<1>. DEFINE Skips ==
       \A c \in Cycles :
         outcome[c] = "none" /\ outcome'[c] = "skipped" => \E k \in Kinds : job[k] = "manual"
<1>1. ASSUME CInv, WNext
      PROVE  Skips
  <2>1. CASE StartRun \/ RunDone \/ RunStep \/ ReplayStep
    BY <2>1 DEF StartRun, RunDone, RunStep, ReplayStep, AskReplay, BeginReplay,
       RefuseReplay, ShowReplay, ReplayFails, StopReplay, postRun
  <2>2. ASSUME NEW k \in Kinds, AskJob(k) \/ StartJob(k) \/ RefuseJob(k) \/ EndJob(k)
        PROVE  Skips
    BY <2>2 DEF AskJob, StartJob, RefuseJob, EndJob, postRun
  <2>3. ASSUME NEW k \in Kinds, JobDone(k)
        PROVE  Skips
    <3>1. CASE ~AwaitedByPipeline(k)
      BY <2>3, <3>1 DEF JobDone, postRun
    <3>2. CASE AwaitedByPipeline(k) /\ k = "advisory"
      <4>1. ~BusyWith([job EXCEPT ![k] = "none"])
        BY <1>1, <3>2 DEF CInv, WebType, JobsInv, AutoInv, BusyTellsTheTruth, BusyWith
      <4>. QED
        BY <2>3, <3>2, <4>1 DEF JobDone, Resume, StartReport
    <3>3. CASE AwaitedByPipeline(k) /\ k # "advisory"
      <4>1. \E o \in {"ran", "failed"} : outcome' = [outcome EXCEPT ![run] = o]
        BY <2>3, <3>3 DEF JobDone, Resume
      <4>2. outcome \in [Cycles -> {"none", "ran", "failed", "skipped"}]
        BY <1>1 DEF CInv, WebType
      <4>. QED
        BY <4>1, <4>2
    <3>. QED
      BY <3>1, <3>2, <3>3
  <2>4. CASE BeginPipeline \/ StartAdvisory
    BY <2>4 DEF BeginPipeline, StartAdvisory
  <2>5. CASE SkipAdvisory
    <3>1. CASE BusyWith(job)
      <4>1. PICK k \in Kinds : job[k] # "none"
        BY <3>1 DEF BusyWith
      <4>2. job[k] # "auto"
        BY <1>1, <2>5 DEF CInv, AutoInv, AwaitedByPipeline, SkipAdvisory
      <4>3. job[k] = "manual"
        BY <1>1, <4>1, <4>2 DEF CInv, WebType
      <4>. QED
        BY <4>3
    <3>2. CASE ~BusyWith(job)
      BY <2>5, <3>2 DEF SkipAdvisory, StartReport
    <3>. QED
      BY <3>1, <3>2
  <2>. HIDE DEF Skips
  <2>. QED
    BY <1>1, <2>1, <2>2, <2>3, <2>4, <2>5 DEF WNext, PipelineStep
<1>2. CInv /\ [WNext]_wvars => [Skips]_wvars
  BY <1>1
<1>. QED
  BY <1>2, Coordination, PTL DEF WSpec, SkippedOnlyForUsers

\* One user of the orchestrator at a time, and marks that tell who it is.
THEOREM GuardsHold == WSpec => []OrchestratorIsGuarded
BY OrchestratorIsExclusive, BusyIsTrue, PTL DEF OrchestratorIsGuarded

\* A run overlaps neither a replay nor the pipeline of an earlier run.
THEOREM AloneInProcess == WSpec => []RunsAreAlone
BY ReplayIsExclusive, PipelineIsNotOvertaken, PTL DEF RunsAreAlone
=============================================================================
