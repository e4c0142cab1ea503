------------------------------ MODULE EvalBatch ------------------------------
(***************************************************************************)
(* The point-in-time evaluation (eval/): fixtures are built                *)
(* (build_fixtures.py), outcomes labelled (label_outcomes.py), the         *)
(* simulation defaults frozen and batches of cycles run                    *)
(* (run_eval.py), baselines sampled (baselines.py), and everything stored  *)
(* is matched and scored.  Each tool is a process of its own that may be   *)
(* stopped or killed at any point and started again, next to the others,   *)
(* and none of them takes a lock on the files it writes.  A write to a     *)
(* file is one step unless the process dies in it.                         *)
(*                                                                         *)
(* A market block is abstracted to the download it was made from, the      *)
(* simulation settings to the version of the product defaults below the    *)
(* arm's own knobs, a baseline record to the block its prompt showed.      *)
(***************************************************************************)
EXTENDS Integers, Sequences, FiniteSets, FiniteSetsExt, Functions

CONSTANTS
  Events,      \* eval/events.jsonl, in file order
  Arms,        \* arm name -> [variant, seeds]
  Setups,      \* bounds: [tools, shells, cycles, upsets], the processes that
               \* build, label or register, the shells in which run_eval.py
               \* run is started, how many cycles complete, and how many
               \* upsets there are: interruptions, builds with --force and
               \* changed defaults
  Blocks,      \* what a download can return
  Versions,    \* versions of the simulation defaults
  NoDefaults,  \* no eval/registered_simulation.json
  Idle,        \* no such process
  Absent,      \* no such file or line
  Torn         \* a file, or a line, whose write was interrupted

ASSUME EvalAssumption ==
  /\ Events \subseteq Nat \ {0}
  /\ IsFiniteSet(Events)
  /\ \A s \in Setups : s.cycles \in Nat /\ s.upsets \in Nat
  /\ Absent \notin Blocks /\ Torn \notin Blocks /\ Absent # Torn
  /\ Versions \subseteq Nat /\ Versions # {}
  /\ NoDefaults \notin Versions /\ Torn \notin Versions /\ Torn # NoDefaults
  /\ \A a \in DOMAIN Arms : Arms[a].variant \in {"named", "anon"} /\ Arms[a].seeds \subseteq Nat

Variants == {"named", "anon"}
\* A baseline unit; one seed and one kind stand for all of them.
Units == Events \X Variants

\* RunSpec.key: (tag, sim_seed, normalized rumor) identifies arm, event, seed.
Keys == UNION {{[arm |-> a, event |-> e, seed |-> s] : e \in Events, s \in Arms[a].seeds}
               : a \in DOMAIN Arms}

\* The files the tools write, for the history below: the two variants of an
\* event's fixture, named by the event, the labels and the registration.
LabelsFile == 0
RegistrationFile == -1
Files == Events \cup {LabelsFile, RegistrationFile}

\* What a tool process is at work on.  A build of one event has the block its
\* named fixture was written with, or nothing before its download ends; the
\* labels were read when the labelling began; the defaults are those of the
\* code the registration loaded.
Builds == [tool : {"build"}, event : Events, named : Blocks \cup {Absent}]
Labellings == [tool : {"label"}, seen : SUBSET Events]
Registrations == [tool : {"register"}, base : Versions]

ASSUME IdleAssumption == Idle \notin Builds \cup Labellings \cup Registrations

VARIABLES
  fixture,  \* eval/fixtures: event and variant -> block, Absent or Torn
  tool,     \* process -> what it builds, labels or registers, or Idle
  upsets,   \* upsets so far
  setup,    \* the setup; it never changes
  contended, \* history: the files on which two processes were at work at
             \* once, and the fixtures for which --force was given
  labels,   \* events with a line in eval/labels.jsonl
  frozen,   \* eval/registered_simulation.json: its defaults, NoDefaults or Torn
  defaults, \* today's SimulationSettings defaults
  cycles,   \* the complete Cycle nodes of the evaluation, oldest first
  child,    \* the cycle whose process runs and holds the instance lock, or Idle
  batch,    \* runner -> its run_batch
  records   \* eval/baselines.jsonl: unit -> block its prompt showed, Absent or Torn

vars == <<fixture, tool, contended, labels, frozen, defaults, cycles,
          child, batch, records, upsets, setup>>
fileVars == <<fixture, tool, contended, labels, frozen, defaults>>
runVars == <<cycles, child, batch>>

\* What a Cycle node says of its run.
Cycle == [key : Keys, base : Versions, block : Blocks]

TypeOK ==
  /\ fixture \in [Units -> Blocks \cup {Absent, Torn}]
  /\ tool \in [setup.tools -> {Idle} \cup Builds \cup Labellings \cup Registrations]
  /\ setup \in Setups /\ upsets \in 0..setup.upsets /\ contended \subseteq Files
  /\ labels \subseteq Events
  /\ frozen \in Versions \cup {NoDefaults, Torn} /\ defaults \in Versions
  /\ cycles \in Seq(Cycle) /\ child \in {Idle} \cup Cycle
  /\ records \in [Units -> Blocks \cup {Absent, Torn}]

Init ==
  /\ fixture = [u \in Units |-> Absent] /\ upsets = 0 /\ contended = {}
  /\ labels = {} /\ frozen = NoDefaults /\ defaults = Min(Versions)
  /\ cycles = <<>> /\ child = Idle
  /\ setup \in Setups
  /\ tool = [p \in setup.tools |-> Idle] /\ batch = [r \in setup.shells |-> Idle]
  /\ records = [u \in Units |-> Absent]

-----------------------------------------------------------------------------
(* The tools that write eval/'s files. *)

Runs(p, kind) == tool[p] # Idle /\ tool[p].tool = kind

\* The processes that are at work on the file.
Building(e) == {p \in setup.tools : Runs(p, "build") /\ tool[p].event = e}
Labelling == {p \in setup.tools : Runs(p, "label")}
Registering == {p \in setup.tools : Runs(p, "register")}

\* A process starts on the file, next to one that is at work on it or not.
Begins(p, work, file, contends) ==
  /\ tool[p] = Idle
  /\ tool' = [tool EXCEPT ![p] = work]
  /\ contended' = contended \cup {f \in {file} : contends}
  /\ UNCHANGED <<fixture, labels, frozen, defaults>>

Ends(p) == tool' = [tool EXCEPT ![p] = Idle] /\ UNCHANGED contended

\* build_all, one event on: the named fixture alone decides on the skip, and
\* the download begins.
BuildStarts(p, e, force) ==
  /\ fixture[<<e, "named">>] = Absent \/ force
  /\ Begins(p, [tool |-> "build", event |-> e, named |-> Absent], e, force \/ Building(e) # {})

\* The download fails: the event is left as it is.
BuildFails(p) ==
  /\ Runs(p, "build") /\ tool[p].named = Absent
  /\ Ends(p)
  /\ UNCHANGED <<fixture, labels, frozen, defaults>>

\* It returned a block: the named fixture is written ...
BuildNamed(p, b) ==
  /\ Runs(p, "build") /\ tool[p].named = Absent
  /\ fixture' = [fixture EXCEPT ![<<tool[p].event, "named">>] = b]
  /\ tool' = [tool EXCEPT ![p] = [tool |-> "build", event |-> @.event, named |-> b]]
  /\ UNCHANGED <<contended, labels, frozen, defaults>>

\* ... and then the anonymized one, of the same numbers.
BuildAnon(p) ==
  /\ Runs(p, "build") /\ tool[p].named # Absent
  /\ fixture' = [fixture EXCEPT ![<<tool[p].event, "anon">>] = tool[p].named]
  /\ Ends(p)
  /\ UNCHANGED <<labels, frozen, defaults>>

\* label_outcomes.py reads the labels that exist ...
LabelStarts(p) == Begins(p, [tool |-> "label", seen |-> labels], LabelsFile, Labelling # {})

\* ... downloads, and replaces the whole file by these and the new ones.
LabelWrites(p, found) ==
  /\ Runs(p, "label")
  /\ labels' = tool[p].seen \cup found
  /\ Ends(p)
  /\ UNCHANGED <<fixture, frozen, defaults>>

Checked ==
  /\ \A u \in Units : fixture[u] \in Blocks  \* check_fixtures
  /\ labels = Events                         \* check_labels

\* run_eval.py registration keeps a file that is there, a torn one included.
RegisterStarts(p) ==
  /\ Checked /\ frozen = NoDefaults
  /\ Begins(p, [tool |-> "register", base |-> defaults], RegistrationFile, Registering # {})

RegisterWrites(p) ==
  /\ Runs(p, "register")
  /\ frozen' = tool[p].base
  /\ Ends(p)
  /\ UNCHANGED <<fixture, labels, defaults>>

\* A torn registration is refused by every reader until somebody deletes it.
RepairRegistration ==
  /\ frozen = Torn
  /\ frozen' = NoDefaults
  /\ UNCHANGED <<fixture, tool, contended, labels, defaults>>

\* A process dies, between two writes or within one; only the labels are
\* replaced atomically.
ToolDies(p) ==
  /\ tool[p] # Idle
  /\ Ends(p)
  /\ UNCHANGED <<labels, defaults>>
  /\ \/ UNCHANGED <<fixture, frozen>>
     \/ /\ Runs(p, "build")
        /\ LET half == IF tool[p].named = Absent THEN "named" ELSE "anon" IN
             fixture' = [fixture EXCEPT ![<<tool[p].event, half>>] = Torn]
        /\ UNCHANGED frozen
     \/ Runs(p, "register") /\ frozen' = Torn /\ UNCHANGED fixture

\* A later commit changes a default.
DefaultsChange ==
  /\ \E v \in Versions : v > defaults /\ defaults' = v
  /\ UNCHANGED <<fixture, tool, contended, labels, frozen>>

-----------------------------------------------------------------------------
(* run_eval.py run: one `alphaswarm run` child per planned cycle. *)

\* planned_runs
Planned(arm, only) == {k \in Keys : k.arm = arm /\ k.event \in only}

Variant(k) == Arms[k.arm].variant

\* Bug: a cycle that still runs counts as done.
StartedKeys(stored, arm) ==
  {c.key : c \in {d \in Range(stored) \cup ({child} \ {Idle}) : d.key.arm = arm}}

\* completed_keys: cycles that failed or were left "running" do not count,
\* here or anywhere in eval/, and are not kept.
CompletedKeys(stored, arm) == {c.key : c \in {d \in Range(stored) : d.key.arm = arm}}

\* The next spec of run_batch: by event, then by seed.
NextSpec(todo) ==
  CHOOSE k \in todo : \A j \in todo : k.event < j.event \/ (k.event = j.event /\ k.seed <= j.seed)

\* _cmd_run; with --rerun nothing counts as done and --events is required.
\* The specs that are done are skipped whenever the loop meets them, so
\* they are counted here.
StartBatch(r, arm, only, rerun) ==
  /\ batch[r] = Idle
  /\ rerun => only # {}
  /\ LET specs == Planned(arm, IF only = {} THEN Events ELSE only)
         done == IF rerun THEN {} ELSE CompletedKeys(cycles, arm)
     IN /\ \A k \in specs : fixture[<<k.event, Variant(k)>>] # Absent
        /\ batch' = [batch EXCEPT ![r] = [todo |-> specs \ done, reported |-> specs \cap done, waits |-> FALSE]]
  /\ UNCHANGED <<cycles, child>>

Ready(r) == batch[r] # Idle /\ ~batch[r].waits /\ batch[r].todo # {}
\* The runner that waits for the child, unless its shell was killed.
Waiting == {r \in setup.shells : batch[r] # Idle /\ batch[r].waits}
SpecDone(r, reported) ==
  [batch EXCEPT ![r] = [todo |-> @.todo \ {NextSpec(@.todo)}, reported |-> @.reported \cup reported, waits |-> FALSE]]

\* The child takes the instance lock, loads the fixture and creates its Cycle.
LaunchChild(r) ==
  /\ Ready(r) /\ child = Idle /\ Len(cycles) < setup.cycles
  /\ LET k == NextSpec(batch[r].todo) IN
       /\ fixture[<<k.event, Variant(k)>>] \in Blocks
       /\ child' = [key |-> k, base |-> defaults, block |-> fixture[<<k.event, Variant(k)>>]]
  /\ batch' = [batch EXCEPT ![r].waits = TRUE]
  /\ UNCHANGED cycles

\* It fails before it has a Cycle: an unreadable fixture, Neo4j down.
ChildFails(r) ==
  /\ Ready(r) /\ child = Idle
  /\ batch' = SpecDone(r, {})
  /\ UNCHANGED <<cycles, child>>

\* Exit 75 (the lock is held), 2 or 130: the batch stops.
BatchStops(r) ==
  /\ Ready(r)
  /\ batch' = [batch EXCEPT ![r] = Idle]
  /\ UNCHANGED <<cycles, child>>

\* The child ends and the lock goes with it, even on a crash.  A lost answer
\* to its last write can end a complete run with exit 1.  After exit 0
\* run_batch asks the graph again.
ChildEnds(complete, exit) ==
  /\ child # Idle
  /\ exit = 0 => complete
  /\ child' = Idle
  /\ cycles' = IF complete THEN Append(cycles, child) ELSE cycles
  /\ \/ \E r \in Waiting :
          batch' = SpecDone(r, IF exit = 0 THEN {child.key} \cap CompletedKeys(cycles', child.key.arm)
                                             ELSE {})
     \/ Waiting = {} /\ UNCHANGED batch

BatchEnds(r) ==
  /\ batch[r] # Idle /\ batch[r].todo = {}
  /\ batch' = [batch EXCEPT ![r] = Idle]
  /\ UNCHANGED <<cycles, child>>

\* Its shell is killed before; a child it waits for runs on.
BatchDies(r) ==
  /\ batch[r] # Idle /\ batch[r].todo # {}
  /\ batch' = [batch EXCEPT ![r] = Idle]
  /\ UNCHANGED <<cycles, child>>

-----------------------------------------------------------------------------
(* baselines.py, one process at a time; it takes no lock, so it runs next  *)
(* to anything.  As only it writes the records, the units pending at its   *)
(* start and not yet sampled are those without a record.                   *)

Readable == \A u \in Units : records[u] # Torn

\* run_baselines: read the fixture's block, sample, append the record.
Sampled(record) ==
  /\ Readable
  /\ \E u \in Units :
       /\ records[u] = Absent /\ fixture[u] \in Blocks
       /\ records' = [records EXCEPT ![u] = record[u]]

SampleUnit == Sampled(fixture)

\* The process dies within append_jsonl.
TornRecord == Sampled([u \in Units |-> Torn])

\* Every later start raises on the incomplete line until somebody deletes it.
RepairRecords ==
  /\ ~Readable
  /\ records' = [u \in Units |-> IF records[u] = Torn THEN Absent ELSE records[u]]

-----------------------------------------------------------------------------
Ordinary ==
  \/ /\ \/ \E p \in setup.tools :
             \/ \E e \in Events : BuildStarts(p, e, FALSE)
             \/ BuildFails(p) \/ (\E b \in Blocks : BuildNamed(p, b)) \/ BuildAnon(p)
             \/ LabelStarts(p) \/ \E found \in SUBSET Events : LabelWrites(p, found)
             \/ RegisterStarts(p) \/ RegisterWrites(p)
        \/ RepairRegistration
     /\ UNCHANGED <<runVars, records>>
  \/ /\ \/ \E r \in setup.shells :
             \/ \E arm \in DOMAIN Arms, only \in SUBSET Events, rerun \in BOOLEAN : StartBatch(r, arm, only, rerun)
             \/ LaunchChild(r) \/ ChildFails(r) \/ BatchStops(r) \/ BatchEnds(r)
        \/ \E complete \in BOOLEAN, exit \in {0, 1} : ChildEnds(complete, exit)
     /\ UNCHANGED <<fileVars, records>>
  \/ /\ SampleUnit \/ RepairRecords
     /\ UNCHANGED <<fileVars, runVars>>

Upset ==
  \/ /\ \/ \E p \in setup.tools : (\E e \in Events : BuildStarts(p, e, TRUE)) \/ ToolDies(p)
        \/ DefaultsChange
     /\ UNCHANGED <<runVars, records>>
  \/ (\E r \in setup.shells : BatchDies(r)) /\ UNCHANGED <<fileVars, records>>
  \/ TornRecord /\ UNCHANGED <<fileVars, runVars>>

Next ==
  /\ \/ Ordinary /\ UNCHANGED upsets
     \/ Upset /\ upsets < setup.upsets /\ upsets' = upsets + 1
  /\ UNCHANGED setup

Spec == Init /\ [][Next]_vars

-----------------------------------------------------------------------------
(* run_eval.py score: what the stored cycles come to. *)

\* Bug: the defaults frozen at registration are not used.
TodaysBase == defaults

\* expected_simulation: the registered defaults, today's before registration;
\* a torn registration makes scoring fail, so that no cycle matches.
ExpectedBase == IF frozen = NoDefaults THEN defaults ELSE frozen

\* A complete cycle whose manifest shows the planned settings.
Valid == {i \in DOMAIN cycles : cycles[i].base = ExpectedBase}
Of(k) == {i \in Valid : cycles[i].key = k}

\* match_cycles: the newest valid cycle of each key wins ...
Matched == {k \in Keys : Of(k) # {}}
Newest(k) == Max(Of(k))
BlockOf(k) == cycles[Newest(k)].block

\* ... then, per event and variant, only the majority block stays; between
\* equals, the block met first in the order in which the keys first matched.
Group(k) == {j \in Matched : j.event = k.event /\ Variant(j) = Variant(k)}
Showing(k, b) == {j \in Group(k) : BlockOf(j) = b}
FirstMet(k, b) == Min({Min(Of(j)) : j \in Showing(k, b)})

\* Bug: no cycle is dropped.
AnyBlock(k, b) == b = BlockOf(k)

MajorityBlock(k, b) ==
  /\ Showing(k, b) # {}
  /\ \A c \in {BlockOf(j) : j \in Group(k)} \ {b} :
       LET n == Cardinality(Showing(k, b))
           m == Cardinality(Showing(k, c))
       IN n > m \/ (n = m /\ FirstMet(k, b) < FirstMet(k, c))

Scored == {k \in Matched : MajorityBlock(k, BlockOf(k))}

-----------------------------------------------------------------------------
(* Properties. *)

\* A cycle a batch reports as run or as already complete is complete in the
\* graph, however two batches, killed shells and killed runs interleave
\* (run_batch, run_eval.py:403).
ReportedIsComplete ==
  \A r \in setup.shells : batch[r] # Idle =>
    batch[r].reported \subseteq {c.key : c \in Range(cycles)}

\* What is compared on an event saw one market block: the scored runs of a
\* variant always, and the named and the anonymized runs and the baselines too
\* unless two builds of that event overlapped or one was given --force: the
\* check for a fixture and the writes are a download apart, and no lock is
\* taken (methodology 4-6; build_fixtures.py:119-131).
ScoredRunsComparable ==
  /\ \A j, k \in Scored : (j.event = k.event /\ Variant(j) = Variant(k)) => BlockOf(j) = BlockOf(k)
  /\ \A k \in Scored : k.event \notin contended =>
        /\ \A j \in Scored : j.event = k.event => BlockOf(j) = BlockOf(k)
        /\ records[<<k.event, Variant(k)>>] \in {Absent, Torn, BlockOf(k)}

\* After registration a scored run stays scored, whatever is started,
\* killed, repeated or changed later, next to whatever else, unless two
\* registrations or two builds of its event overlapped, or one was given
\* --force (expected_simulation, run_eval.py:617; match_cycles, run_eval.py:684).
ScoresSurvive ==
  [][ (frozen \in Versions /\ RegistrationFile \notin contended') =>
        {k \in Scored : k.event \notin contended'} \subseteq Scored' ]_vars

\* A tool that is stopped, killed or started again loses nothing of what was
\* finished: no complete cycle and no baseline record, next to whatever else
\* runs; no label, fixture or registered defaults unless two processes were
\* at work on that file at once, or --force was given (RUNBOOK 8: "Stopping
\* and rerunning is safe").
FinishedWorkSurvives ==
  [][ /\ \A i \in DOMAIN cycles : i \in DOMAIN cycles' /\ cycles'[i] = cycles[i]
      /\ LabelsFile \notin contended' => labels \subseteq labels'
      /\ \A u \in Units : /\ records[u] \in Blocks => records'[u] = records[u]
                          /\ (fixture[u] # Absent /\ u[1] \notin contended') => fixture'[u] = fixture[u]
      /\ (frozen \in Versions /\ RegistrationFile \notin contended') => frozen' = frozen ]_vars

\* Nothing done is undone: what a tool finished stays, and what was once scored
\* is scored again, but for the overlaps named above (RUNBOOK 8).
ResultsLast == FinishedWorkSurvives /\ ScoresSurvive
=============================================================================
