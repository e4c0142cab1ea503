--------------------------- MODULE EvalBatchProofs ---------------------------
(***************************************************************************)
(* Proofs about EvalBatch, for any events, arms, shells, tool processes    *)
(* and numbers of cycles and upsets, and about what Scoring takes from an  *)
(* event's bars: neither what the swarm is shown nor what it is scored on  *)
(* looks ahead (NothingIsKnownAhead).                                      *)
(***************************************************************************)
EXTENDS EvalBatch, MCMeasures, FiniteSetTheorems, FunctionTheorems, SequenceTheorems, WellFoundedInduction, TLAPS

-----------------------------------------------------------------------------
(* The least and the greatest of a set of numbers. *)

LEMMA LeastIsThere ==
  ASSUME NEW S \in SUBSET Nat, S # {}
  PROVE  Min(S) \in S /\ \A x \in S : Min(S) <= x
<1>1. PICK n \in S : \A m \in S : <<m, n>> \notin OpToRel(<, Nat)
  BY NatLessThanWellFounded, WFMin
<1>2. \A m \in S : n <= m
  <2> SUFFICES ASSUME NEW m \in S, m < n
               PROVE  FALSE
    OBVIOUS
  <2>1. <<m, n>> \in OpToRel(<, Nat)
    BY DEF OpToRel
  <2> QED
    BY <1>1, <2>1
<1> QED
  BY <1>2 DEF Min

LEMMA GreatestIsThere ==
  ASSUME NEW n \in Nat, NEW S \in SUBSET (1..n), S # {}
  PROVE  Max(S) \in S
<1> DEFINE Gap == {n - x : x \in S}
<1>1. Gap \subseteq Nat /\ Gap # {}
  <2>1. \A x \in S : n - x \in Nat
    OBVIOUS
  <2>2. \E x \in S : n - x \in Gap
    OBVIOUS
  <2> QED
    BY <2>1, <2>2
<1>2. PICK g \in Gap : \A h \in Gap : <<h, g>> \notin OpToRel(<, Nat)
  BY <1>1, NatLessThanWellFounded, WFMin
<1>3. PICK x \in S : g = n - x
  OBVIOUS
<1>4. \A y \in S : x >= y
  <2> SUFFICES ASSUME NEW y \in S, y > x
               PROVE  FALSE
    OBVIOUS
  <2>1. n - y \in Gap /\ n - y \in Nat /\ g \in Nat /\ n - y < g
    BY <1>1, <1>3
  <2> QED
    BY <1>2, <2>1 DEF OpToRel
<1> QED
  BY <1>4 DEF Max

\* The planned cycles are worked off in an order that always has a next one.
LEMMA NextIsThere ==
  ASSUME NEW todo \in SUBSET Keys, todo # {}
  PROVE  NextSpec(todo) \in todo
<1> DEFINE Days == {k.event : k \in todo}
           Draws(e) == {k.seed : k \in {j \in todo : j.event = e}}
<1>1. \A k \in Keys : k.event \in Nat /\ k.seed \in Nat
  BY EvalAssumption DEF Keys
<1>2. Days \in SUBSET Nat /\ Days # {}
  BY <1>1
<1>3. PICK e \in Days : \A d \in Days : e <= d
  BY <1>2, LeastIsThere
<1>4. Draws(e) \in SUBSET Nat /\ Draws(e) # {}
  BY <1>1, <1>3
<1>5. PICK s \in Draws(e) : \A d \in Draws(e) : s <= d
  BY <1>4, LeastIsThere
<1>6. PICK k \in todo : k.event = e /\ k.seed = s
  BY <1>5
<1>7. \A j \in todo : k.event < j.event \/ (k.event = j.event /\ k.seed <= j.seed)
  <2> SUFFICES ASSUME NEW j \in todo
               PROVE  k.event < j.event \/ (k.event = j.event /\ k.seed <= j.seed)
    OBVIOUS
  <2>1. e <= j.event
    BY <1>3
  <2>2. j.event = e => s <= j.seed
    BY <1>5
  <2> QED
    BY <1>1, <1>6, <2>1, <2>2
<1> QED
  BY <1>7 DEF NextSpec

-----------------------------------------------------------------------------
(* The steps, by what they write. *)

ToolStep(p) ==
  \/ \E e \in Events, force \in BOOLEAN : BuildStarts(p, e, force)
  \/ BuildFails(p) \/ (\E b \in Blocks : BuildNamed(p, b)) \/ BuildAnon(p)
  \/ LabelStarts(p) \/ (\E found \in SUBSET Events : LabelWrites(p, found))
  \/ RegisterStarts(p) \/ RegisterWrites(p) \/ ToolDies(p)

Tooling == \E p \in setup.tools : ToolStep(p)

Settling == RepairRegistration \/ DefaultsChange

Batching ==
  \/ \E r \in setup.shells :
       \/ \E arm \in DOMAIN Arms, only \in SUBSET Events, rerun \in BOOLEAN : StartBatch(r, arm, only, rerun)
       \/ LaunchChild(r) \/ ChildFails(r) \/ BatchStops(r) \/ BatchEnds(r) \/ BatchDies(r)
  \/ \E complete \in BOOLEAN, exit \in {0, 1} : ChildEnds(complete, exit)

Sampling == SampleUnit \/ TornRecord \/ RepairRecords

LEMMA KindsOfSteps ==
  ASSUME [Next]_vars
  PROVE  /\ setup' = setup /\ (upsets' = upsets \/ (upsets < setup.upsets /\ upsets' = upsets + 1))
         /\ \/ Tooling /\ defaults' = defaults /\ UNCHANGED runVars /\ records' = records
            \/ Settling /\ UNCHANGED <<fixture, tool, contended, labels>> /\ UNCHANGED runVars /\ records' = records
            \/ Batching /\ UNCHANGED fileVars /\ records' = records
            \/ Sampling /\ UNCHANGED fileVars /\ UNCHANGED runVars
            \/ UNCHANGED fileVars /\ UNCHANGED runVars /\ records' = records
<1> DEFINE Claim == \/ Tooling /\ defaults' = defaults /\ UNCHANGED runVars /\ records' = records
                    \/ Settling /\ UNCHANGED <<fixture, tool, contended, labels>> /\ UNCHANGED runVars /\ records' = records
                    \/ Batching /\ UNCHANGED fileVars /\ records' = records
                    \/ Sampling /\ UNCHANGED fileVars /\ UNCHANGED runVars
                    \/ UNCHANGED fileVars /\ UNCHANGED runVars /\ records' = records
<1>1. ASSUME NEW p \in setup.tools, ToolStep(p), UNCHANGED <<runVars, records>>
      PROVE  Claim
  <2>1. Tooling
    BY <1>1 DEF Tooling
  <2>2. defaults' = defaults
    BY <1>1 DEF ToolStep, BuildStarts, BuildFails, BuildNamed, BuildAnon, LabelStarts, LabelWrites,
                RegisterStarts, RegisterWrites, ToolDies, Begins
  <2> QED
    BY <1>1, <2>1, <2>2
<1>2. ASSUME Settling, UNCHANGED <<runVars, records>>
      PROVE  Claim
  <2>1. UNCHANGED <<fixture, tool, contended, labels>>
    BY <1>2 DEF Settling, RepairRegistration, DefaultsChange
  <2> QED
    BY <1>2, <2>1
<1>3. ASSUME Batching, UNCHANGED <<fileVars, records>>
      PROVE  Claim
  BY <1>3
<1>4. ASSUME Sampling, UNCHANGED <<fileVars, runVars>>
      PROVE  Claim
  BY <1>4
<1>5. ASSUME UNCHANGED vars
      PROVE  Claim /\ setup' = setup /\ upsets' = upsets
  BY <1>5 DEF vars, fileVars, runVars
<1>6. Ordinary => Claim
  <2> HIDE DEF Claim
  <2> QED
    BY <1>1, <1>2, <1>3, <1>4 DEF Ordinary, ToolStep, Settling, Batching, Sampling
<1>7. Upset => Claim
  <2> HIDE DEF Claim
  <2> QED
    BY <1>1, <1>2, <1>3, <1>4 DEF Upset, ToolStep, Settling, Batching, Sampling
<1> HIDE DEF Claim
<1>8. Claim /\ setup' = setup /\ (upsets' = upsets \/ (upsets < setup.upsets /\ upsets' = upsets + 1))
  BY <1>5, <1>6, <1>7 DEF Next
<1> QED
  BY <1>8 DEF Claim

-----------------------------------------------------------------------------
(* Types. *)

Jobs == [todo : SUBSET Keys, reported : SUBSET Keys, waits : BOOLEAN]

EvalType ==
  /\ TypeOK
  /\ batch \in [setup.shells -> {Idle} \cup Jobs]

LEMMA KeysAreUnits ==
  ASSUME NEW k \in Keys
  PROVE  /\ k.arm \in DOMAIN Arms /\ k.event \in Events /\ Variant(k) \in Variants
         /\ <<k.event, Variant(k)>> \in Units
BY EvalAssumption DEF Keys, Variant, Variants, Units

LEMMA EvalTypeInit ==
  ASSUME Init
  PROVE  EvalType
<1>1. defaults \in Versions /\ cycles \in Seq(Cycle)
  <2>1. Versions \in SUBSET Nat /\ Versions # {}
    BY EvalAssumption
  <2>2. Min(Versions) \in Versions
    BY <2>1, LeastIsThere
  <2> QED
    BY <2>2 DEF Init
<1>2. fixture \in [Units -> Blocks \cup {Absent, Torn}] /\ records \in [Units -> Blocks \cup {Absent, Torn}]
  BY DEF Init
<1>3. batch \in [setup.shells -> {Idle} \cup Jobs]
  BY DEF Init
<1>4. setup \in Setups /\ upsets \in 0..setup.upsets
  <2>1. setup \in Setups /\ upsets = 0
    BY DEF Init
  <2> QED
    BY <2>1, EvalAssumption
<1> QED
  BY <1>1, <1>2, <1>3, <1>4 DEF Init, EvalType, TypeOK

Works == {Idle} \cup Builds \cup Labellings \cup Registrations

\* A step of a tool is its own process's; what it writes is of its file's kind.
LEMMA ToolTypes ==
  ASSUME EvalType, NEW p \in setup.tools, ToolStep(p)
  PROVE  /\ tool' \in [setup.tools -> Works] /\ \A q \in setup.tools \ {p} : tool'[q] = tool[q]
         /\ contended' \subseteq Files /\ contended \subseteq contended'
         /\ fixture' \in [Units -> Blocks \cup {Absent, Torn}]
         /\ labels' \subseteq Events /\ frozen' \in Versions \cup {NoDefaults, Torn}
<1> DEFINE Claim == /\ tool' \in [setup.tools -> Works] /\ \A q \in setup.tools \ {p} : tool'[q] = tool[q]
                    /\ contended' \subseteq Files /\ contended \subseteq contended'
                    /\ fixture' \in [Units -> Blocks \cup {Absent, Torn}]
                    /\ labels' \subseteq Events /\ frozen' \in Versions \cup {NoDefaults, Torn}
<1> SUFFICES Claim
  OBVIOUS
<1>0. /\ tool \in [setup.tools -> Works] /\ contended \subseteq Files
      /\ fixture \in [Units -> Blocks \cup {Absent, Torn}]
      /\ labels \subseteq Events /\ frozen \in Versions \cup {NoDefaults, Torn} /\ defaults \in Versions
  BY DEF EvalType, TypeOK, Works
<1>1. \A e \in Events : <<e, "named">> \in Units /\ <<e, "anon">> \in Units
  BY DEF Units, Variants
<1>2. /\ Runs(p, "build") => tool[p] \in Builds
      /\ Runs(p, "label") => tool[p] \in Labellings
      /\ Runs(p, "register") => tool[p] \in Registrations
  BY <1>0 DEF Runs, Works, Builds, Labellings, Registrations
<1>3. ASSUME NEW work \in Works, NEW file \in Files, NEW contends, Begins(p, work, file, contends)
      PROVE  Claim
  BY <1>0, <1>3 DEF Begins
<1>4. ASSUME NEW e \in Events, NEW force \in BOOLEAN, BuildStarts(p, e, force)
      PROVE  Claim
  <2>1. [tool |-> "build", event |-> e, named |-> Absent] \in Works /\ e \in Files
    BY DEF Works, Builds, Files
  <2> HIDE DEF Claim
  <2> QED
    BY <1>3, <1>4, <2>1 DEF BuildStarts
<1>5. CASE LabelStarts(p)
  <2>1. [tool |-> "label", seen |-> labels] \in Works /\ LabelsFile \in Files
    BY <1>0 DEF Works, Labellings, Files
  <2> HIDE DEF Claim
  <2> QED
    BY <1>3, <1>5, <2>1 DEF LabelStarts
<1>6. CASE RegisterStarts(p)
  <2>1. [tool |-> "register", base |-> defaults] \in Works /\ RegistrationFile \in Files
    BY <1>0 DEF Works, Registrations, Files
  <2> HIDE DEF Claim
  <2> QED
    BY <1>3, <1>6, <2>1 DEF RegisterStarts
<1>7. ASSUME Ends(p)
      PROVE  /\ tool' \in [setup.tools -> Works] /\ \A q \in setup.tools \ {p} : tool'[q] = tool[q]
             /\ contended' \subseteq Files /\ contended \subseteq contended'
  BY <1>0, <1>7 DEF Ends, Works
<1>8. CASE BuildFails(p)
  BY <1>0, <1>7, <1>8 DEF BuildFails
<1>9. ASSUME NEW b \in Blocks, BuildNamed(p, b)
      PROVE  Claim
  <2> DEFINE next == [tool |-> "build", event |-> tool[p].event, named |-> b]
  <2>1. tool[p] \in Builds /\ tool[p].event \in Events
    BY <1>2, <1>9 DEF BuildNamed, Builds
  <2>2. next \in Works
    BY <2>1 DEF Works, Builds
  <2>3. tool' = [tool EXCEPT ![p] = next] /\ fixture' = [fixture EXCEPT ![<<tool[p].event, "named">>] = b]
        /\ UNCHANGED <<contended, labels, frozen>>
    BY <1>9 DEF BuildNamed
  <2> HIDE DEF next
  <2> QED
    BY <1>0, <1>1, <2>1, <2>2, <2>3
<1>10. CASE BuildAnon(p)
  <2>1. tool[p] \in Builds /\ tool[p].event \in Events /\ tool[p].named \in Blocks
    BY <1>2, <1>10 DEF BuildAnon, Builds
  <2>2. Ends(p) /\ fixture' = [fixture EXCEPT ![<<tool[p].event, "anon">>] = tool[p].named]
        /\ UNCHANGED <<labels, frozen>>
    BY <1>10 DEF BuildAnon
  <2> QED
    BY <1>0, <1>1, <1>7, <2>1, <2>2
<1>11. ASSUME NEW found \in SUBSET Events, LabelWrites(p, found)
       PROVE  Claim
  <2>1. tool[p].seen \subseteq Events
    BY <1>2, <1>11 DEF LabelWrites, Labellings
  <2> QED
    BY <1>0, <1>7, <1>11, <2>1 DEF LabelWrites
<1>12. CASE RegisterWrites(p)
  <2>1. tool[p].base \in Versions
    BY <1>2, <1>12 DEF RegisterWrites, Registrations
  <2> QED
    BY <1>0, <1>7, <1>12, <2>1 DEF RegisterWrites
<1>13. CASE ToolDies(p)
  <2>1. Ends(p) /\ labels' = labels
    BY <1>13 DEF ToolDies
  <2>2. fixture' \in [Units -> Blocks \cup {Absent, Torn}] /\ frozen' \in Versions \cup {NoDefaults, Torn}
    <3>1. CASE UNCHANGED <<fixture, frozen>>
      BY <1>0, <3>1
    <3>2. ASSUME Runs(p, "build"), UNCHANGED frozen,
                 NEW half \in Variants, fixture' = [fixture EXCEPT ![<<tool[p].event, half>>] = Torn]
          PROVE  fixture' \in [Units -> Blocks \cup {Absent, Torn}]
      <4>1. tool[p].event \in Events
        BY <1>2, <3>2 DEF Builds
      <4> QED
        BY <1>0, <3>2, <4>1 DEF Units
    <3>3. CASE frozen' = Torn /\ UNCHANGED fixture
      BY <1>0, <3>3
    <3> QED
      BY <1>0, <1>13, <3>1, <3>2, <3>3 DEF ToolDies, Variants
  <2> QED
    BY <1>7, <2>1, <2>2, <1>0
<1> HIDE DEF Claim
<1> QED
  BY <1>4, <1>5, <1>6, <1>8, <1>9, <1>10, <1>11, <1>12, <1>13 DEF ToolStep

LEMMA SpecDoneTypes ==
  ASSUME EvalType, NEW r \in setup.shells, batch[r] # Idle, NEW seen \in SUBSET Keys
  PROVE  /\ SpecDone(r, seen) \in [setup.shells -> {Idle} \cup Jobs]
         /\ SpecDone(r, seen)[r].reported = batch[r].reported \cup seen
         /\ \A s \in setup.shells \ {r} : SpecDone(r, seen)[s] = batch[s]
<1>1. batch[r] \in Jobs
  BY DEF EvalType
<1> DEFINE after == [todo |-> batch[r].todo \ {NextSpec(batch[r].todo)},
                    reported |-> batch[r].reported \cup seen, waits |-> FALSE]
<1>2. after \in Jobs
  BY <1>1 DEF Jobs
<1>3. SpecDone(r, seen) = [batch EXCEPT ![r] = after]
  BY DEF SpecDone
<1> HIDE DEF after
<1>4. after.reported = batch[r].reported \cup seen
  BY DEF after
<1> QED
  BY <1>2, <1>3, <1>4 DEF EvalType

\* What run_batch keeps: its list, its report, and the child it waits for.
LEMMA BatchingTypes ==
  ASSUME EvalType, Batching, setup' = setup, UNCHANGED <<fileVars, records>>
  PROVE  /\ batch' \in [setup.shells -> {Idle} \cup Jobs]
         /\ cycles' \in Seq(Cycle) /\ child' \in {Idle} \cup Cycle
<1> DEFINE Claim == /\ batch' \in [setup.shells -> {Idle} \cup Jobs]
                    /\ cycles' \in Seq(Cycle) /\ child' \in {Idle} \cup Cycle
<1>0. /\ batch \in [setup.shells -> {Idle} \cup Jobs]
      /\ cycles \in Seq(Cycle) /\ child \in {Idle} \cup Cycle
  BY DEF EvalType, TypeOK
<1>1. ASSUME NEW r \in setup.shells, NEW arm \in DOMAIN Arms, NEW only \in SUBSET Events, NEW rerun \in BOOLEAN,
             StartBatch(r, arm, only, rerun)
      PROVE  Claim
  <2> DEFINE specs == Planned(arm, IF only = {} THEN Events ELSE only)
             done == IF rerun THEN {} ELSE CompletedKeys(cycles, arm)
             job == [todo |-> specs \ done, reported |-> specs \cap done, waits |-> FALSE]
  <2>1. specs \subseteq Keys
    BY DEF Planned
  <2>2. job \in Jobs
    BY <2>1 DEF Jobs
  <2>3. batch' = [batch EXCEPT ![r] = job] /\ UNCHANGED <<cycles, child>>
    BY <1>1 DEF StartBatch
  <2> HIDE DEF job
  <2> QED
    BY <1>0, <2>2, <2>3
<1>2. ASSUME NEW r \in setup.shells, LaunchChild(r)
      PROVE  Claim
  <2> DEFINE k == NextSpec(batch[r].todo)
             unit == <<k.event, Variant(k)>>
             run == [key |-> k, base |-> defaults, block |-> fixture[unit]]
             job == [batch[r] EXCEPT !.waits = TRUE]
  <2>1. batch[r] \in Jobs /\ batch[r].todo # {}
    BY <1>0, <1>2 DEF LaunchChild, Ready
  <2>2. k \in Keys
    BY <2>1, NextIsThere DEF Jobs
  <2>3. run \in Cycle
    BY <1>2, <2>2 DEF LaunchChild, Cycle, EvalType, TypeOK
  <2>4. job \in Jobs
    BY <2>1 DEF Jobs
  <2>5. child' = run /\ batch' = [batch EXCEPT ![r] = job] /\ UNCHANGED cycles
    BY <1>2 DEF LaunchChild
  <2> HIDE DEF run, job
  <2> QED
    BY <1>0, <2>3, <2>4, <2>5
<1>3. ASSUME NEW r \in setup.shells, ChildFails(r)
      PROVE  Claim
  <2>1. batch[r] # Idle
    BY <1>3 DEF ChildFails, Ready
  <2> QED
    BY <1>0, <1>3, <2>1, SpecDoneTypes DEF ChildFails
<1>4. ASSUME NEW r \in setup.shells, BatchStops(r) \/ BatchEnds(r) \/ BatchDies(r)
      PROVE  Claim
  BY <1>0, <1>4 DEF BatchStops, BatchEnds, BatchDies
<1>5. ASSUME NEW complete \in BOOLEAN, NEW exit \in {0, 1}, ChildEnds(complete, exit)
      PROVE  Claim
  <2>1. child \in Cycle /\ child' = Idle /\ child.key \in Keys
    BY <1>0, <1>5 DEF ChildEnds, Cycle
  <2>2. cycles' \in Seq(Cycle)
    BY <1>0, <1>5, <2>1 DEF ChildEnds
  <2>3. CASE UNCHANGED batch
    BY <1>0, <2>1, <2>2, <2>3
  <2>4. ASSUME NEW r \in Waiting,
               batch' = SpecDone(r, IF exit = 0 THEN {child.key} \cap CompletedKeys(cycles', child.key.arm) ELSE {})
        PROVE  Claim
    <3> DEFINE seen == IF exit = 0 THEN {child.key} \cap CompletedKeys(cycles', child.key.arm) ELSE {}
    <3>1. r \in setup.shells /\ batch[r] # Idle /\ seen \in SUBSET Keys
      BY <2>1 DEF Waiting
    <3>2. batch' = SpecDone(r, seen)
      BY <2>4
    <3> HIDE DEF seen
    <3> QED
      BY <2>1, <2>2, <3>1, <3>2, SpecDoneTypes
  <2> QED
    BY <1>5, <2>3, <2>4 DEF ChildEnds
<1> HIDE DEF Claim
<1> QED
  <2>1. Claim
    BY <1>1, <1>2, <1>3, <1>4, <1>5 DEF Batching
  <2> QED
    BY <2>1 DEF Claim

LEMMA SamplingTypes ==
  ASSUME EvalType, Sampling
  PROVE  /\ records' \in [Units -> Blocks \cup {Absent, Torn}]
         /\ \A u \in Units : /\ records'[u] = records[u] \/ records[u] \in {Absent, Torn}
                             /\ \/ records'[u] \in {records[u], Absent, Torn}
                                \/ records'[u] = fixture[u] /\ fixture[u] \in Blocks
<1>0. records \in [Units -> Blocks \cup {Absent, Torn}]
  BY DEF EvalType, TypeOK
<1>1. CASE SampleUnit
  <2>1. PICK u \in Units : /\ records[u] = Absent /\ fixture[u] \in Blocks
                           /\ records' = [records EXCEPT ![u] = fixture[u]]
    BY <1>1 DEF SampleUnit, Sampled
  <2> QED
    BY <1>0, <2>1
<1>2. CASE TornRecord
  <2>1. PICK u \in Units : /\ records[u] = Absent
                           /\ records' = [records EXCEPT ![u] = Torn]
    BY <1>2 DEF TornRecord, Sampled
  <2> QED
    BY <1>0, <2>1
<1>3. CASE RepairRecords
  BY <1>0, <1>3 DEF RepairRecords
<1> QED
  BY <1>1, <1>2, <1>3 DEF Sampling

LEMMA EvalTypeStep ==
  ASSUME EvalType, [Next]_vars
  PROVE  EvalType'
<1>1. setup' = setup /\ setup' \in Setups /\ upsets' \in 0..setup'.upsets
  <2>1. setup' = setup /\ setup \in Setups /\ setup.upsets \in Nat /\ upsets \in 0..setup.upsets
    BY KindsOfSteps, EvalAssumption DEF EvalType, TypeOK
  <2> QED
    BY <2>1, KindsOfSteps
<1>2. CASE Tooling /\ defaults' = defaults /\ UNCHANGED runVars /\ records' = records
  <2>1. PICK p \in setup.tools : ToolStep(p)
    BY <1>2 DEF Tooling
  <2> QED
    BY <1>1, <1>2, <2>1, ToolTypes DEF EvalType, TypeOK, runVars, Works
<1>3. CASE Settling /\ UNCHANGED <<fixture, tool, contended, labels>> /\ UNCHANGED runVars /\ records' = records
  <2>1. frozen' \in Versions \cup {NoDefaults, Torn} /\ defaults' \in Versions
    BY <1>3 DEF Settling, RepairRegistration, DefaultsChange, EvalType, TypeOK
  <2> QED
    BY <1>1, <1>3, <2>1 DEF EvalType, TypeOK, runVars
<1>4. CASE Batching /\ UNCHANGED fileVars /\ records' = records
  <2>1. UNCHANGED <<fileVars, records>>
    BY <1>4
  <2> QED
    BY <1>1, <1>4, <2>1, BatchingTypes DEF EvalType, TypeOK, fileVars
<1>5. CASE Sampling /\ UNCHANGED fileVars /\ UNCHANGED runVars
  BY <1>1, <1>5, SamplingTypes DEF EvalType, TypeOK, fileVars, runVars
<1>6. CASE UNCHANGED fileVars /\ UNCHANGED runVars /\ records' = records
  BY <1>1, <1>6 DEF EvalType, TypeOK, fileVars, runVars
<1> QED
  BY <1>2, <1>3, <1>4, <1>5, <1>6, KindsOfSteps

-----------------------------------------------------------------------------
(* Cycles are only added. *)

LEMMA CyclesAreAdded ==
  ASSUME EvalType, [Next]_vars
  PROVE  /\ cycles' = cycles
            \/ (child # Idle /\ child \in Cycle /\ cycles' = Append(cycles, child) /\ Batching /\ child' = Idle)
         /\ \A i \in DOMAIN cycles : i \in DOMAIN cycles' /\ cycles'[i] = cycles[i]
         /\ Range(cycles) \subseteq Range(cycles')
<1>0. cycles \in Seq(Cycle) /\ child \in {Idle} \cup Cycle
  BY DEF EvalType, TypeOK
<1>1. cycles' = cycles
      \/ (child # Idle /\ child \in Cycle /\ cycles' = Append(cycles, child) /\ Batching /\ child' = Idle)
  <2>1. ASSUME Batching
        PROVE  cycles' = cycles
               \/ (child # Idle /\ child \in Cycle /\ cycles' = Append(cycles, child) /\ child' = Idle)
    BY <1>0, <2>1 DEF Batching, StartBatch, LaunchChild, ChildFails, BatchStops, BatchEnds, BatchDies, ChildEnds
  <2>2. ~Batching => cycles' = cycles
    BY KindsOfSteps DEF runVars
  <2> QED
    BY <2>1, <2>2
<1>2. CASE cycles' = cycles
  BY <1>1, <1>2
<1>3. CASE child \in Cycle /\ cycles' = Append(cycles, child)
  <2>1. /\ DOMAIN cycles = 1..Len(cycles) /\ DOMAIN cycles' = 1..(Len(cycles) + 1) /\ Len(cycles) \in Nat
        /\ \A i \in 1..Len(cycles) : cycles'[i] = cycles[i]
    BY <1>0, <1>3
  <2>2. \A i \in DOMAIN cycles : i \in DOMAIN cycles' /\ cycles'[i] = cycles[i]
    BY <2>1
  <2> QED
    BY <1>1, <2>2 DEF Range
<1> QED
  BY <1>1, <1>2, <1>3

-----------------------------------------------------------------------------
(* What a batch reports is complete. *)

LEMMA ReportInit ==
  ASSUME Init
  PROVE  ReportedIsComplete
BY DEF Init, ReportedIsComplete

LEMMA ReportStep ==
  ASSUME EvalType, ReportedIsComplete, [Next]_vars
  PROVE  ReportedIsComplete'
<1> DEFINE Done(stored) == {c.key : c \in Range(stored)}
<1>0. /\ setup' = setup /\ Done(cycles) \subseteq Done(cycles')
      /\ batch \in [setup.shells -> {Idle} \cup Jobs]
  BY KindsOfSteps, CyclesAreAdded DEF EvalType
<1>1. \A arm : CompletedKeys(cycles, arm) \subseteq Done(cycles)
  BY DEF CompletedKeys
<1>2. \A arm : CompletedKeys(cycles', arm) \subseteq Done(cycles')
  BY DEF CompletedKeys
<1>3. \A s \in setup.shells : batch[s] # Idle => batch[s].reported \subseteq Done(cycles')
  BY <1>0 DEF ReportedIsComplete
<1> DEFINE Claim == \A s \in setup.shells : batch'[s] # Idle => batch'[s].reported \subseteq Done(cycles')
<1> SUFFICES Claim
  BY <1>0 DEF ReportedIsComplete
<1> HIDE DEF Done
<1>4. CASE batch' = batch
  BY <1>3, <1>4
<1>5. ASSUME NEW r \in setup.shells, NEW arm \in DOMAIN Arms, NEW only \in SUBSET Events, NEW rerun \in BOOLEAN,
             StartBatch(r, arm, only, rerun)
      PROVE  Claim
  <2> DEFINE specs == Planned(arm, IF only = {} THEN Events ELSE only)
             done == IF rerun THEN {} ELSE CompletedKeys(cycles, arm)
             job == [todo |-> specs \ done, reported |-> specs \cap done, waits |-> FALSE]
  <2>1. job.reported \subseteq Done(cycles')
    BY <1>0, <1>1
  <2>2. batch' = [batch EXCEPT ![r] = job]
    BY <1>5 DEF StartBatch
  <2> HIDE DEF job
  <2> QED
    BY <1>0, <1>3, <2>1, <2>2
<1>6. ASSUME NEW r \in setup.shells, LaunchChild(r)
      PROVE  Claim
  <2> DEFINE job == [batch[r] EXCEPT !.waits = TRUE]
  <2>1. batch[r] # Idle /\ batch[r] \in Jobs
    BY <1>0, <1>6 DEF LaunchChild, Ready
  <2>2. job.reported = batch[r].reported
    BY <2>1 DEF Jobs
  <2>3. batch' = [batch EXCEPT ![r] = job]
    BY <1>6 DEF LaunchChild
  <2> HIDE DEF job
  <2> QED
    BY <1>0, <1>3, <2>1, <2>2, <2>3
<1>7. ASSUME NEW r \in setup.shells, ChildFails(r)
      PROVE  Claim
  <2>1. batch[r] # Idle /\ batch' = SpecDone(r, {})
    BY <1>7 DEF ChildFails, Ready
  <2>2. /\ SpecDone(r, {})[r].reported = batch[r].reported \cup {}
        /\ \A s \in setup.shells \ {r} : SpecDone(r, {})[s] = batch[s]
    BY <2>1, SpecDoneTypes
  <2>3. /\ batch'[r].reported \subseteq Done(cycles')
        /\ \A s \in setup.shells \ {r} : batch'[s] = batch[s]
    BY <1>3, <2>1, <2>2
  <2> QED
    BY <1>3, <2>3
<1>8. ASSUME NEW r \in setup.shells, BatchStops(r) \/ BatchEnds(r) \/ BatchDies(r)
      PROVE  Claim
  BY <1>0, <1>3, <1>8 DEF BatchStops, BatchEnds, BatchDies
<1>9. ASSUME NEW complete \in BOOLEAN, NEW exit \in {0, 1}, ChildEnds(complete, exit)
      PROVE  Claim
  <2>1. CASE UNCHANGED batch
    BY <1>4, <2>1
  <2>2. ASSUME NEW r \in Waiting,
               batch' = SpecDone(r, IF exit = 0 THEN {child.key} \cap CompletedKeys(cycles', child.key.arm) ELSE {})
        PROVE  Claim
    <3> DEFINE seen == IF exit = 0 THEN {child.key} \cap CompletedKeys(cycles', child.key.arm) ELSE {}
    <3>1. r \in setup.shells /\ batch[r] # Idle /\ seen \in SUBSET Keys /\ seen \subseteq Done(cycles')
      <4>1. child.key \in Keys
        BY <1>9 DEF ChildEnds, EvalType, TypeOK, Cycle
      <4> QED
        BY <1>2, <4>1 DEF Waiting
    <3>2. batch' = SpecDone(r, seen)
      BY <2>2
    <3> HIDE DEF seen
    <3>3. /\ batch'[r].reported = batch[r].reported \cup seen
          /\ \A s \in setup.shells \ {r} : batch'[s] = batch[s]
      BY <3>1, <3>2, SpecDoneTypes
    <3> QED
      BY <1>3, <3>1, <3>3
  <2> QED
    BY <1>9, <2>1, <2>2 DEF ChildEnds
<1> HIDE DEF Claim
<1> QED
  <2>1. ~Batching => batch' = batch
    BY KindsOfSteps DEF runVars
  <2> QED
    BY <1>4, <1>5, <1>6, <1>7, <1>8, <1>9, <2>1 DEF Batching

-----------------------------------------------------------------------------
(* What one process works on at a time is written once. *)

BuildsIt(work, e) == work # Idle /\ work.tool = "build" /\ work.event = e

\* As long as the builds of an event did not overlap: there is at most one, and
\* while it is between its writes both fixtures are as it left them; the second
\* fixture is there only beside a readable first one, with its block.
FixtureOf(e) ==
  /\ fixture[<<e, "anon">>] # Absent => fixture[<<e, "named">>] \in Blocks
  /\ fixture[<<e, "anon">>] \in Blocks => fixture[<<e, "anon">>] = fixture[<<e, "named">>]
  /\ \A p \in Building(e) : /\ \A q \in Building(e) : q = p
                            /\ fixture[<<e, "named">>] = tool[p].named
                            /\ fixture[<<e, "anon">>] = Absent

FixtureInv == \A e \in Events : e \notin contended => FixtureOf(e)

LEMMA UnitsAreNamedOrAnonymous ==
  /\ \A e \in Events : <<e, "named">> \in Units /\ <<e, "anon">> \in Units
  /\ \A u \in Units : u[1] \in Events /\ (u = <<u[1], "named">> \/ u = <<u[1], "anon">>)
BY DEF Units, Variants

LEMMA NobodyAtFirst ==
  ASSUME Init
  PROVE  /\ \A e : Building(e) = {}
         /\ Labelling = {} /\ Registering = {}
BY DEF Init, Building, Labelling, Registering, Runs

LEMMA FixtureInit ==
  ASSUME Init
  PROVE  FixtureInv
<1>1. \A e \in Events : fixture[<<e, "anon">>] = Absent /\ Building(e) = {}
  BY NobodyAtFirst, UnitsAreNamedOrAnonymous DEF Init
<1>2. Absent \notin Blocks
  BY EvalAssumption
<1> QED
  BY <1>1, <1>2 DEF FixtureInv, FixtureOf

\* What a step of a tool is for one event: nothing, the start or the end of a
\* build, the first write, or the second one, done or torn.
Effect(p, e) ==
  LET N == fixture[<<e, "named">>]
      A == fixture[<<e, "anon">>]
      now == BuildsIt(tool[p], e)
      next == BuildsIt(tool'[p], e)
  IN \/ ~now /\ ~next /\ N' = N /\ A' = A
     \/ /\ ~now /\ next /\ N' = N /\ A' = A /\ tool'[p].named = Absent
        /\ e \in contended' \/ (Building(e) = {} /\ N = Absent)
     \/ now /\ ~next /\ N' = N /\ A' = A
     \/ now /\ next /\ tool[p].named = Absent /\ N' \in Blocks /\ N' = tool'[p].named /\ A' = A
     \/ now /\ ~next /\ tool[p].named = Absent /\ N' = Torn /\ A' = A
     \/ now /\ ~next /\ tool[p].named \in Blocks /\ N' = N /\ A' \in {tool[p].named, Torn}

LEMMA EffectOfTool ==
  ASSUME EvalType, NEW p \in setup.tools, ToolStep(p), NEW e \in Events
  PROVE  Effect(p, e)
<1> DEFINE N == fixture[<<e, "named">>]
           A == fixture[<<e, "anon">>]
<1>0. /\ tool \in [setup.tools -> Works] /\ fixture \in [Units -> Blocks \cup {Absent, Torn}]
      /\ \A d \in Events : <<d, "named">> \in Units /\ <<d, "anon">> \in Units
  BY UnitsAreNamedOrAnonymous DEF EvalType, TypeOK, Works
<1>1. \A d \in Events : /\ <<d, "anon">> # <<e, "named">> /\ <<d, "named">> # <<e, "anon">>
                        /\ <<d, "named">> = <<e, "named">> <=> d = e
                        /\ <<d, "anon">> = <<e, "anon">> <=> d = e
  OBVIOUS
<1>2. Runs(p, "build") => /\ tool[p] \in Builds /\ tool[p].event \in Events /\ tool[p].named \in Blocks \cup {Absent}
                          /\ BuildsIt(tool[p], e) <=> tool[p].event = e
  BY <1>0 DEF Runs, Works, Builds, Labellings, Registrations, BuildsIt
<1>3. ~Runs(p, "build") => ~BuildsIt(tool[p], e)
  BY DEF Runs, BuildsIt
<1>4. ~BuildsIt(Idle, e)
  BY DEF BuildsIt
<1>5. ASSUME Ends(p)
      PROVE  tool'[p] = Idle
  BY <1>0, <1>5 DEF Ends
<1>6. ASSUME NEW d \in Events, NEW force \in BOOLEAN, BuildStarts(p, d, force)
      PROVE  Effect(p, e)
  <2> DEFINE work == [tool |-> "build", event |-> d, named |-> Absent]
  <2>1. /\ tool[p] = Idle /\ tool'[p] = work /\ fixture' = fixture
        /\ (force \/ Building(d) # {}) => d \in contended'
        /\ fixture[<<d, "named">>] = Absent \/ force
    BY <1>0, <1>6 DEF BuildStarts, Begins
  <2>2. work.named = Absent /\ (BuildsIt(work, e) <=> d = e)
    BY IdleAssumption DEF BuildsIt, Builds
  <2> HIDE DEF work
  <2> QED
    BY <1>4, <2>1, <2>2 DEF Effect
<1>7. CASE BuildFails(p)
  BY <1>2, <1>4, <1>5, <1>7 DEF BuildFails, Effect
<1>8. ASSUME NEW b \in Blocks, BuildNamed(p, b)
      PROVE  Effect(p, e)
  <2> DEFINE next == [tool |-> "build", event |-> tool[p].event, named |-> b]
  <2>1. /\ Runs(p, "build") /\ tool[p].named = Absent /\ tool'[p] = next
        /\ fixture' = [fixture EXCEPT ![<<tool[p].event, "named">>] = b]
    BY <1>0, <1>8 DEF BuildNamed
  <2>2. next.named = b /\ (BuildsIt(next, e) <=> tool[p].event = e)
    BY <1>2, <2>1, IdleAssumption DEF BuildsIt, Builds
  <2>4. A' = A /\ (IF tool[p].event = e THEN N' = b ELSE N' = N)
    BY <1>0, <1>1, <1>2, <2>1
  <2> HIDE DEF next
  <2> QED
    BY <1>2, <2>1, <2>2, <2>4 DEF Effect
<1>9. CASE BuildAnon(p)
  <2>1. /\ Runs(p, "build") /\ tool[p].named \in Blocks /\ tool'[p] = Idle
        /\ fixture' = [fixture EXCEPT ![<<tool[p].event, "anon">>] = tool[p].named]
    BY <1>2, <1>5, <1>9 DEF BuildAnon
  <2>2. N' = N /\ (IF tool[p].event = e THEN A' = tool[p].named ELSE A' = A)
    BY <1>0, <1>1, <1>2, <2>1
  <2> QED
    BY <1>2, <1>4, <2>1, <2>2 DEF Effect
<1>10. ASSUME LabelStarts(p) \/ RegisterStarts(p)
       PROVE  Effect(p, e)
  <2>1. tool[p] = Idle /\ fixture' = fixture /\ tool'[p] # Idle => tool'[p].tool # "build"
    BY <1>0, <1>10 DEF LabelStarts, RegisterStarts, Begins
  <2>2. tool[p] = Idle /\ fixture' = fixture
    BY <1>10 DEF LabelStarts, RegisterStarts, Begins
  <2> QED
    BY <2>1, <2>2 DEF Effect, BuildsIt
<1>11. ASSUME NEW found \in SUBSET Events, LabelWrites(p, found)
       PROVE  Effect(p, e)
  BY <1>4, <1>5, <1>11 DEF LabelWrites, Effect
<1>12. CASE RegisterWrites(p)
  BY <1>4, <1>5, <1>12 DEF RegisterWrites, Effect
<1>13. CASE ToolDies(p)
  <2>1. tool'[p] = Idle
    BY <1>5, <1>13 DEF ToolDies
  <2>2. CASE UNCHANGED fixture
    BY <1>4, <2>1, <2>2 DEF Effect
  <2>3. CASE /\ Runs(p, "build") /\ tool[p].named = Absent
             /\ fixture' = [fixture EXCEPT ![<<tool[p].event, "named">>] = Torn]
    <3>1. A' = A /\ (IF tool[p].event = e THEN N' = Torn ELSE N' = N)
      BY <1>0, <1>1, <1>2, <2>3
    <3> QED
      BY <1>2, <1>4, <2>1, <2>3, <3>1 DEF Effect
  <2>4. CASE /\ Runs(p, "build") /\ tool[p].named # Absent
             /\ fixture' = [fixture EXCEPT ![<<tool[p].event, "anon">>] = Torn]
    <3>1. N' = N /\ (IF tool[p].event = e THEN A' = Torn ELSE A' = A)
      BY <1>0, <1>1, <1>2, <2>4
    <3> QED
      BY <1>2, <1>4, <2>1, <2>4, <3>1 DEF Effect
  <2> QED
    BY <1>13, <2>2, <2>3, <2>4 DEF ToolDies
<1> QED
  BY <1>6, <1>7, <1>8, <1>9, <1>10, <1>11, <1>12, <1>13 DEF ToolStep

LEMMA FixtureStep ==
  ASSUME EvalType, FixtureInv, [Next]_vars
  PROVE  /\ FixtureInv'
         /\ contended \subseteq contended'
         /\ \A u \in Units : (fixture[u] # Absent /\ u[1] \notin contended') => fixture'[u] = fixture[u]
<1> DEFINE Kept(e) == /\ fixture[<<e, "named">>] # Absent => fixture'[<<e, "named">>] = fixture[<<e, "named">>]
                      /\ fixture[<<e, "anon">>] # Absent => fixture'[<<e, "anon">>] = fixture[<<e, "anon">>]
<1>0. setup' = setup
  BY KindsOfSteps
<1>1. contended \subseteq contended'
  <2>1. ASSUME NEW p \in setup.tools, ToolStep(p)
        PROVE  contended \subseteq contended'
    BY <2>1, ToolTypes
  <2> QED
    BY <2>1, KindsOfSteps DEF fileVars, Tooling
<1>2. ASSUME NEW e \in Events, e \notin contended'
      PROVE  FixtureOf(e)' /\ Kept(e)
  <2>1. FixtureOf(e)
    BY <1>1, <1>2 DEF FixtureInv
  <2>2. CASE UNCHANGED <<fixture, tool>>
    BY <1>0, <2>1, <2>2 DEF FixtureOf, Building, Runs
  <2>3. ASSUME NEW p \in setup.tools, ToolStep(p)
        PROVE  FixtureOf(e)' /\ Kept(e)
    <3>1. Effect(p, e) /\ \A q \in setup.tools \ {p} : tool'[q] = tool[q]
      BY <2>3, EffectOfTool, ToolTypes
    <3>2. /\ \A q \in setup.tools : q \in Building(e) <=> BuildsIt(tool[q], e)
          /\ \A q \in setup.tools : q \in Building(e)' <=> BuildsIt(tool'[q], e)
          /\ Building(e) \subseteq setup.tools /\ Building(e)' \subseteq setup.tools
      BY <1>0 DEF Building, Runs, BuildsIt
    <3>3. \A q \in setup.tools \ {p} : q \in Building(e)' <=> q \in Building(e)
      BY <3>1, <3>2
    <3>4. Absent \notin Blocks /\ Torn \notin Blocks /\ Absent # Torn
      BY EvalAssumption
    <3> DEFINE N == fixture[<<e, "named">>]
               A == fixture[<<e, "anon">>]
               now == p \in Building(e)
               next == p \in Building(e)'
    <3>5. \/ ~now /\ ~next /\ N' = N /\ A' = A
          \/ ~now /\ next /\ N' = N /\ A' = A /\ tool'[p].named = Absent /\ Building(e) = {} /\ N = Absent
          \/ now /\ ~next /\ N' = N /\ A' = A
          \/ now /\ next /\ tool[p].named = Absent /\ N' \in Blocks /\ N' = tool'[p].named /\ A' = A
          \/ now /\ ~next /\ tool[p].named = Absent /\ N' = Torn /\ A' = A
          \/ now /\ ~next /\ tool[p].named \in Blocks /\ N' = N /\ A' \in {tool[p].named, Torn}
      BY <1>2, <3>1, <3>2 DEF Effect
    <3>6. now => Building(e) = {p} /\ N = tool[p].named /\ A = Absent
      BY <2>1, <3>2 DEF FixtureOf
    <3>7. Kept(e)
      BY <3>4, <3>5, <3>6
    <3>8. A' # Absent => N' \in Blocks
      BY <2>1, <3>4, <3>5, <3>6 DEF FixtureOf
    <3>9. A' \in Blocks => A' = N'
      BY <2>1, <3>4, <3>5, <3>6 DEF FixtureOf
    <3>10. ASSUME NEW q \in Building(e)'
           PROVE  (\A r \in Building(e)' : r = q) /\ N' = tool'[q].named /\ A' = Absent
      <4>1. CASE q = p
        <5>1. \A r \in Building(e)' : r = p
          BY <2>1, <3>2, <3>3, <3>5, <3>6, <3>10, <4>1
        <5> QED
          BY <2>1, <3>4, <3>5, <3>6, <3>10, <4>1, <5>1 DEF FixtureOf
      <4>2. CASE q # p
        <5>1. q \in Building(e) /\ tool'[q] = tool[q] /\ Building(e) = {q}
          BY <2>1, <3>1, <3>2, <3>3, <3>10, <4>2 DEF FixtureOf
        <5>2. ~now /\ ~next /\ N' = N /\ A' = A
          BY <3>5, <4>2, <5>1
        <5>3. \A r \in Building(e)' : r = q
          BY <3>2, <3>3, <5>1, <5>2
        <5> QED
          BY <2>1, <5>1, <5>2, <5>3 DEF FixtureOf
      <4> QED
        BY <4>1, <4>2
    <3> HIDE DEF Kept
    <3> QED
      BY <3>7, <3>8, <3>9, <3>10 DEF FixtureOf
  <2> HIDE DEF Kept
  <2> QED
    BY <2>2, <2>3, KindsOfSteps DEF fileVars, Tooling
<1>3. ASSUME NEW u \in Units, fixture[u] # Absent, u[1] \notin contended'
      PROVE  fixture'[u] = fixture[u]
  <2>1. u[1] \in Events /\ (u = <<u[1], "named">> \/ u = <<u[1], "anon">>)
    BY UnitsAreNamedOrAnonymous
  <2>2. Kept(u[1])
    BY <1>2, <1>3, <2>1
  <2> QED
    BY <1>3, <2>1, <2>2
<1> QED
  BY <1>1, <1>2, <1>3 DEF FixtureInv

\* As long as labellings did not overlap, the one that runs has read what the
\* file still says; as long as registrations did not, there is no file yet
\* when the one that runs writes it.
LabelInv ==
  LabelsFile \notin contended =>
    \A p \in Labelling : tool[p].seen = labels /\ \A q \in Labelling : q = p
RegisterInv ==
  RegistrationFile \notin contended =>
    \A p \in Registering : frozen = NoDefaults /\ \A q \in Registering : q = p

LEMMA LabelStep ==
  ASSUME EvalType, LabelInv, [Next]_vars
  PROVE  LabelInv' /\ (LabelsFile \notin contended' => labels \subseteq labels')
<1> DEFINE Claim == LabelInv' /\ (LabelsFile \notin contended' => labels \subseteq labels')
<1> SUFFICES Claim
  OBVIOUS
<1>0. setup' = setup
  BY KindsOfSteps
<1>1. CASE UNCHANGED <<tool, contended, labels>>
  BY <1>0, <1>1 DEF LabelInv, Labelling, Runs
<1>2. ASSUME NEW p \in setup.tools, ToolStep(p)
      PROVE  Claim
  <2>1. contended \subseteq contended' /\ \A q \in setup.tools \ {p} : tool'[q] = tool[q]
    BY <1>2, ToolTypes
  <2>2. /\ tool \in [setup.tools -> Works]
        /\ \A q \in setup.tools : Runs(q, "label") => tool[q] \in Labellings
    <3>1. tool \in [setup.tools -> Works]
      BY DEF EvalType, TypeOK, Works
    <3> QED
      BY <3>1 DEF Runs, Works, Builds, Labellings, Registrations
  <2>3. \/ labels' = labels /\ ~Runs(p, "label")'
        \/ /\ labels' = labels /\ ~Runs(p, "label") /\ tool'[p].seen = labels
           /\ Labelling = {} \/ LabelsFile \in contended'
        \/ Runs(p, "label") /\ ~Runs(p, "label")' /\ tool[p].seen \subseteq labels'
    <3>1. ASSUME Ends(p)
          PROVE  ~Runs(p, "label")'
      BY <2>2, <3>1 DEF Ends, Runs
    <3>2. ASSUME NEW e \in Events, NEW force \in BOOLEAN, BuildStarts(p, e, force)
          PROVE  labels' = labels /\ ~Runs(p, "label")'
      BY <2>2, <3>2 DEF BuildStarts, Begins, Runs
    <3>3. CASE BuildFails(p) \/ BuildAnon(p) \/ RegisterWrites(p) \/ ToolDies(p)
      BY <3>1, <3>3 DEF BuildFails, BuildAnon, RegisterWrites, ToolDies
    <3>4. ASSUME NEW b \in Blocks, BuildNamed(p, b)
          PROVE  labels' = labels /\ ~Runs(p, "label")'
      BY <2>2, <3>4 DEF BuildNamed, Runs
    <3>5. CASE LabelStarts(p)
      BY <2>2, <3>5 DEF LabelStarts, Begins, Runs
    <3>6. ASSUME NEW found \in SUBSET Events, LabelWrites(p, found)
          PROVE  Runs(p, "label") /\ ~Runs(p, "label")' /\ tool[p].seen \subseteq labels'
      BY <3>1, <3>6 DEF LabelWrites
    <3>7. CASE RegisterStarts(p)
      BY <2>2, <3>7 DEF RegisterStarts, Begins, Runs
    <3> QED
      BY <1>2, <3>2, <3>3, <3>4, <3>5, <3>6, <3>7 DEF ToolStep
  <2>4. \A q \in setup.tools \ {p} : Runs(q, "label")' <=> Runs(q, "label")
    BY <2>1 DEF Runs
  <2>5. ASSUME LabelsFile \notin contended'
        PROVE  /\ labels \subseteq labels'
               /\ \A q \in Labelling' : tool'[q].seen = labels' /\ \A r \in Labelling' : r = q
    <3>1. \A q \in Labelling : tool[q].seen = labels /\ \A r \in Labelling : r = q
      BY <2>1, <2>5 DEF LabelInv
    <3>2. /\ \A q \in setup.tools : (q \in Labelling <=> Runs(q, "label")) /\ (q \in Labelling' <=> Runs(q, "label")')
          /\ Labelling \subseteq setup.tools /\ Labelling' \subseteq setup.tools
      BY <1>0 DEF Labelling
    <3>3. CASE labels' = labels /\ ~Runs(p, "label")'
      BY <2>1, <2>4, <3>1, <3>2, <3>3
    <3>4. CASE labels' = labels /\ ~Runs(p, "label") /\ tool'[p].seen = labels /\ Labelling = {}
      BY <2>1, <2>4, <3>1, <3>2, <3>4
    <3>5. CASE Runs(p, "label") /\ ~Runs(p, "label")' /\ tool[p].seen \subseteq labels'
      BY <2>1, <2>4, <3>1, <3>2, <3>5
    <3> QED
      BY <2>3, <2>5, <3>3, <3>4, <3>5
  <2> QED
    BY <2>5 DEF LabelInv
<1> HIDE DEF Claim
<1> QED
  BY <1>1, <1>2, KindsOfSteps DEF fileVars, Tooling

LEMMA RegisterStep ==
  ASSUME EvalType, RegisterInv, [Next]_vars
  PROVE  /\ RegisterInv'
         /\ (frozen \in Versions /\ RegistrationFile \notin contended') => frozen' = frozen
<1> DEFINE Claim == /\ RegisterInv'
                    /\ (frozen \in Versions /\ RegistrationFile \notin contended') => frozen' = frozen
<1> SUFFICES Claim
  OBVIOUS
<1>0. setup' = setup /\ NoDefaults \notin Versions /\ Torn \notin Versions /\ Torn # NoDefaults
  BY KindsOfSteps, EvalAssumption
<1>1. CASE UNCHANGED <<tool, contended>> /\ (frozen' = frozen \/ (frozen = Torn /\ frozen' = NoDefaults))
  BY <1>0, <1>1 DEF RegisterInv, Registering, Runs
<1>2. ASSUME NEW p \in setup.tools, ToolStep(p)
      PROVE  Claim
  <2>1. contended \subseteq contended' /\ \A q \in setup.tools \ {p} : tool'[q] = tool[q]
    BY <1>2, ToolTypes
  <2>2. tool \in [setup.tools -> Works]
    BY DEF EvalType, TypeOK, Works
  <2>3. \/ frozen' = frozen /\ ~Runs(p, "register")'
        \/ /\ frozen' = frozen /\ frozen = NoDefaults /\ ~Runs(p, "register")
           /\ Registering = {} \/ RegistrationFile \in contended'
        \/ Runs(p, "register") /\ ~Runs(p, "register")'
    <3>1. ASSUME Ends(p)
          PROVE  ~Runs(p, "register")'
      BY <2>2, <3>1 DEF Ends, Runs
    <3>2. ASSUME NEW e \in Events, NEW force \in BOOLEAN, BuildStarts(p, e, force)
          PROVE  frozen' = frozen /\ ~Runs(p, "register")'
      BY <2>2, <3>2 DEF BuildStarts, Begins, Runs
    <3>3. CASE BuildFails(p) \/ BuildAnon(p) \/ RegisterWrites(p) \/ ToolDies(p)
      BY <3>1, <3>3 DEF BuildFails, BuildAnon, RegisterWrites, ToolDies
    <3>4. ASSUME NEW b \in Blocks, BuildNamed(p, b)
          PROVE  frozen' = frozen /\ ~Runs(p, "register")'
      BY <2>2, <3>4 DEF BuildNamed, Runs
    <3>5. CASE LabelStarts(p)
      BY <2>2, <3>5 DEF LabelStarts, Begins, Runs
    <3>6. ASSUME NEW found \in SUBSET Events, LabelWrites(p, found)
          PROVE  frozen' = frozen /\ ~Runs(p, "register")'
      BY <3>1, <3>6 DEF LabelWrites
    <3>7. CASE RegisterStarts(p)
      BY <2>2, <3>7 DEF RegisterStarts, Begins, Runs
    <3> QED
      BY <1>2, <3>2, <3>3, <3>4, <3>5, <3>6, <3>7 DEF ToolStep
  <2>4. \A q \in setup.tools \ {p} : Runs(q, "register")' <=> Runs(q, "register")
    BY <2>1 DEF Runs
  <2>5. ASSUME RegistrationFile \notin contended'
        PROVE  /\ frozen \in Versions => frozen' = frozen
               /\ \A q \in Registering' : frozen' = NoDefaults /\ \A r \in Registering' : r = q
    <3>1. \A q \in Registering : frozen = NoDefaults /\ \A r \in Registering : r = q
      BY <2>1, <2>5 DEF RegisterInv
    <3>2. /\ \A q \in setup.tools : /\ q \in Registering <=> Runs(q, "register")
                                    /\ q \in Registering' <=> Runs(q, "register")'
          /\ Registering \subseteq setup.tools /\ Registering' \subseteq setup.tools
      BY <1>0 DEF Registering
    <3>3. CASE frozen' = frozen /\ ~Runs(p, "register")'
      BY <2>4, <3>1, <3>2, <3>3
    <3>4. CASE frozen' = frozen /\ frozen = NoDefaults /\ ~Runs(p, "register") /\ Registering = {}
      BY <2>4, <3>2, <3>4
    <3>5. CASE Runs(p, "register") /\ ~Runs(p, "register")'
      BY <1>0, <2>4, <3>1, <3>2, <3>5
    <3> QED
      BY <2>3, <2>5, <3>3, <3>4, <3>5
  <2> QED
    BY <2>5 DEF RegisterInv
<1>3. ASSUME Settling, UNCHANGED <<fixture, tool, contended, labels>>
      PROVE  Claim
  BY <1>1, <1>3 DEF Settling, RepairRegistration, DefaultsChange
<1> HIDE DEF Claim
<1> QED
  BY <1>1, <1>2, <1>3, KindsOfSteps DEF fileVars, Tooling

-----------------------------------------------------------------------------
(* What a run and a baseline saw. *)

UnitOf(k) == <<k.event, Variant(k)>>

\* As long as the builds of its event did not overlap: every complete cycle, the
\* running child and every baseline record saw the block its fixture holds today.
BlockInv ==
  /\ \A i \in DOMAIN cycles : cycles[i].key.event \notin contended => cycles[i].block = fixture[UnitOf(cycles[i].key)]
  /\ (child # Idle /\ child.key.event \notin contended) => child.block = fixture[UnitOf(child.key)]
  /\ \A u \in Units : u[1] \notin contended => records[u] \in {Absent, Torn, fixture[u]}

LEMMA BlockInit ==
  ASSUME Init
  PROVE  BlockInv
BY DEF Init, BlockInv

LEMMA ChildSeesFixture ==
  ASSUME EvalType, Batching
  PROVE  child' \in {child, Idle} \/ child'.block = fixture[UnitOf(child'.key)]
<1>1. ASSUME NEW r \in setup.shells, LaunchChild(r)
      PROVE  child'.block = fixture[UnitOf(child'.key)]
  <2> DEFINE k == NextSpec(batch[r].todo)
             unit == <<k.event, Variant(k)>>
  <2>1. child' = [key |-> k, base |-> defaults, block |-> fixture[unit]]
    BY <1>1 DEF LaunchChild
  <2>2. child'.key = k /\ child'.block = fixture[unit]
    BY <2>1
  <2>3. UnitOf(k) = unit
    BY DEF UnitOf
  <2> QED
    BY <2>2, <2>3
<1>2. ASSUME NEW r \in setup.shells, ~LaunchChild(r),
             \/ \E arm \in DOMAIN Arms, only \in SUBSET Events, rerun \in BOOLEAN : StartBatch(r, arm, only, rerun)
             \/ LaunchChild(r) \/ ChildFails(r) \/ BatchStops(r) \/ BatchEnds(r) \/ BatchDies(r)
      PROVE  child' = child
  BY <1>2 DEF StartBatch, ChildFails, BatchStops, BatchEnds, BatchDies
<1>3. ASSUME NEW complete \in BOOLEAN, NEW exit \in {0, 1}, ChildEnds(complete, exit)
      PROVE  child' = Idle
  BY <1>3 DEF ChildEnds
<1> QED
  BY <1>1, <1>2, <1>3 DEF Batching

LEMMA BlockStep ==
  ASSUME EvalType, EvalType', FixtureInv, BlockInv, [Next]_vars
  PROVE  BlockInv'
<1> DEFINE Shown(c) == c.key.event \notin contended' => c.block = fixture'[UnitOf(c.key)]
<1> SUFFICES /\ \A i \in DOMAIN cycles' : Shown(cycles'[i])
             /\ child' # Idle => Shown(child')
             /\ \A u \in Units : u[1] \notin contended' => records'[u] \in {Absent, Torn, fixture'[u]}
  BY DEF BlockInv, UnitOf, Variant
<1>1. /\ contended \subseteq contended'
      /\ \A u \in Units : (fixture[u] # Absent /\ u[1] \notin contended') => fixture'[u] = fixture[u]
  BY FixtureStep
<1>2. /\ \A i \in DOMAIN cycles : cycles[i].key.event \notin contended => cycles[i].block = fixture[UnitOf(cycles[i].key)]
      /\ (child # Idle /\ child.key.event \notin contended) => child.block = fixture[UnitOf(child.key)]
      /\ \A u \in Units : u[1] \notin contended => records[u] \in {Absent, Torn, fixture[u]}
  BY DEF BlockInv
<1>3. ASSUME NEW c \in Cycle
      PROVE  UnitOf(c.key) \in Units /\ UnitOf(c.key)[1] = c.key.event /\ c.block \in Blocks /\ c.block # Absent
  BY <1>3, KeysAreUnits, EvalAssumption DEF Cycle, UnitOf
<1>4. ASSUME NEW c \in Cycle, c.key.event \notin contended => c.block = fixture[UnitOf(c.key)]
      PROVE  Shown(c)
  BY <1>1, <1>3, <1>4
<1>5. cycles \in Seq(Cycle) /\ child \in {Idle} \cup Cycle /\ child' \in {Idle} \cup Cycle
  BY DEF EvalType, TypeOK
<1> HIDE DEF Shown
<1>6. \A i \in DOMAIN cycles : cycles[i] \in Cycle /\ Shown(cycles[i])
  BY <1>2, <1>4, <1>5
<1>7. child # Idle => Shown(child)
  BY <1>2, <1>4, <1>5
<1>8. \A i \in DOMAIN cycles' : Shown(cycles'[i])
  <2>1. CASE cycles' = cycles
    BY <1>6, <2>1
  <2>2. CASE child # Idle /\ cycles' = Append(cycles, child)
    <3>1. /\ DOMAIN cycles' = 1..(Len(cycles) + 1) /\ DOMAIN cycles = 1..Len(cycles) /\ Len(cycles) \in Nat
          /\ cycles'[Len(cycles) + 1] = child
          /\ \A i \in 1..Len(cycles) : cycles'[i] = cycles[i]
      BY <1>5, <2>2
    <3>2. \A i \in DOMAIN cycles' : i \in DOMAIN cycles \/ i = Len(cycles) + 1
      BY <3>1
    <3> QED
      BY <1>6, <1>7, <2>2, <3>1, <3>2
  <2> QED
    BY <2>1, <2>2, CyclesAreAdded
<1>9. child' # Idle => Shown(child')
  <2>1. CASE child' = child
    BY <1>7, <2>1
  <2>2. CASE Batching /\ fixture' = fixture
    <3>1. child' \in {child, Idle} \/ child'.block = fixture[UnitOf(child'.key)]
      BY <2>2, ChildSeesFixture
    <3> QED
      BY <1>7, <2>2, <3>1 DEF Shown
  <2>3. child' = child \/ (Batching /\ fixture' = fixture)
    BY KindsOfSteps DEF runVars, fileVars
  <2> QED
    BY <2>1, <2>2, <2>3
<1>10. ASSUME NEW u \in Units, u[1] \notin contended'
       PROVE  records'[u] \in {Absent, Torn, fixture'[u]}
  <2>1. records[u] \in {Absent, Torn} \/ records[u] = fixture'[u]
    <3>1. records[u] \in Blocks \cup {Absent, Torn}
      BY DEF EvalType, TypeOK
    <3>2. records[u] \in {Absent, Torn} \/ records[u] = fixture[u]
      BY <1>1, <1>2, <1>10
    <3>3. Absent \notin Blocks
      BY EvalAssumption
    <3> QED
      BY <1>1, <1>10, <3>1, <3>2, <3>3
  <2>2. CASE records' = records
    BY <2>1, <2>2
  <2>3. CASE Sampling /\ fixture' = fixture
    <3>1. \/ records'[u] \in {records[u], Absent, Torn}
          \/ records'[u] = fixture[u]
      BY <2>3, SamplingTypes
    <3> QED
      BY <2>1, <2>3, <3>1
  <2>4. records' = records \/ (Sampling /\ fixture' = fixture)
    BY KindsOfSteps DEF fileVars
  <2> QED
    BY <2>2, <2>3, <2>4
<1> QED
  BY <1>8, <1>9, <1>10

-----------------------------------------------------------------------------
(* Which cycles match a key. *)

LEMMA MatchesArePlaces ==
  ASSUME EvalType, NEW k \in Keys
  PROVE  /\ Of(k) \subseteq 1..Len(cycles) /\ Len(cycles) \in Nat
         /\ k \in Matched => /\ Min(Of(k)) \in Nat
                             /\ Newest(k) \in Of(k) /\ cycles[Newest(k)].key = k
                             /\ cycles[Newest(k)] \in Cycle
<1>1. cycles \in Seq(Cycle) /\ DOMAIN cycles = 1..Len(cycles) /\ Len(cycles) \in Nat
  BY DEF EvalType, TypeOK
<1>2. Of(k) \subseteq 1..Len(cycles)
  BY <1>1 DEF Of, Valid
<1>3. ASSUME k \in Matched
      PROVE  /\ Min(Of(k)) \in Nat
             /\ Newest(k) \in Of(k) /\ cycles[Newest(k)].key = k
             /\ cycles[Newest(k)] \in Cycle
  <2>1. Of(k) # {} /\ Of(k) \in SUBSET (1..Len(cycles)) /\ Of(k) \in SUBSET Nat
    BY <1>2, <1>3 DEF Matched
  <2>2. Min(Of(k)) \in Of(k) /\ Max(Of(k)) \in Of(k)
    BY <1>1, <2>1, LeastIsThere, GreatestIsThere
  <2>3. Newest(k) \in Of(k)
    BY <2>2 DEF Newest
  <2>4. Newest(k) \in 1..Len(cycles) /\ cycles[Newest(k)].key = k
    BY <2>1, <2>3 DEF Of
  <2> QED
    BY <1>1, <2>1, <2>2, <2>3, <2>4
<1> QED
  BY <1>1, <1>2, <1>3

LEMMA MatchedIsFinite ==
  ASSUME EvalType
  PROVE  IsFiniteSet(Matched)
<1> DEFINE Places == UNION {Of(k) : k \in Matched}
           keyAt == [i \in Places |-> cycles[i].key]
<1>1. Len(cycles) \in Nat /\ \A k \in Matched : Of(k) \subseteq 1..Len(cycles) /\ Of(k) # {}
  <2>1. Len(cycles) \in Nat
    BY DEF EvalType, TypeOK
  <2> QED
    BY <2>1, MatchesArePlaces DEF Matched
<1>2. Places \subseteq 1..Len(cycles)
  BY <1>1
<1>3. IsFiniteSet(Places)
  <2>1. IsFiniteSet(1..Len(cycles))
    BY <1>1, FS_Interval
  <2> HIDE DEF Places
  <2> QED
    BY <1>2, <2>1, FS_Subset
<1>4. \A k \in Matched : \A i \in Of(k) : cycles[i].key = k
  BY DEF Of
<1>5. keyAt \in Surjection(Places, Matched)
  <2>1. \A i \in Places : keyAt[i] \in Matched
    BY <1>4
  <2>2. \A k \in Matched : \E i \in Places : keyAt[i] = k
    BY <1>1, <1>4
  <2> QED
    BY <2>1, <2>2 DEF Surjection
<1> HIDE DEF Places, keyAt
<1> QED
  BY <1>3, <1>5, FS_Surjection

\* Two blocks of an event and a variant cannot both be the majority's.
LEMMA OneMajority ==
  ASSUME EvalType, NEW j \in Matched, NEW k \in Matched, j.event = k.event, Variant(j) = Variant(k),
         MajorityBlock(j, BlockOf(j)), MajorityBlock(k, BlockOf(k))
  PROVE  BlockOf(j) = BlockOf(k)
<1> DEFINE b == BlockOf(j)
           c == BlockOf(k)
<1> SUFFICES ASSUME b # c
             PROVE  FALSE
  OBVIOUS
<1>1. Group(j) = Group(k) /\ j \in Group(k) /\ k \in Group(k)
  BY DEF Group
<1>2. \A x : Showing(j, x) = Showing(k, x) /\ FirstMet(j, x) = FirstMet(k, x)
  BY <1>1 DEF Showing, FirstMet
<1>3. j \in Showing(k, b) /\ k \in Showing(k, c)
  BY <1>1 DEF Showing
<1>4. ASSUME NEW x, Showing(k, x) # {}
      PROVE  Cardinality(Showing(k, x)) \in Nat /\ FirstMet(k, x) \in Nat
  <2>1. Showing(k, x) \subseteq Matched /\ Matched \subseteq Keys
    BY DEF Showing, Group, Matched
  <2>2. Cardinality(Showing(k, x)) \in Nat
    BY <2>1, MatchedIsFinite, FS_Subset, FS_CardinalityType
  <2> DEFINE First == {Min(Of(i)) : i \in Showing(k, x)}
  <2>3. First \in SUBSET Nat /\ First # {}
    <3>1. \A i \in Showing(k, x) : Min(Of(i)) \in Nat
      BY <2>1, MatchesArePlaces
    <3> QED
      BY <1>4, <3>1
  <2>4. Min(First) \in Nat
    <3> HIDE DEF First
    <3> QED
      BY <2>3, LeastIsThere
  <2> QED
    BY <2>2, <2>4 DEF FirstMet
<1> DEFINE n == Cardinality(Showing(k, b))
           m == Cardinality(Showing(k, c))
<1>5. n \in Nat /\ m \in Nat /\ FirstMet(k, b) \in Nat /\ FirstMet(k, c) \in Nat
  BY <1>3, <1>4
<1>6. n > m \/ (n = m /\ FirstMet(k, b) < FirstMet(k, c))
  <2>1. c \in {BlockOf(i) : i \in Group(j)} \ {b}
    BY <1>1
  <2>2. LET p == Cardinality(Showing(j, b))
            q == Cardinality(Showing(j, c))
        IN p > q \/ (p = q /\ FirstMet(j, b) < FirstMet(j, c))
    BY <2>1 DEF MajorityBlock
  <2> QED
    BY <1>2, <2>2
<1>7. m > n \/ (m = n /\ FirstMet(k, c) < FirstMet(k, b))
  <2>1. b \in {BlockOf(i) : i \in Group(k)} \ {c}
    BY <1>1
  <2>2. LET p == Cardinality(Showing(k, c))
            q == Cardinality(Showing(k, b))
        IN p > q \/ (p = q /\ FirstMet(k, c) < FirstMet(k, b))
    BY <2>1 DEF MajorityBlock
  <2> QED
    BY <2>2
<1> HIDE DEF n, m, b, c
<1> QED
  BY <1>5, <1>6, <1>7

\* As long as the builds of its event did not overlap, no cycle is dropped: every
\* match shows its fixture's block.
AllMatchesScored ==
  \A k \in Matched : k.event \notin contended =>
    k \in Scored /\ BlockOf(k) \in Blocks /\ BlockOf(k) = fixture[UnitOf(k)]

LEMMA MatchesAreScored ==
  ASSUME EvalType, BlockInv
  PROVE  AllMatchesScored
<1>1. ASSUME NEW k \in Matched, k.event \notin contended
      PROVE  BlockOf(k) \in Blocks /\ BlockOf(k) = fixture[UnitOf(k)]
  <2>1. k \in Keys
    BY DEF Matched
  <2>2. Newest(k) \in DOMAIN cycles /\ cycles[Newest(k)].key = k /\ cycles[Newest(k)] \in Cycle
    BY <2>1, MatchesArePlaces DEF Of, Valid
  <2> QED
    BY <1>1, <2>2 DEF BlockInv, BlockOf, Cycle
<1>2. ASSUME NEW k \in Matched, k.event \notin contended
      PROVE  MajorityBlock(k, BlockOf(k))
  <2>1. k \in Showing(k, BlockOf(k))
    BY DEF Showing, Group
  <2>2. \A j \in Group(k) : BlockOf(j) = BlockOf(k)
    BY <1>1, <1>2 DEF Group, UnitOf
  <2> QED
    BY <2>1, <2>2 DEF MajorityBlock
<1> QED
  BY <1>1, <1>2 DEF Scored, AllMatchesScored

LEMMA Comparable ==
  ASSUME EvalType, FixtureInv, BlockInv
  PROVE  ScoredRunsComparable
<1>1. ASSUME NEW j \in Scored, NEW k \in Scored, j.event = k.event, Variant(j) = Variant(k)
      PROVE  BlockOf(j) = BlockOf(k)
  <2>1. /\ j \in Matched /\ MajorityBlock(j, BlockOf(j))
        /\ k \in Matched /\ MajorityBlock(k, BlockOf(k))
    BY DEF Scored
  <2> QED
    BY <1>1, <2>1, OneMajority
<1>2. ASSUME NEW k \in Scored, k.event \notin contended
      PROVE  /\ \A j \in Scored : j.event = k.event => BlockOf(j) = BlockOf(k)
             /\ records[<<k.event, Variant(k)>>] \in {Absent, Torn, BlockOf(k)}
  <2>1. \A j \in Scored : j.event = k.event =>
          j \in Keys /\ BlockOf(j) \in Blocks /\ BlockOf(j) = fixture[<<j.event, Variant(j)>>]
    BY <1>2, MatchesAreScored DEF AllMatchesScored, Scored, Matched, UnitOf
  <2>2. ASSUME NEW j \in Scored, j.event = k.event
        PROVE  BlockOf(j) = fixture[<<j.event, "named">>]
    <3>1. j.event \in Events /\ Variant(j) \in {"named", "anon"}
      BY <2>1, <2>2, KeysAreUnits DEF Variants
    <3>2. CASE Variant(j) = "named"
      BY <2>1, <2>2, <3>2
    <3>3. CASE Variant(j) = "anon"
      <4>1. FixtureOf(j.event)
        BY <1>2, <2>2, <3>1 DEF FixtureInv
      <4> QED
        BY <2>1, <2>2, <3>3, <4>1 DEF FixtureOf
    <3> QED
      BY <3>1, <3>2, <3>3
  <2>3. \A j \in Scored : j.event = k.event => BlockOf(j) = BlockOf(k)
    BY <2>2
  <2>4. <<k.event, Variant(k)>> \in Units /\ <<k.event, Variant(k)>>[1] \notin contended
    BY <1>2, <2>1, KeysAreUnits
  <2> QED
    BY <2>1, <2>3, <2>4 DEF BlockInv
<1> QED
  BY <1>1, <1>2 DEF ScoredRunsComparable

-----------------------------------------------------------------------------
(* What is finished lasts. *)

\* What FinishedWorkSurvives and ScoresSurvive say of a step.
Survives ==
  /\ \A i \in DOMAIN cycles : i \in DOMAIN cycles' /\ cycles'[i] = cycles[i]
  /\ LabelsFile \notin contended' => labels \subseteq labels'
  /\ \A u \in Units : /\ records[u] \in Blocks => records'[u] = records[u]
                      /\ (fixture[u] # Absent /\ u[1] \notin contended') => fixture'[u] = fixture[u]
  /\ (frozen \in Versions /\ RegistrationFile \notin contended') => frozen' = frozen

LEMMA Survival ==
  ASSUME EvalType, FixtureInv, LabelInv, RegisterInv, [Next]_vars
  PROVE  Survives
<1>1. ASSUME NEW u \in Units, records[u] \in Blocks
      PROVE  records'[u] = records[u]
  <2>1. CASE Sampling
    BY <1>1, <2>1, SamplingTypes, EvalAssumption
  <2> QED
    BY <2>1, KindsOfSteps
<1> QED
  BY <1>1, CyclesAreAdded, FixtureStep, LabelStep, RegisterStep DEF Survives

LEMMA ScoresStay ==
  ASSUME EvalType, EvalType', FixtureInv, LabelInv, RegisterInv, AllMatchesScored', [Next]_vars,
         frozen \in Versions, RegistrationFile \notin contended'
  PROVE  {k \in Scored : k.event \notin contended'} \subseteq Scored'
<1>1. frozen' = frozen
  BY RegisterStep
<1>2. ExpectedBase' = ExpectedBase
  BY <1>1, EvalAssumption DEF ExpectedBase
<1>3. \A i \in Valid : i \in Valid' /\ cycles'[i] = cycles[i]
  BY <1>2, CyclesAreAdded DEF Valid
<1>4. \A k \in Matched : k \in Matched'
  BY <1>3 DEF Matched, Of
<1> QED
  BY <1>4 DEF AllMatchesScored, Scored

-----------------------------------------------------------------------------
(* The theorems. *)

EvalInv == EvalType /\ ReportedIsComplete /\ FixtureInv /\ LabelInv /\ RegisterInv /\ BlockInv

LEMMA EvalHolds == Spec => []EvalInv
<1>1. Init => EvalInv
  <2>1. Init => LabelInv /\ RegisterInv
    BY NobodyAtFirst DEF LabelInv, RegisterInv
  <2> QED
    BY <2>1, EvalTypeInit, ReportInit, FixtureInit, BlockInit DEF EvalInv
<1>2. EvalInv /\ [Next]_vars => EvalInv'
  <2> SUFFICES ASSUME EvalInv, [Next]_vars
               PROVE  EvalInv'
    OBVIOUS
  <2>1. EvalType'
    BY EvalTypeStep DEF EvalInv
  <2>2. ReportedIsComplete' /\ FixtureInv' /\ LabelInv' /\ RegisterInv'
    BY ReportStep, FixtureStep, LabelStep, RegisterStep DEF EvalInv
  <2>3. BlockInv'
    BY <2>1, BlockStep DEF EvalInv
  <2> QED
    BY <2>1, <2>2, <2>3 DEF EvalInv
<1> QED
  BY <1>1, <1>2, PTL DEF Spec

\* Every variable keeps its type, and a batch plans and reports only runs of
\* registered arms.
THEOREM EvalTyped == Spec => [](TypeOK /\ batch \in [setup.shells -> {Idle} \cup Jobs])
<1>1. EvalInv => TypeOK /\ batch \in [setup.shells -> {Idle} \cup Jobs]
  BY DEF EvalInv, EvalType
<1> QED
  BY <1>1, EvalHolds, PTL

\* run_batch reports a cycle as run, or as already complete, only when it is
\* complete in the graph.
THEOREM ReportsAreTrue == Spec => []ReportedIsComplete
<1>1. EvalInv => ReportedIsComplete
  BY DEF EvalInv
<1> QED
  BY <1>1, EvalHolds, PTL

\* What match_cycles leaves to be compared on an event saw one market block per
\* variant, and one in all unless two builds of the event overlapped or one was
\* forced, for any number of tools, shells, events and downloads.
THEOREM ScoresAreComparable == Spec => []ScoredRunsComparable
<1>1. EvalInv => ScoredRunsComparable
  BY Comparable DEF EvalInv
<1> QED
  BY <1>1, EvalHolds, PTL

\* Nothing done is undone, for any number of tools and shells: cycles and
\* baseline records never; labels, registered defaults, fixtures and scores
\* unless two processes were at work on that file at once or --force was given.
THEOREM NothingIsLost == Spec => ResultsLast
<1>1. EvalInv => AllMatchesScored
  BY MatchesAreScored DEF EvalInv
<1>2. EvalInv /\ [Next]_vars =>
        [ /\ \A i \in DOMAIN cycles : i \in DOMAIN cycles' /\ cycles'[i] = cycles[i]
          /\ LabelsFile \notin contended' => labels \subseteq labels'
          /\ \A u \in Units : /\ records[u] \in Blocks => records'[u] = records[u]
                              /\ (fixture[u] # Absent /\ u[1] \notin contended') => fixture'[u] = fixture[u]
          /\ (frozen \in Versions /\ RegistrationFile \notin contended') => frozen' = frozen ]_vars
  BY Survival DEF EvalInv, Survives
<1>3. EvalInv /\ EvalInv' /\ AllMatchesScored' /\ [Next]_vars =>
        [(frozen \in Versions /\ RegistrationFile \notin contended') =>
            {k \in Scored : k.event \notin contended'} \subseteq Scored']_vars
  BY ScoresStay DEF EvalInv
<1>4. Spec => FinishedWorkSurvives
  BY <1>2, EvalHolds, PTL DEF Spec, FinishedWorkSurvives
<1>5. Spec => ScoresSurvive
  BY <1>1, <1>3, EvalHolds, PTL DEF Spec, ScoresSurvive
<1> QED
  BY <1>4, <1>5 DEF ResultsLast

-----------------------------------------------------------------------------
(* No look-ahead (Scoring). *)

LEMMA GreatestBounds ==
  ASSUME NEW n \in Nat, NEW S \in SUBSET (0..n), S # {}
  PROVE  Max(S) \in S /\ \A x \in S : x <= Max(S)
<1> DEFINE Gap == {n - x : x \in S}
<1>1. Gap \in SUBSET Nat /\ Gap # {}
  <2>1. \A x \in S : n - x \in Nat
    OBVIOUS
  <2>2. \E x \in S : n - x \in Gap
    OBVIOUS
  <2> QED
    BY <2>1, <2>2
<1>2. Min(Gap) \in Gap /\ \A g \in Gap : Min(Gap) <= g
  <2> HIDE DEF Gap
  <2> QED
    BY <1>1, LeastIsThere
<1>3. PICK x \in S : Min(Gap) = n - x
  BY <1>2
<1>4. \A y \in S : y <= x
  <2> SUFFICES ASSUME NEW y \in S
               PROVE  y <= x
    OBVIOUS
  <2>1. n - y \in Gap
    OBVIOUS
  <2>2. n - x <= n - y
    BY <1>2, <1>3, <2>1
  <2> QED
    BY <2>2
<1> QED
  BY <1>4 DEF Max

\* The days of a series can be listed in ascending order.
LEMMA DaysAscend ==
  ASSUME NEW n \in Nat, NEW S \in SUBSET (1..n)
  PROVE  /\ Cardinality(S) \in Nat
         /\ \E f \in [1..Cardinality(S) -> S] : \A i, j \in DOMAIN f : i < j => f[i] < f[j]
<1> DEFINE Listed(T) == \E f \in [1..Cardinality(T) -> T] : \A i, j \in DOMAIN f : i < j => f[i] < f[j]
           Bad == {Cardinality(T) : T \in {U \in SUBSET (1..n) : ~Listed(U)}}
<1>1. \A T \in SUBSET (1..n) : IsFiniteSet(T) /\ Cardinality(T) \in Nat
  <2> SUFFICES ASSUME NEW T \in SUBSET (1..n)
               PROVE  IsFiniteSet(T) /\ Cardinality(T) \in Nat
    OBVIOUS
  <2> DEFINE All == 1..n
  <2>1. IsFiniteSet(All)
    BY FS_Interval
  <2>2. T \in SUBSET All
    OBVIOUS
  <2> HIDE DEF All
  <2> QED
    BY <2>1, <2>2, FS_Subset, FS_CardinalityType
<1>2. SUFFICES ASSUME ~Listed(S)
               PROVE  FALSE
  BY <1>1
<1>3. Bad \in SUBSET Nat /\ Bad # {}
  <2> HIDE DEF Listed
  <2> QED
    BY <1>1, <1>2
<1>4. Min(Bad) \in Bad /\ \A k \in Bad : Min(Bad) <= k
  <2> HIDE DEF Bad
  <2> QED
    BY <1>3, LeastIsThere
<1>5. PICK T \in SUBSET (1..n) : ~Listed(T) /\ Cardinality(T) = Min(Bad)
  <2> HIDE DEF Listed
  <2> QED
    BY <1>4
<1>6. T # {}
  <2> SUFFICES ASSUME T = {}
               PROVE  Listed(T)
    BY <1>5
  <2>1. Cardinality(T) = 0 /\ 1..0 = {}
    BY FS_EmptySet
  <2>2. [i \in {} |-> 0] \in [{} -> {}]
    OBVIOUS
  <2> QED
    BY <2>1, <2>2
<1> DEFINE m == Max(T)
           U == T \ {m}
           k == Cardinality(T)
<1>7. m \in T /\ \A x \in T : x <= m
  <2>1. T \in SUBSET (0..n)
    OBVIOUS
  <2> QED
    BY <1>6, <2>1, GreatestBounds
<1>8. k \in Nat \ {0} /\ Cardinality(U) = k - 1 /\ U \in SUBSET (1..n)
  <2>1. IsFiniteSet(T) /\ k \in Nat
    BY <1>1
  <2> HIDE DEF m
  <2>2. Cardinality(U) = k - 1
    BY <1>7, <2>1, FS_RemoveElement
  <2>3. U \in SUBSET (1..n)
    OBVIOUS
  <2>4. Cardinality(U) \in Nat
    BY <1>1, <2>3
  <2> HIDE DEF k, U
  <2>5. k # 0
    BY <2>2, <2>4
  <2> QED
    BY <2>1, <2>2, <2>3, <2>5
<1>9. Listed(U)
  <2> HIDE DEF Listed, U
  <2>1. Listed(U) \/ Cardinality(U) \in Bad
    BY <1>8
  <2>2. ~(k <= k - 1)
    BY <1>8
  <2> HIDE DEF Bad
  <2> QED
    BY <1>4, <1>5, <1>8, <2>1, <2>2
<1>10. PICK g \in [1..(k - 1) -> U] : \A i, j \in 1..(k - 1) : i < j => g[i] < g[j]
  <2> HIDE DEF U, k
  <2> QED
    BY <1>8, <1>9
<1> DEFINE f == [i \in 1..k |-> IF i = k THEN m ELSE g[i]]
<1> HIDE DEF m, k
<1>11. \A i \in 1..k : i = k \/ i \in 1..(k - 1)
  BY <1>8
<1>12. f \in [1..k -> T]
  BY <1>7, <1>10, <1>11
<1>13. ASSUME NEW i \in 1..k, NEW j \in 1..k, i < j
       PROVE  f[i] < f[j]
  <2>1. i \in 1..(k - 1) /\ g[i] \in U
    BY <1>8, <1>10, <1>13
  <2>2. f[i] = g[i]
    BY <1>8, <2>1
  <2>3. CASE j = k
    <3>1. g[i] \in T /\ g[i] # m /\ g[i] <= m
      BY <1>7, <2>1
    <3>2. g[i] < m
      <4> DEFINE x == g[i]
      <4>1. x \in T /\ x # m /\ x <= m /\ m \in T
        BY <1>7, <3>1
      <4> HIDE DEF x
      <4>2. T \subseteq Nat
        OBVIOUS
      <4>3. x < m
        BY <4>1, <4>2
      <4> QED
        BY <4>3 DEF x
    <3> QED
      BY <2>2, <2>3, <3>2
  <2>4. CASE j # k
    BY <1>10, <1>11, <1>13, <2>1, <2>2, <2>4
  <2> QED
    BY <2>3, <2>4
<1>14. Listed(T)
  <2>1. Cardinality(T) = k
    BY DEF k
  <2> HIDE DEF f
  <2> QED
    BY <1>12, <1>13, <2>1
<1> QED
  BY <1>5, <1>14

\* A list of the days of a series in ascending order has them all.
LEMMA EveryDayIsListed ==
  ASSUME NEW S \in SUBSET Nat, IsFiniteSet(S), NEW f \in [1..Cardinality(S) -> S],
         \A i, j \in 1..Cardinality(S) : i < j => f[i] < f[j],
         NEW x \in S
  PROVE  \E i \in 1..Cardinality(S) : f[i] = x
<1> DEFINE k == Cardinality(S)
           Places == 1..k
<1>1. k \in Nat
  BY FS_CardinalityType
<1>2. IsFiniteSet(Places) /\ Cardinality(Places) = k
  <2> HIDE DEF k
  <2>1. IsFiniteSet(1..k) /\ Cardinality(1..k) = IF 1 > k THEN 0 ELSE k - 1 + 1
    BY <1>1, FS_Interval
  <2> QED
    BY <1>1, <2>1
<1>3. \A i, j \in Places : f[i] = f[j] => i = j
  <2> SUFFICES ASSUME NEW i \in Places, NEW j \in Places, f[i] = f[j], i # j
               PROVE  FALSE
    OBVIOUS
  <2>1. f[i] \in Nat /\ f[j] \in Nat
    <3>1. f[i] \in S /\ f[j] \in S
      OBVIOUS
    <3>2. S \subseteq Nat
      OBVIOUS
    <3> QED
      BY <3>1, <3>2
  <2>2. i < j \/ j < i
    OBVIOUS
  <2>3. f[i] < f[j] \/ f[j] < f[i]
    BY <2>2
  <2> QED
    BY <2>1, <2>3
<1>4. f \in Injection(Places, S)
  <2> HIDE DEF Places
  <2> QED
    BY <1>3, Fun_IsInj DEF Places
<1>5. f \in Surjection(Places, S)
  <2> HIDE DEF Places, k
  <2> QED
    BY <1>1, <1>2, <1>4, FS_Injection DEF k
<1> QED
  BY <1>5 DEF Surjection

\* Later sessions close later, early ones too.
LEMMA ClosesInOrder ==
  ASSUME NEW d \in Nat, NEW e \in Nat, NEW early
  PROVE  d < e <=> SessionClose(d, early) < SessionClose(e, early)
BY DEF SessionClose

\* A finite set of days has a last one.
LEMMA DaysAreBounded ==
  ASSUME NEW days \in SUBSET (Nat \ {0}), IsFiniteSet(days)
  PROVE  \E last \in Nat : days \in SUBSET (1..last)
<1> DEFINE Upto(last) == 1..last
           Bounded(s) == \E last \in Nat : s \subseteq Upto(last)
           Bad == {s \in SUBSET days : ~Bounded(s)}
           Sizes == {Cardinality(s) : s \in Bad}
<1>1. \A s \in SUBSET days : IsFiniteSet(s) /\ Cardinality(s) \in Nat
  BY FS_Subset, FS_CardinalityType
<1>2. Bad = {}
  <2> SUFFICES ASSUME Bad # {} PROVE FALSE
    OBVIOUS
  <2>1. Sizes \in SUBSET Nat /\ Sizes # {}
    <3> HIDE DEF Bounded
    <3> QED
      BY <1>1
  <2>2. PICK s \in Bad : \A u \in Bad : Cardinality(s) <= Cardinality(u)
    <3>1. Min(Sizes) \in Sizes /\ \A x \in Sizes : Min(Sizes) <= x
      <4> HIDE DEF Sizes
      <4> QED
        BY <2>1, LeastIsThere
    <3> HIDE DEF Bad
    <3> QED
      BY <3>1
  <2>3. PICK x \in s : TRUE
    <3>1. {} \subseteq Upto(0) /\ 0 \in Nat
      OBVIOUS
    <3> HIDE DEF Upto
    <3> QED
      BY <3>1
  <2> DEFINE u == s \ {x}
  <2>4. u \in SUBSET days /\ x \in Nat \ {0} /\ s = u \cup {x}
    OBVIOUS
  <2>5. Cardinality(u) = Cardinality(s) - 1 /\ Cardinality(s) \in Nat
    <3>1. IsFiniteSet(s) /\ Cardinality(s) \in Nat /\ x \in s
      BY <1>1, <2>3
    <3> HIDE DEF Bad
    <3> QED
      BY <3>1, FS_RemoveElement
  <2>6. Bounded(u)
    <3>1. u \notin Bad
      <4> HIDE DEF u, Bad
      <4>1. Cardinality(u) \in Nat /\ ~(Cardinality(s) <= Cardinality(u))
        BY <1>1, <2>4, <2>5
      <4> QED
        BY <2>2, <4>1
    <3> HIDE DEF u, Bounded
    <3> QED
      BY <2>4, <3>1
  <2>7. PICK last \in Nat : u \subseteq Upto(last)
    BY <2>6
  <2> DEFINE most == IF last < x THEN x ELSE last
  <2>8. most \in Nat /\ last <= most /\ x \in Upto(most)
    BY <2>4
  <2>9. Upto(last) \subseteq Upto(most)
    BY <2>8
  <2>10. s \subseteq Upto(most)
    <3> HIDE DEF u, most, Upto, Bad
    <3> QED
      BY <2>4, <2>7, <2>8, <2>9
  <2> HIDE DEF most, Upto
  <2> QED
    BY <2>8, <2>10
<1>3. Bounded(days)
  <2> HIDE DEF Bounded
  <2> QED
    BY <1>2
<1> QED
  BY <1>3

LieAhead(shown, outcome, ticker, benchmark, early, event, horizons) ==
  /\ shown # None => shown \in ticker /\ SessionClose(shown, early) <= event
  /\ outcome # None =>
       /\ outcome.base \in ticker \cap benchmark /\ SessionClose(outcome.base, early) <= event
       /\ \A h \in horizons : /\ outcome.ends[h] \in ticker \cap benchmark
                              /\ event < SessionClose(outcome.ends[h], early)
                              /\ shown # None => shown < outcome.ends[h]
                              /\ \A k \in horizons : h < k => outcome.ends[h] < outcome.ends[k]
       /\ outcome.base <= shown
       /\ ticker \subseteq benchmark => outcome.base = shown

\* What the fixture shows of an event had happened, and what the event is scored
\* on had not (eval/build_fixtures.py, evaluation.py compute_outcome): the last
\* bar shown and the session the returns start from had closed, every session
\* that a return ends at closes after the event, and is none of those shown; for
\* all series, all early closes, every hour of an event and all horizons.
LEMMA OutcomesLieAhead ==
  ASSUME NEW ticker \in SUBSET (Nat \ {0}), IsFiniteSet(ticker),
         NEW benchmark \in SUBSET (Nat \ {0}), IsFiniteSet(benchmark),
         NEW horizons \in SUBSET (Nat \ {0}), IsFiniteSet(horizons), horizons # {},
         NEW early, NEW event \in Nat, NEW window \in Nat
  PROVE  LieAhead(FixtureBar(ticker, early, event),
                  OutcomeDays(ticker, benchmark, early, event, window, horizons),
                  ticker, benchmark, early, event, horizons)
<1>0. PICK last \in Nat, most \in Nat : /\ ticker \in SUBSET (1..last) /\ benchmark \in SUBSET (1..last)
                                       /\ horizons \in SUBSET (1..most)
  <2>1. PICK n \in Nat : ticker \in SUBSET (1..n)
    BY DaysAreBounded
  <2>2. PICK k \in Nat : benchmark \in SUBSET (1..k)
    BY DaysAreBounded
  <2>3. PICK most \in Nat : horizons \in SUBSET (1..most)
    BY DaysAreBounded
  <2> DEFINE last == IF n < k THEN k ELSE n
  <2>4. last \in Nat /\ 1..n \subseteq 1..last /\ 1..k \subseteq 1..last
    OBVIOUS
  <2> HIDE DEF last
  <2>5. ticker \in SUBSET (1..last) /\ benchmark \in SUBSET (1..last)
    BY <2>1, <2>2, <2>4
  <2> QED
    BY <2>3, <2>4, <2>5
<1> USE <1>0
<1> DEFINE shown == FixtureBar(ticker, early, event)
           outcome == OutcomeDays(ticker, benchmark, early, event, window, horizons)
           S == ticker \cap benchmark
           days == CommonDays(ticker, benchmark)
           Closed == {i \in DOMAIN days : \A j \in 1..i : SessionClose(days[j], early) <= event}
           base == BaseIndex(days, early, event)
<1>1. ASSUME shown # None
      PROVE  shown \in ticker /\ SessionClose(shown, early) <= event
  <2>1. ShownBars(ticker, early, event) # {} /\ shown = Max(ShownBars(ticker, early, event))
    BY <1>1 DEF FixtureBar
  <2>2. ShownBars(ticker, early, event) \in SUBSET (0..last)
    <3>1. ShownBars(ticker, early, event) \subseteq ticker /\ ticker \subseteq 1..last
      BY DEF ShownBars
    <3> HIDE DEF shown
    <3>2. 1..last \subseteq 0..last
      OBVIOUS
    <3> QED
      BY <3>1, <3>2
  <2>3. shown \in ShownBars(ticker, early, event)
    BY <2>1, <2>2, GreatestBounds
  <2> QED
    BY <2>3 DEF ShownBars
<1>2. /\ Cardinality(S) \in Nat /\ days \in [1..Cardinality(S) -> S]
      /\ \A i, j \in 1..Cardinality(S) : i < j => days[i] < days[j]
  <2>1. S \in SUBSET (1..last)
    OBVIOUS
  <2> HIDE DEF S
  <2>2. /\ Cardinality(S) \in Nat
        /\ \E f \in [1..Cardinality(S) -> S] : \A i, j \in DOMAIN f : i < j => f[i] < f[j]
    BY <2>1, DaysAscend
  <2>3. days = CHOOSE f \in [1..Cardinality(S) -> S] : \A i, j \in DOMAIN f : i < j => f[i] < f[j]
    BY DEF CommonDays, S
  <2> HIDE DEF days
  <2> QED
    BY <2>2, <2>3
<1> DEFINE n == Cardinality(S)
<1>3. n \in Nat /\ DOMAIN days = 1..n /\ \A i \in 1..n : days[i] \in S /\ days[i] \in Nat
  <2>1. S \subseteq Nat
    OBVIOUS
  <2> HIDE DEF S, days
  <2> QED
    BY <1>2, <2>1
<1>4. /\ base \in {0} \cup Closed /\ \A i \in Closed : i <= base
  <2>1. Closed \subseteq 1..n
    BY <1>3
  <2>2. base = Max({0} \cup Closed)
    BY DEF BaseIndex
  <2> HIDE DEF Closed, base, n
  <2>3. {0} \cup Closed \in SUBSET (0..n) /\ {0} \cup Closed # {}
    BY <1>3, <2>1
  <2> DEFINE Starts == {0} \cup Closed
  <2> HIDE DEF Starts
  <2>4. Max(Starts) \in Starts /\ \A x \in Starts : x <= Max(Starts)
    BY <1>3, <2>3, GreatestBounds DEF Starts
  <2> QED
    BY <2>2, <2>4 DEF Starts
<1>5. Len(days) = n
  <2>1. days \in Seq(S)
    <3> HIDE DEF S, days
    <3>1. days \in [1..Cardinality(S) -> S] /\ Cardinality(S) \in Nat
      BY <1>2
    <3> QED
      BY <3>1
  <2>2. DOMAIN days = 1..Len(days) /\ Len(days) \in Nat
    BY <2>1
  <2> HIDE DEF days, n
  <2> QED
    BY <1>3, <2>2
<1>6. ASSUME outcome # None
      PROVE  /\ base # 0 /\ base + Max(horizons) <= Len(days)
             /\ outcome = [base |-> days[base], ends |-> [h \in horizons |-> days[base + h]]]
  <2>1. outcome = IF base = 0 \/ base - 1 < window \/ base + Max(horizons) > Len(days)
                  THEN None
                  ELSE [base |-> days[base], ends |-> [h \in horizons |-> days[base + h]]]
    BY DEF OutcomeDays
  <2>2. base \in Nat /\ Max(horizons) \in Nat /\ Len(days) \in Nat
    <3>1. horizons \in SUBSET (0..most)
      OBVIOUS
    <3>2. Max(horizons) \in 1..most
      BY <3>1, GreatestBounds
    <3>3. base \in Nat
      <4>1. Closed \subseteq 1..n
        BY <1>3
      <4> HIDE DEF Closed, base, n
      <4> QED
        BY <1>3, <1>4, <4>1
    <3> HIDE DEF base, days, n
    <3> QED
      BY <1>3, <1>5, <3>2, <3>3
  <2> HIDE DEF outcome, base, days
  <2> QED
    BY <1>6, <2>1, <2>2
<1> HIDE DEF days, base, n, S, outcome, shown
<1>7. ASSUME outcome # None
      PROVE  base \in 1..n /\ SessionClose(days[base], early) <= event
  BY <1>3, <1>4, <1>6, <1>7
<1>8. ASSUME outcome # None, NEW h \in horizons
      PROVE  /\ base + h \in 1..n /\ event < SessionClose(days[base + h], early)
  <2>1. horizons \in SUBSET (0..most)
    OBVIOUS
  <2>2. Max(horizons) \in 1..most /\ h <= Max(horizons) /\ h \in 1..most
    BY <2>1, GreatestBounds
  <2> DEFINE top == Max(horizons)
  <2>3. top \in Nat /\ h <= top /\ h \in Nat /\ h > 0 /\ base + top <= n
    BY <1>6, <1>5, <1>8, <2>2
  <2> HIDE DEF top
  <2>4. base \in 1..n /\ n \in Nat
    BY <1>3, <1>7, <1>8
  <2>5. base + h \in 1..n /\ base + 1 \in 1..n
    BY <2>3, <2>4
  <2>6. base + 1 \notin Closed
    BY <1>4, <2>4
  <2>7. PICK j \in 1..(base + 1) : ~(SessionClose(days[j], early) <= event)
    BY <1>3, <2>5, <2>6
  <2>8. j = base + 1
    <3>1. base \in Closed
      BY <1>4, <2>4
    <3>2. j \notin 1..base
      BY <2>7, <3>1
    <3> QED
      BY <2>4, <2>7, <3>2
  <2>9. days[base + 1] \in Nat /\ days[base + h] \in Nat
    BY <1>3, <2>5
  <2> DEFINE x == days[base + 1]
             y == days[base + h]
  <2>10. x = y \/ x < y
    <3>1. CASE h = 1
      BY <3>1
    <3>2. CASE h # 1
      <4>1. base + 1 < base + h
        BY <2>3, <2>4, <3>2
      <4> DEFINE n0 == Cardinality(S)
      <4>2. days[base + 1] < days[base + h]
        BY <1>2, <2>5, <4>1 DEF n
      <4> QED
        BY <4>2
    <3> QED
      BY <3>1, <3>2
  <2>11. SessionClose(x, early) > event
    <3>1. SessionClose(x, early) \in Nat
      BY <2>9 DEF SessionClose
    <3> QED
      BY <2>7, <2>8, <3>1
  <2>12. SessionClose(y, early) > event
    <3> HIDE DEF x, y
    <3>1. x \in Nat /\ y \in Nat
      BY <2>9 DEF x, y
    <3> QED
      BY <2>10, <2>11, <3>1 DEF SessionClose
  <2> QED
    BY <2>5, <2>12
<1>9. ASSUME outcome # None, NEW h \in horizons, shown # None
      PROVE  shown < days[base + h]
  <2>1. shown \in Nat /\ SessionClose(shown, early) <= event
    <3>1. shown \in ticker
      BY <1>1, <1>9
    <3>2. ticker \subseteq Nat
      OBVIOUS
    <3> QED
      BY <1>1, <1>9, <3>1, <3>2
  <2>2. days[base + h] \in Nat /\ event < SessionClose(days[base + h], early)
    BY <1>3, <1>8, <1>9
  <2>3. SessionClose(shown, early) < SessionClose(days[base + h], early)
    <3>1. SessionClose(shown, early) \in Nat /\ SessionClose(days[base + h], early) \in Nat
      BY <2>1, <2>2 DEF SessionClose
    <3> QED
      BY <2>1, <2>2, <3>1
  <2> QED
    BY <2>1, <2>2, <2>3, ClosesInOrder
<1>10. ASSUME outcome # None, NEW h \in horizons, NEW k \in horizons, h < k
       PROVE  days[base + h] < days[base + k]
  <2>1. base + h \in 1..n /\ base + k \in 1..n /\ base \in Nat
    BY <1>3, <1>7, <1>8, <1>10
  <2>2. horizons \subseteq Nat
    OBVIOUS
  <2>3. base + h < base + k
    BY <1>10, <2>1, <2>2
  <2> QED
    BY <1>2, <2>1, <2>3 DEF n
<1>11. ASSUME outcome # None
       PROVE  /\ shown \in ticker /\ SessionClose(shown, early) <= event
              /\ days[base] \in ticker \cap Nat /\ shown \in Nat /\ days[base] <= shown
  <2> DEFINE first == days[base]
             bars == ShownBars(ticker, early, event)
  <2>1. first \in ticker /\ first \in Nat /\ SessionClose(first, early) <= event
    <3>1. first \in S /\ first \in Nat /\ SessionClose(first, early) <= event
      BY <1>3, <1>7, <1>11
    <3> QED
      BY <3>1 DEF S
  <2> HIDE DEF first
  <2>2. first <= event \div 24
    <3>1. 24 * first <= event
      BY <2>1 DEF SessionClose
    <3> DEFINE q == event \div 24
    <3>2. q \in Nat /\ event < 24 * q + 24
      OBVIOUS
    <3> HIDE DEF q
    <3>3. first <= q
      BY <2>1, <3>1, <3>2
    <3> QED
      BY <3>3 DEF q
  <2>3. first \in bars
    BY <2>1, <2>2 DEF ShownBars
  <2>4. bars \subseteq ticker /\ \A d \in bars : SessionClose(d, early) <= event
    BY DEF ShownBars
  <2>5. shown = Max(bars)
    <3> HIDE DEF bars
    <3>1. bars # {}
      BY <2>3
    <3> QED
      BY <3>1 DEF FixtureBar, shown, bars
  <2> HIDE DEF bars
  <2>6. bars \in SUBSET (0..last) /\ bars # {}
    <3>1. ticker \subseteq 0..last
      OBVIOUS
    <3> QED
      BY <2>3, <2>4, <3>1
  <2>7. shown \in bars /\ \A x \in bars : x <= shown
    BY <2>5, <2>6, GreatestBounds
  <2>8. shown \in Nat
    BY <2>6, <2>7
  <2> QED
    BY <2>1, <2>3, <2>4, <2>7, <2>8 DEF first
<1>12. ASSUME outcome # None, ticker \subseteq benchmark
       PROVE  days[base] = shown
  <2>1. S = ticker /\ S \in SUBSET (1..last)
    BY <1>12 DEF S
  <2>2. PICK j \in 1..n : days[j] = shown
    <3>1. shown \in S
      BY <1>11, <1>12, <2>1
    <3>2. S \in SUBSET Nat /\ IsFiniteSet(S)
      BY <2>1
    <3> HIDE <1>0
    <3> QED
      BY <1>2, <3>1, <3>2, EveryDayIsListed DEF n
  <2>3. j \in Closed
    <3> SUFFICES ASSUME NEW i \in 1..j
                 PROVE  SessionClose(days[i], early) <= event
      BY <1>3, <2>2
    <3> DEFINE x == days[i]
    <3>1. i \in 1..n /\ j \in 1..n /\ i <= j
      BY <1>3, <2>2
    <3>2. x \in Nat /\ shown \in Nat /\ x <= shown
      <4>1. x \in Nat /\ shown \in Nat
        BY <1>3, <1>11, <1>12, <3>1
      <4>2. i = j \/ i < j
        BY <3>1
      <4>3. x = shown \/ x < shown
        BY <1>2, <2>2, <3>1, <4>2 DEF n
      <4> HIDE DEF x
      <4> QED
        BY <4>1, <4>3
    <3>3. SessionClose(shown, early) <= event
      BY <1>11, <1>12
    <3> HIDE DEF x
    <3>4. SessionClose(x, early) <= event
      BY <3>2, <3>3 DEF SessionClose
    <3> QED
      BY <3>4 DEF x
  <2>4. j <= base
    BY <1>4, <2>3
  <2>5. shown <= days[base]
    <3>1. base \in 1..n /\ j \in 1..n
      BY <1>7, <1>12
    <3>2. j = base \/ j < base
      BY <1>3, <2>4, <3>1
    <3>3. shown = days[base] \/ shown < days[base]
      BY <1>2, <2>2, <3>1, <3>2 DEF n
    <3> DEFINE first == days[base]
    <3>4. first \in Nat /\ shown \in Nat
      BY <1>11, <1>12
    <3> HIDE DEF first
    <3>5. shown = first \/ shown < first
      BY <3>3 DEF first
    <3>6. shown <= first
      BY <3>4, <3>5
    <3> QED
      BY <3>6 DEF first
  <2> DEFINE first == days[base]
  <2>6. first \in Nat /\ shown \in Nat /\ first <= shown /\ shown <= first
    BY <1>11, <1>12, <2>5
  <2> HIDE DEF first
  <2>7. first = shown
    BY <2>6
  <2> QED
    BY <2>7 DEF first
<1>13. outcome # None =>
         /\ outcome.base \in S /\ SessionClose(outcome.base, early) <= event
         /\ \A h \in horizons : /\ outcome.ends[h] \in S
                                /\ event < SessionClose(outcome.ends[h], early)
                                /\ shown # None => shown < outcome.ends[h]
                                /\ \A k \in horizons : h < k => outcome.ends[h] < outcome.ends[k]
         /\ outcome.base <= shown
         /\ ticker \subseteq benchmark => outcome.base = shown
  <2> SUFFICES ASSUME outcome # None
               PROVE  /\ outcome.base \in S /\ SessionClose(outcome.base, early) <= event
                      /\ \A h \in horizons :
                           /\ outcome.ends[h] \in S
                           /\ event < SessionClose(outcome.ends[h], early)
                           /\ shown # None => shown < outcome.ends[h]
                           /\ \A k \in horizons : h < k => outcome.ends[h] < outcome.ends[k]
                      /\ outcome.base <= shown
                      /\ ticker \subseteq benchmark => outcome.base = shown
    OBVIOUS
  <2>1. outcome.base = days[base] /\ \A h \in horizons : outcome.ends[h] = days[base + h]
    BY <1>6
  <2>2. days[base] \in S /\ \A h \in horizons : days[base + h] \in S
    BY <1>3, <1>7, <1>8
  <2>3. \A h, k \in horizons : h < k => days[base + h] < days[base + k]
    BY <1>10
  <2> QED
    BY <1>7, <1>8, <1>9, <1>11, <1>12, <2>1, <2>2, <2>3
<1> QED
  BY <1>1, <1>13 DEF outcome, shown, S, LieAhead

\* Of the headlines before an event the most recent ones are shown, as many as
\* may be: none that is left out was published later than one that is shown.
LEMMA MostRecentAreShown ==
  ASSUME NEW published \in Seq(Int), NEW event, NEW most \in Nat
  PROVE  LET before == {i \in DOMAIN published : published[i] < event}
             eligible == EligibleHeadlines(published, event, most)
         IN  /\ eligible \subseteq before /\ Cardinality(eligible) = Min({most, Cardinality(before)})
             /\ \A i \in eligible, j \in before \ eligible : published[j] <= published[i]
<1> DEFINE before == {i \in DOMAIN published : published[i] < event}
           eligible == EligibleHeadlines(published, event, most)
           After(j, i) == published[j] > published[i] \/ (published[j] = published[i] /\ j > i)
           Later(i) == {j \in before : After(j, i)}
           rank == [i \in before |-> Cardinality(Later(i))]
           n == Cardinality(before)
           m == IF most < n THEN most ELSE n
           Ranks == 0..n - 1
           First == 0..m - 1
<1>1. \A i \in before : i \in Nat /\ published[i] \in Int
  <2>1. DOMAIN published = 1..Len(published) /\ Len(published) \in Nat
    OBVIOUS
  <2> QED
    BY <2>1
<1>2. IsFiniteSet(before) /\ n \in Nat
  <2> DEFINE All == 1..Len(published)
  <2>1. IsFiniteSet(All) /\ before \in SUBSET All
    BY FS_Interval
  <2> HIDE DEF All, before
  <2> QED
    BY <2>1, FS_Subset, FS_CardinalityType
<1>3. \A i \in before : Later(i) \in SUBSET before /\ IsFiniteSet(Later(i)) /\ Cardinality(Later(i)) \in Nat
  <2> SUFFICES ASSUME NEW i \in before
               PROVE  Later(i) \in SUBSET before /\ IsFiniteSet(Later(i)) /\ Cardinality(Later(i)) \in Nat
    OBVIOUS
  <2>1. Later(i) \in SUBSET before
    OBVIOUS
  <2> HIDE DEF Later, before
  <2> QED
    BY <1>2, <2>1, FS_Subset, FS_CardinalityType
<1>4. \A i \in before : i \notin Later(i)
  BY <1>1
<1>5. \A i, j \in before : After(j, i) => rank[j] < rank[i]
  <2> SUFFICES ASSUME NEW i \in before, NEW j \in before, After(j, i)
               PROVE  Cardinality(Later(j)) < Cardinality(Later(i))
    OBVIOUS
  <2>1. Later(j) \subseteq Later(i)
    BY <1>1
  <2>2. j \in Later(i) /\ j \notin Later(j)
    BY <1>4
  <2> HIDE DEF Later, before, After
  <2>3. IsFiniteSet(Later(i)) /\ Cardinality(Later(i)) \in Nat /\ Cardinality(Later(j)) \in Nat
    BY <1>3
  <2>4. Cardinality(Later(j)) <= Cardinality(Later(i)) /\ Cardinality(Later(i)) # Cardinality(Later(j))
    BY <2>1, <2>2, <2>3, FS_Subset
  <2> QED
    BY <2>3, <2>4
<1>6. \A i, j \in before : i = j \/ After(i, j) \/ After(j, i)
  BY <1>1
<1>7. \A i \in before : rank[i] \in Ranks
  <2> SUFFICES ASSUME NEW i \in before
               PROVE  Cardinality(Later(i)) \in Ranks
    OBVIOUS
  <2> DEFINE Others == before \ {i}
  <2>1. IsFiniteSet(Others) /\ Cardinality(Others) = n - 1
    <3> HIDE DEF before
    <3> QED
      BY <1>2, FS_RemoveElement
  <2>2. Later(i) \in SUBSET Others
    BY <1>4
  <2>3. Cardinality(Later(i)) \in Nat
    BY <1>3
  <2> HIDE DEF Later, Others
  <2>4. Cardinality(Later(i)) <= Cardinality(Others)
    BY <2>1, <2>2, FS_Subset
  <2> HIDE DEF before, n
  <2> QED
    BY <1>2, <2>1, <2>3, <2>4
<1>8. \A i, j \in before : rank[i] = rank[j] => i = j
  <2> HIDE DEF rank, After, before
  <2>1. \A i \in before : rank[i] \in Int
    BY <1>7
  <2> QED
    BY <1>5, <1>6, <2>1
<1>9. IsFiniteSet(Ranks) /\ Cardinality(Ranks) = n
  <2> HIDE DEF n
  <2>1. IsFiniteSet(0..n - 1) /\ Cardinality(0..n - 1) = IF 0 > n - 1 THEN 0 ELSE n - 1 - 0 + 1
    BY <1>2, FS_Interval
  <2> QED
    BY <1>2, <2>1
<1>10. \A r \in Ranks : \E i \in before : rank[i] = r
  <2>1. rank \in [before -> Ranks]
    <3> DEFINE f == rank
    <3>1. f = [i \in before |-> f[i]] /\ \A i \in before : f[i] \in Ranks
      BY <1>7
    <3> HIDE DEF f, before, Ranks
    <3>2. f \in [before -> Ranks]
      BY <3>1
    <3> QED
      BY <3>2 DEF f
  <2>2. rank \in Injection(before, Ranks)
    <3> HIDE DEF rank, before, Ranks
    <3> QED
      BY <1>8, <2>1, Fun_IsInj
  <2>3. rank \in Surjection(before, Ranks)
    <3> HIDE DEF rank, before, Ranks
    <3> QED
      BY <1>9, <2>2, FS_Injection
  <2> HIDE DEF rank, before, Ranks
  <2> QED
    BY <2>3 DEF Surjection
<1>11. eligible = {i \in before : rank[i] < most}
  BY DEF EligibleHeadlines
<1>12. m \in Nat /\ m <= n /\ Min({most, n}) = m
  <2> HIDE DEF n
  <2>1. m \in Nat /\ m <= n /\ m \in {most, n} /\ \A x \in {most, n} : m <= x
    BY <1>2
  <2>2. \A y \in {most, n} : (\A x \in {most, n} : y <= x) => y = m
    BY <1>2
  <2> HIDE DEF m
  <2> QED
    BY <2>1, <2>2 DEF Min
<1>13. \A i \in before : i \in eligible <=> rank[i] \in First
  <2> HIDE DEF rank, before, n, eligible
  <2> QED
    BY <1>2, <1>7, <1>11
<1>14. eligible \subseteq before
  <2> HIDE DEF rank, before, eligible
  <2> QED
    BY <1>11
<1>15. IsFiniteSet(First) /\ Cardinality(First) = m /\ First \subseteq Ranks
  <2> HIDE DEF m, n
  <2>1. IsFiniteSet(0..m - 1) /\ Cardinality(0..m - 1) = IF 0 > m - 1 THEN 0 ELSE m - 1 - 0 + 1
    BY <1>12, FS_Interval
  <2> QED
    BY <1>2, <1>12, <2>1
<1>16. Cardinality(eligible) = m
  <2> DEFINE f == [i \in eligible |-> rank[i]]
  <2> HIDE DEF rank, before, eligible, First, Ranks, m
  <2>1. \A i \in eligible : f[i] \in First
    BY <1>13, <1>14
  <2>2. f \in Injection(eligible, First)
    <3>1. f \in [eligible -> First]
      BY <2>1
    <3>2. \A i, j \in eligible : f[i] = f[j] => i = j
      BY <1>8, <1>14
    <3> HIDE DEF f
    <3> QED
      BY <3>1, <3>2, Fun_IsInj
  <2>3. f \in Surjection(eligible, First)
    <3>1. \A r \in First : \E i \in eligible : f[i] = r
      BY <1>10, <1>13, <1>15
    <3>2. f \in [eligible -> First]
      BY <2>1
    <3> HIDE DEF f
    <3> QED
      BY <3>1, <3>2, Fun_IsSurj
  <2> HIDE DEF f
  <2>4. Cardinality(eligible) = Cardinality(First)
    BY <1>15, <2>2, <2>3, FS_Injection
  <2> QED
    BY <1>15, <2>4
<1>17. \A i \in eligible, j \in before \ eligible : published[j] <= published[i]
  <2> SUFFICES ASSUME NEW i \in eligible, NEW j \in before \ eligible
               PROVE  published[j] <= published[i]
    OBVIOUS
  <2>1. i \in before /\ j \in before /\ rank[i] < most /\ ~(rank[j] < most)
    <3> HIDE DEF rank, before, eligible
    <3> QED
      BY <1>11
  <2>2. ~(rank[j] < rank[i])
    <3>1. rank[i] \in Int /\ rank[j] \in Int
      <4> HIDE DEF rank, before
      <4> QED
        BY <1>7, <2>1
    <3> HIDE DEF rank, before
    <3> QED
      BY <2>1, <3>1
  <2>3. ~After(j, i)
    <3> HIDE DEF rank, before, After
    <3> QED
      BY <1>5, <2>1, <2>2
  <2>4. published[i] \in Int /\ published[j] \in Int
    BY <1>1, <2>1
  <2> QED
    BY <2>3, <2>4
<1> QED
  <2> HIDE DEF m
  <2> QED
    BY <1>12, <1>14, <1>16, <1>17

\* The early close of November is the day after its fourth Thursday.
LEMMA FridayAfterThanksgiving ==
  ASSUME NEW first \in 0..6, NEW day \in 1..30
  PROVE  LET Thursdays == {d \in 1..day - 1 : Weekday(first, d) = 3} IN
         IsEarlyClose(11, day, first) <=> (day - 1 \in Thursdays /\ Cardinality(Thursdays) = 4)
<1> DEFINE Thursdays == {d \in 1..day - 1 : Weekday(first, d) = 3}
           start == 1 + ((3 - first) % 7)
<1>1. start \in 1..7 /\ \A d \in Int : (first + d - 1) % 7 = 3 <=> (d - start) % 7 = 0
  <2>1. \A a, b \in Int : (a + 7 * b) % 7 = a % 7
    OBVIOUS
  <2> DEFINE r == (3 - first) % 7
             q == (3 - first) \div 7
  <2>2. r \in 0..6 /\ q \in Int /\ 3 - first = 7 * q + r
    OBVIOUS
  <2> HIDE DEF r, q
  <2>3. ASSUME NEW d \in Int
        PROVE  (first + d - 1) % 7 = 3 <=> (d - (1 + r)) % 7 = 0
    <3>1. first + d - 1 = (d - (1 + r)) + 3 - 7 * q
      BY <2>2
    <3> DEFINE x == d - (1 + r)
    <3>2. x \in Int /\ first + d - 1 = x + 3 - 7 * q
      BY <2>2, <3>1
    <3> HIDE DEF x
    <3>3. (x + 3 - 7 * q) % 7 = 3 <=> x % 7 = 0
      BY <2>2, <3>2
    <3> QED
      BY <3>2, <3>3 DEF x
  <2> QED
    BY <2>2, <2>3 DEF r
<1>2. IsEarlyClose(11, day, first) <=> day - 1 = start + 21
  <2>1. <<11, day>> \notin {<<7, 3>>, <<12, 24>>}
    OBVIOUS
  <2> HIDE DEF start
  <2>2. day = start + 21 + 1 <=> day - 1 = start + 21
    BY <1>1
  <2> QED
    BY <2>1, <2>2 DEF IsEarlyClose, start
<1> HIDE DEF start
<1>3. ASSUME NEW k \in Nat, day - 1 = start + 7 * k
      PROVE  Cardinality(Thursdays) = k + 1
  <2> DEFINE Weeks == 0..k
             thursday == [i \in Weeks |-> start + 7 * i]
  <2>1. IsFiniteSet(Weeks) /\ Cardinality(Weeks) = k + 1
    <3>1. IsFiniteSet(0..k) /\ Cardinality(0..k) = IF 0 > k THEN 0 ELSE k - 0 + 1
      BY FS_Interval
    <3> QED
      BY <3>1
  <2>2. \A i \in Weeks : thursday[i] \in Thursdays
    <3> SUFFICES ASSUME NEW i \in Weeks
                 PROVE  start + 7 * i \in Thursdays
      OBVIOUS
    <3>1. start + 7 * i \in 1..day - 1
      BY <1>1, <1>3
    <3>2. (start + 7 * i - start) % 7 = 0
      BY <1>1
    <3> DEFINE d == start + 7 * i
    <3>3. Weekday(first, d) = 3
      <4>1. d \in Int /\ (d - start) % 7 = 0
        BY <1>1, <3>2
      <4> HIDE DEF d
      <4> QED
        BY <1>1, <4>1 DEF Weekday
    <3> QED
      BY <3>1, <3>3
  <2>3. \A i, j \in Weeks : thursday[i] = thursday[j] => i = j
    BY <1>1
  <2>4. \A d \in Thursdays : \E i \in Weeks : thursday[i] = d
    <3> SUFFICES ASSUME NEW d \in Thursdays
                 PROVE  \E i \in Weeks : start + 7 * i = d
      OBVIOUS
    <3>1. d \in 1..day - 1 /\ (d - start) % 7 = 0
      BY <1>1 DEF Weekday
    <3>2. PICK i \in Int : d - start = 7 * i
      BY <1>1, <3>1
    <3>3. i \in Weeks /\ start + 7 * i = d
      BY <1>1, <1>3, <3>1, <3>2
    <3> QED
      BY <3>3
  <2>5. thursday \in [Weeks -> Thursdays]
    BY <2>2
  <2> HIDE DEF Weeks, thursday, Thursdays
  <2>6. thursday \in Surjection(Weeks, Thursdays) /\ thursday \in Injection(Weeks, Thursdays)
    BY <2>3, <2>4, <2>5, Fun_IsInj, Fun_IsSurj
  <2>7. Cardinality(Thursdays) = Cardinality(Weeks)
    BY <2>1, <2>6, FS_Surjection
  <2> QED
    BY <2>1, <2>7
<1>4. day - 1 \in Thursdays => \E k \in Nat : day - 1 = start + 7 * k
  <2> SUFFICES ASSUME day - 1 \in Thursdays
               PROVE  \E k \in Nat : day - 1 = start + 7 * k
    OBVIOUS
  <2>1. day - 1 \in Int /\ day - 1 >= 1 /\ (day - 1 - start) % 7 = 0
    BY <1>1 DEF Weekday
  <2>2. PICK i \in Int : day - 1 - start = 7 * i
    <3> DEFINE x == day - 1 - start
    <3>1. x \in Int /\ x % 7 = 0
      BY <1>1, <2>1
    <3> HIDE DEF x
    <3>2. x \div 7 \in Int /\ x = 7 * (x \div 7)
      BY <3>1
    <3> QED
      BY <3>2 DEF x
  <2>3. i \in Nat /\ day - 1 = start + 7 * i
    BY <1>1, <2>1, <2>2
  <2> QED
    BY <2>3
<1>5. day - 1 = start + 21 => day - 1 \in Thursdays
  <2> SUFFICES ASSUME day - 1 = start + 21
               PROVE  day - 1 \in Thursdays
    OBVIOUS
  <2>1. day - 1 \in 1..day - 1 /\ (day - 1 - start) % 7 = 0
    BY <1>1
  <2> QED
    BY <1>1, <2>1 DEF Weekday
<1> HIDE DEF Thursdays
<1>6. ASSUME day - 1 \in Thursdays, Cardinality(Thursdays) = 4
      PROVE  day - 1 = start + 21
  <2>1. PICK k \in Nat : day - 1 = start + 7 * k
    BY <1>4, <1>6
  <2>2. k + 1 = 4
    BY <1>3, <1>6, <2>1
  <2> QED
    BY <2>1, <2>2
<1>7. ASSUME day - 1 = start + 21
      PROVE  Cardinality(Thursdays) = 4
  <2>1. day - 1 = start + 7 * 3 /\ 3 \in Nat
    BY <1>7
  <2>2. Cardinality(Thursdays) = 3 + 1
    BY <1>3, <2>1
  <2> QED
    BY <2>2
<1>8. IsEarlyClose(11, day, first) <=> (day - 1 \in Thursdays /\ Cardinality(Thursdays) = 4)
  BY <1>2, <1>5, <1>6, <1>7
<1> QED
  BY <1>8 DEF Thursdays

\* What the fixture shows of an event had happened, and what the event is scored
\* on had not (eval/build_fixtures.py, evaluation.py compute_outcome): the last
\* bar shown and the session the returns start from had closed and, where the
\* benchmark has every session of the ticker, are one; every session a return
\* ends at closes after the event; of the headlines the most recent are shown;
\* and November's early close is found on the right day.  For all series, early
\* closes, hours of an event, horizons, headlines and limits on their number.
THEOREM NothingIsKnownAhead ==
  ASSUME Given("events") => OneEvent(input), Given("calendar") => OneDay(input)
  PROVE  NoLookAhead
<1>1. ASSUME Given("calendar")
      PROVE  LET Thursdays == {d \in 1..input.day - 1 : Weekday(input.first, d) = 3} IN
             IsEarlyClose(11, input.day, input.first) <=> (input.day - 1 \in Thursdays /\ Cardinality(Thursdays) = 4)
  <2>1. input.day \in 1..30 /\ input.first \in 0..6
    BY <1>1 DEF OneDay
  <2> QED
    BY <2>1, FridayAfterThanksgiving
<1>2. ASSUME Given("events")
      PROVE  LET before == {i \in DOMAIN input.published : input.published[i] < input.event}
                 eligible == EligibleHeadlines(input.published, input.event, input.most)
             IN  /\ eligible \subseteq before /\ Cardinality(eligible) = Min({input.most, Cardinality(before)})
                 /\ \A i \in eligible, j \in before \ eligible : input.published[j] <= input.published[i]
  BY <1>2, MostRecentAreShown DEF OneEvent
<1>3. ASSUME Given("events")
      PROVE  LET shown == FixtureBar(input.ticker, input.early, input.event)
                 outcome == OutcomeDays(input.ticker, input.benchmark, input.early, input.event, input.window, input.horizons)
             IN  /\ shown # None => SessionClose(shown, input.early) <= input.event
                 /\ outcome # None =>
                      /\ SessionClose(outcome.base, input.early) <= input.event
                      /\ \A h \in input.horizons :
                           /\ input.event < SessionClose(outcome.ends[h], input.early)
                           /\ \A k \in input.horizons : h < k => outcome.ends[h] < outcome.ends[k]
                      /\ outcome.base <= shown
                      /\ input.ticker \subseteq input.benchmark => outcome.base = shown
  <2>1. /\ input.ticker \in SUBSET (Nat \ {0}) /\ IsFiniteSet(input.ticker)
        /\ input.benchmark \in SUBSET (Nat \ {0}) /\ IsFiniteSet(input.benchmark)
        /\ input.horizons \in SUBSET (Nat \ {0}) /\ IsFiniteSet(input.horizons)
        /\ input.horizons # {} /\ input.event \in Nat /\ input.window \in Nat
    BY <1>3 DEF OneEvent
  <2> DEFINE ticker == input.ticker
             benchmark == input.benchmark
             early == input.early
             event == input.event
             window == input.window
             horizons == input.horizons
  <2>2. /\ ticker \in SUBSET (Nat \ {0}) /\ IsFiniteSet(ticker)
        /\ benchmark \in SUBSET (Nat \ {0}) /\ IsFiniteSet(benchmark)
        /\ horizons \in SUBSET (Nat \ {0}) /\ IsFiniteSet(horizons)
        /\ horizons # {} /\ event \in Nat /\ window \in Nat
    BY <2>1
  <2> HIDE DEF ticker, benchmark, early, event, window, horizons
  <2> DEFINE shown == FixtureBar(ticker, early, event)
             outcome == OutcomeDays(ticker, benchmark, early, event, window, horizons)
  <2>3. LieAhead(shown, outcome, ticker, benchmark, early, event, horizons)
    BY <2>2, OutcomesLieAhead
  <2>4. /\ shown # None => SessionClose(shown, early) <= event
        /\ outcome # None =>
             /\ SessionClose(outcome.base, early) <= event
             /\ \A h \in horizons :
                  /\ event < SessionClose(outcome.ends[h], early)
                  /\ \A later \in horizons : h < later => outcome.ends[h] < outcome.ends[later]
             /\ outcome.base <= shown
             /\ ticker \subseteq benchmark => outcome.base = shown
    <3> HIDE DEF shown, outcome
    <3> QED
      BY <2>3 DEF LieAhead
  <2> QED
    BY <2>4 DEF shown, outcome, ticker, benchmark, early, event, window, horizons
<1> QED
  BY <1>1, <1>2, <1>3 DEF NoLookAhead
=============================================================================
