------------------------ MODULE WebOperationsHistory ------------------------
(***************************************************************************)
(* WebOperations with what its properties need to know of the past: what   *)
(* the file held during a read, and whether settings were saved, or a      *)
(* model left loaded, at a moment for which nothing is promised.           *)
(***************************************************************************)
EXTENDS WebOperations

VARIABLES
  during,      \* the contents the file had since a task's read began
  overlapped,  \* two saves were ever under way at once
  late,        \* a settings request accepted before this run is in progress
  excused,     \* an unload before the rounds failed, or a test still called
  slipped      \* settings were saved since the advisory's last look at its gate

hvars == <<vars, during, overlapped, late, excused, slipped>>

HInit ==
  /\ Init /\ during = [t \in Tasks |-> {}]
  /\ overlapped = FALSE /\ late = FALSE /\ excused = FALSE /\ slipped = FALSE

Saving == {q \in Requests : at[q] \in {"put.write", "put.replace", "put.clean"}}
Putting == {q \in Requests : at[q] \in {"put.load", "put.open"}} \cup Saving
Testing == {q \in Requests : at[q] \in {"test.load", "test.orchestrator"}}
Advising == \E q \in Requests : at[q] \in {"advise.check", "advise.open"}
Opens == at[Run] = "idle" /\ at'[Run] = "open"
LeavesLoaded ==
  /\ at[Run] \in {"clean", "clean.unload"} /\ at'[Run] = "clean.unload"
  /\ IF at[Run] = "clean" THEN todo' # ToClean("worker") ELSE \E m \in todo \ todo' : m \in resident

HNext ==
  /\ Next
  /\ during' = [t \in Tasks |-> IF Reading(t)' THEN {Load, Load'} \cup (IF Reading(t) THEN during[t] ELSE {}) ELSE {}]
  /\ overlapped' = (overlapped \/ \E p, q \in Saving' : p # q)
  /\ late' = IF Opens THEN Putting' # {} ELSE late
  /\ excused' = IF Opens THEN Testing' # {} ELSE excused \/ Testing' # {} \/ LeavesLoaded
  /\ slipped' = IF Advising THEN slipped \/ Load' # Load ELSE slipped /\ \E q \in Requests : at'[q] = "advise.call"

HSpec == HInit /\ [][HNext]_hvars

-----------------------------------------------------------------------------
\* A save that is interrupted, by a full disk or a kill at any step, leaves a
\* whole configuration behind, as long as saves do not overlap
\* (inference/config.py:252).
StoredConfigWhole == ~overlapped => Load # Torn

\* What the runtime answers was in the file at some time during the call, also
\* when it comes from the cache (services/runtime.py:119).
AnswersAreFresh == \A t \in Tasks : Reading(t) => Answer(t) \in during[t]

\* Providers, controller, retry gate and provenance of a run come from one
\* configuration, unless a settings request was accepted before the run had
\* begun and saved afterwards (services/runtime.py:369).
RunUsesOneConfig ==
  ~late => \A u, v \in Uses : Nothing \notin {seen[u], seen[v]} => seen[u] = seen[v]

\* In the rounds of a local worker the orchestrator is not loaded, whatever was
\* loaded before, unless the server refused to unload or a connection test that
\* began before the run still calls it (ollama_models.py:7).
RoundsHoldOneModel ==
  at[Run] = "rounds" /\ Local("worker") /\ ~excused => "orchestrator" \notin resident

\* The gate is re-checked "right before any provider is built": unless settings
\* were saved after that look, the holdings only go to a local orchestrator
\* (services/advisory.py:184).
AdviceStaysLocal ==
  ~slipped => \A q \in Requests : at[q] = "advise.call" => work[q].provider = "ollama"

\* Whoever reads the configuration, of which there are a file, a cache and what
\* the awaits between two reads let in, acts on one that is whole and was current.
ConfigIsCurrent == StoredConfigWhole /\ AnswersAreFresh /\ RunUsesOneConfig /\ AdviceStaysLocal
=============================================================================
