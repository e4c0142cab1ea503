--------------------------- MODULE WebOperations ---------------------------
(***************************************************************************)
(* What the web process does with providers outside of the rounds: the     *)
(* settings requests, the interviews of one agent of one cycle, the        *)
(* advisory job, and a run that opens its providers and hands the local    *)
(* models over.  A check a settings or interview request makes on arrival  *)
(* is not repeated after its awaits; run start clears the interview        *)
(* sessions (web/routes/settings.py, web/routes/interview.py,              *)
(* interview.py, web/app.py, services/advisory.py, services/runtime.py,    *)
(* simulation.py).                                                         *)
(***************************************************************************)
EXTENDS ConfigFile, OllamaServer

CONSTANTS
  Requests,   \* each is made once
  Run,        \* the run, started again and again
  Updates,    \* the bodies of settings requests
  MaxCrashes  \* bound

ASSUME WebOperationsAssumption ==
  /\ Tasks = Requests \cup {Run} /\ Run \notin Requests
  /\ \A u \in Updates : \A r \in RoleNames \cap DOMAIN u :
       /\ "provider" \in DOMAIN u[r] => u[r].provider \in Providers
       /\ "url" \in DOMAIN u[r] => u[r].url \in Urls \cup {Nothing}

VARIABLES
  at,        \* where each task is
  work,      \* the configuration a request saves, or the role it called with
  running,   \* SimulationManager.is_running
  seen,      \* the configuration of each of the run's reads
  todo,      \* the models the run still has to unload
  asked,     \* the one of them it waits for
  session,   \* the request that made the entry in the session table
  entry,     \* the entry a request holds
  engine,    \* the request whose provider the entry's engine has
  talking,   \* the request that holds the entry's lock
  provider,  \* none, open, closing or closed: of the session built by a request
  crashes

sessionVars == <<session, entry, engine, talking, provider>>
runVars == <<running, seen, todo>>
vars == <<configVars, serverVars, at, work, runVars, asked, sessionVars, crashes>>

Uses == {"open", "control", "gate", "record"}
NothingSeen == [u \in Uses |-> Nothing]
NoOne == Nothing

Init ==
  /\ ConfigInit /\ ServerInit
  /\ at = [t \in Tasks |-> IF t = Run THEN "idle" ELSE "new"]
  /\ work = [q \in Requests |-> Nothing]
  /\ running = FALSE /\ seen = NothingSeen /\ todo = {} /\ asked = Nothing
  /\ session = NoOne
  /\ entry = [q \in Requests |-> NoOne]
  /\ engine = [e \in Requests |-> NoOne]
  /\ talking = [e \in Requests |-> NoOne]
  /\ provider = [q \in Requests |-> "none"]
  /\ crashes = 0

Goes(t, from, to) == at[t] = from /\ at' = [at EXCEPT ![t] = to]
Ends(q) == at' = [at EXCEPT ![q] = "done"]

-----------------------------------------------------------------------------
(* PUT /api/settings. *)

\* The guard of the settings and the interview routes.
Arrive(q, step) == ~running /\ Goes(q, "new", step)

Put(q) ==
  /\ Arrive(q, "put.load")
  /\ UNCHANGED <<configVars, serverVars, work, runVars, asked, sessionVars, crashes>>

PutMerge(q) ==
  /\ at[q] = "put.load"
  /\ IF Load = Torn THEN Ends(q) /\ UNCHANGED work
     ELSE /\ Goes(q, "put.load", "put.open")
          /\ \E u \in Updates : work' = [work EXCEPT ![q] = Merge(Load, u)]
  /\ UNCHANGED <<configVars, serverVars, runVars, asked, sessionVars, crashes>>

PutOpen(q) ==
  /\ Goes(q, "put.open", "put.write")
  /\ OpenTemporary(q)
  /\ UNCHANGED <<cached, stat, serverVars, work, runVars, asked, sessionVars, crashes>>

PutWrite(q) ==
  /\ at[q] = "put.write"
  /\ \E fails \in BOOLEAN :
       /\ WriteTemporary(q, work[q], fails)
       /\ Goes(q, "put.write", IF fails THEN "put.clean" ELSE "put.replace")
  /\ UNCHANGED <<cached, stat, serverVars, work, runVars, asked, sessionVars, crashes>>

PutReplace(q) ==
  /\ Goes(q, "put.replace", "put.clean")
  /\ IF CanReplace THEN Replace ELSE UNCHANGED fileVars
  /\ UNCHANGED <<cached, stat, serverVars, work, runVars, asked, sessionVars, crashes>>

PutClean(q) ==
  /\ Goes(q, "put.clean", "done")
  /\ RemoveTemporary(q)
  /\ work' = [work EXCEPT ![q] = Nothing]
  /\ UNCHANGED <<cached, stat, serverVars, runVars, asked, sessionVars, crashes>>

-----------------------------------------------------------------------------
(* POST /api/settings/test: a provider that is closed again in any case. *)

Test(q) ==
  /\ Arrive(q, "test.load")
  /\ UNCHANGED <<configVars, serverVars, work, runVars, asked, sessionVars, crashes>>

TestBuild(q) ==
  /\ at[q] = "test.load"
  /\ \E r \in RoleNames :
       IF Load # Torn /\ Buildable(Load[r])
       THEN /\ Goes(q, "test.load", IF r = "worker" THEN "test.worker" ELSE "test.orchestrator")
            /\ work' = [work EXCEPT ![q] = Load[r]]
            /\ provider' = [provider EXCEPT ![q] = "open"]
       ELSE Ends(q) /\ UNCHANGED <<work, provider>>
  /\ UNCHANGED <<configVars, serverVars, runVars, asked, session, entry, engine, talking, crashes>>

TestClose(q) ==
  /\ at[q] \in {"test.worker", "test.orchestrator"} /\ Ends(q)
  /\ provider' = [provider EXCEPT ![q] = "closed"]
  /\ work' = [work EXCEPT ![q] = Nothing]
  /\ UNCHANGED <<configVars, serverVars, runVars, asked, session, entry, engine, talking, crashes>>

-----------------------------------------------------------------------------
(* POST /api/interview/{agent}. *)

Interview(q) ==
  /\ Arrive(q, "ask.cycle")
  /\ UNCHANGED <<configVars, serverVars, work, runVars, asked, sessionVars, crashes>>

\* The cycle is complete; the entry is taken or put into the table at once.
FindEntry(q) ==
  /\ at[q] = "ask.cycle"
  /\ \/ /\ Goes(q, "ask.cycle", "ask.lock")
        /\ session' = IF session = NoOne THEN q ELSE session
        /\ entry' = [entry EXCEPT ![q] = session']
     \/ Ends(q) /\ UNCHANGED <<session, entry>>
  /\ UNCHANGED <<configVars, serverVars, work, runVars, asked, engine, talking, provider, crashes>>

Lock(q) ==
  LET e == entry[q] IN
  /\ at[q] = "ask.lock" /\ talking[e] = NoOne
  /\ talking' = [talking EXCEPT ![e] = q]
  /\ Goes(q, "ask.lock", IF engine[e] = NoOne THEN "ask.context" ELSE "ask.turn")
  /\ UNCHANGED <<configVars, serverVars, work, runVars, asked, session, entry, engine, provider, crashes>>

\* load_interview_context; then open_role asks for the configuration.
ReadContext(q) ==
  /\ Goes(q, "ask.context", "ask.config")
  /\ TakeKey(q)
  /\ UNCHANGED <<serverVars, work, runVars, asked, sessionVars, crashes>>

\* The request lets its entry go.
Unlock(q) ==
  /\ talking' = [talking EXCEPT ![entry[q]] = NoOne]
  /\ entry' = [entry EXCEPT ![q] = NoOne]

\* Bug: a provider that no session has got yet is left open.
GiveUpOnly(q) ==
  /\ Ends(q) /\ Unlock(q)
  /\ session' = IF session = entry[q] THEN NoOne ELSE session
  /\ UNCHANGED <<work, engine, provider>>

\* The except BaseException of the route.
GiveUp(q) ==
  /\ Ends(q) /\ Unlock(q)
  /\ session' = IF session = entry[q] THEN NoOne ELSE session
  /\ provider' = [provider EXCEPT ![q] = IF @ = "open" THEN "closed" ELSE @]
  /\ work' = [work EXCEPT ![q] = Nothing]
  /\ UNCHANGED engine

OpenRole(q) ==
  /\ at[q] = "ask.config"
  /\ KeepAnswer(q)
  /\ IF Answer(q) # Torn /\ Buildable(Answer(q).worker)
     THEN /\ Goes(q, "ask.config", "ask.narrative")
          /\ work' = [work EXCEPT ![q] = Answer(q).worker]
          /\ provider' = [provider EXCEPT ![q] = "open"]
          /\ UNCHANGED <<session, entry, engine, talking>>
     ELSE GiveUp(q)
  /\ UNCHANGED <<serverVars, runVars, asked, crashes>>

\* ensure_decision_narrative went through, with or without a narrative.
KeepEngine(q) ==
  /\ Goes(q, "ask.narrative", "ask.turn")
  /\ engine' = [engine EXCEPT ![entry[q]] = q]
  /\ UNCHANGED <<configVars, serverVars, work, runVars, asked, session, entry, talking, provider, crashes>>

\* A failed read, a hard stop of the narrative's call, a cancellation.
InterviewFails(q) ==
  /\ at[q] \in {"ask.context", "ask.narrative"}
  /\ GiveUp(q)
  /\ UNCHANGED <<configVars, serverVars, runVars, asked, crashes>>

\* engine.ask answers or fails: the session stays.
Turn(q) ==
  /\ Goes(q, "ask.turn", "done") /\ Unlock(q)
  /\ UNCHANGED <<configVars, serverVars, work, runVars, asked, session, engine, provider, crashes>>

\* A close task of make_session_clearer.
CloseTask(q) ==
  /\ provider[q] = "closing"
  /\ provider' = [provider EXCEPT ![q] = "closed"]
  /\ UNCHANGED <<configVars, serverVars, at, work, runVars, asked, session, entry, engine, talking, crashes>>

-----------------------------------------------------------------------------
(* POST /api/advisory/{cycle}, and its job, of which there is one at a time. *)
(* No stored configuration has allow_cloud_advisory: the orchestrator has to *)
(* be local.  A job of the other kind, the report, is left out.              *)

JobSteps == {"advise.lock", "advise.check", "advise.open", "advise.call", "advise.unload"}
OrchestratorBusy == \E q \in Requests : at[q] \in JobSteps

\* advisory_block_reason.
StaysLocal(config) == config # Torn /\ config.orchestrator.provider = "ollama"

Advise(q) ==
  /\ Arrive(q, "advise.cycle")
  /\ UNCHANGED <<configVars, serverVars, work, runVars, asked, sessionVars, crashes>>

\* The cycle is complete: the gate asks for the configuration.
AdviseGate(q) ==
  /\ \/ Goes(q, "advise.cycle", "advise.gate") /\ TakeKey(q)
     \/ at[q] = "advise.cycle" /\ Ends(q) /\ UNCHANGED configVars
  /\ UNCHANGED <<serverVars, work, runVars, asked, sessionVars, crashes>>

\* There are holdings, no run has begun and no job runs: the job starts.
AdviseStart(q) ==
  /\ at[q] = "advise.gate"
  /\ KeepAnswer(q)
  /\ \/ StaysLocal(Answer(q)) /\ ~running /\ ~OrchestratorBusy /\ Goes(q, "advise.gate", "advise.lock")
     \/ Ends(q)
  /\ UNCHANGED <<serverVars, work, runVars, asked, sessionVars, crashes>>

\* generate, under the orchestrator lock: the check again, then the holdings,
\* the server's word for the model, and the sector map.
AdviseCheck(q) ==
  /\ Goes(q, "advise.lock", "advise.check")
  /\ TakeKey(q)
  /\ UNCHANGED <<serverVars, work, runVars, asked, sessionVars, crashes>>

AdviseAllowed(q) ==
  /\ at[q] = "advise.check"
  /\ KeepAnswer(q)
  /\ \/ StaysLocal(Answer(q)) /\ Goes(q, "advise.check", "advise.open")
     \/ Ends(q)
  /\ UNCHANGED <<serverVars, work, runVars, asked, sessionVars, crashes>>

\* open_operation: both providers, from the configuration of now.
AdviseAsk(q) ==
  /\ at[q] = "advise.open" /\ ~Reading(q)
  /\ TakeKey(q)
  /\ UNCHANGED <<serverVars, at, work, runVars, asked, sessionVars, crashes>>

AdviseOpen(q) ==
  /\ at[q] = "advise.open"
  /\ KeepAnswer(q)
  /\ IF Answer(q) # Torn /\ \A r \in RoleNames : Buildable(Answer(q)[r])
     THEN /\ Goes(q, "advise.open", "advise.call")
          /\ work' = [work EXCEPT ![q] = Answer(q).orchestrator]
          /\ provider' = [provider EXCEPT ![q] = "open"]
     ELSE Ends(q) /\ UNCHANGED <<work, provider>>
  /\ UNCHANGED <<serverVars, runVars, asked, session, entry, engine, talking, crashes>>

\* close_operation: a local orchestrator is unloaded, if the server takes it.
AdviseClose(q) ==
  /\ at[q] = "advise.call"
  /\ \/ work[q].provider = "ollama" /\ Goes(q, "advise.call", "advise.unload") /\ AskUnload("orchestrator")
     \/ Ends(q) /\ UNCHANGED serverVars
  /\ provider' = [provider EXCEPT ![q] = "closed"]
  /\ work' = [work EXCEPT ![q] = Nothing]
  /\ UNCHANGED <<configVars, runVars, asked, session, entry, engine, talking, crashes>>

\* The model is gone, or 30 seconds passed.
AdviseEnds(q) ==
  /\ Goes(q, "advise.unload", "done")
  /\ UNCHANGED <<configVars, serverVars, work, runVars, asked, sessionVars, crashes>>

-----------------------------------------------------------------------------
(* The run: start, open_simulation, and the models up to the rounds. *)

\* Only a provider that its entry already names can be closed.
ClearSessions ==
  /\ session' = NoOne
  /\ provider' = [q \in Requests |->
                    IF session # NoOne /\ engine[session] = q THEN "closing" ELSE provider[q]]
  /\ UNCHANGED <<entry, engine, talking>>

\* start: its locks are free, so its awaits do not suspend it.
Start ==
  /\ ~running /\ ~OrchestratorBusy /\ Goes(Run, "idle", "open")
  /\ ClearSessions
  /\ running' = TRUE
  /\ UNCHANGED <<configVars, serverVars, work, seen, todo, asked, crashes>>

AskConfig ==
  /\ at[Run] \in Uses /\ ~Reading(Run)
  /\ TakeKey(Run)
  /\ UNCHANGED <<serverVars, at, work, runVars, asked, sessionVars, crashes>>

\* What follows each read; only a rate-limited worker needs the gate.
Local(role) == seen["open"][role].provider = "ollama"
After(u, config) ==
  CASE u = "open" -> "control"
    [] u = "control" -> IF config.worker.provider = "ollama" THEN "record" ELSE "gate"
    [] u = "gate" -> "record"
    [] u = "record" -> IF Local("orchestrator") THEN "seed" ELSE "clean"

RunEnds ==
  /\ at' = [at EXCEPT ![Run] = "idle"]
  /\ running' = FALSE /\ seen' = NothingSeen /\ todo' = {}

ReadConfig ==
  /\ at[Run] \in Uses /\ Reading(Run)
  /\ KeepAnswer(Run)
  /\ IF Answer(Run) # Torn /\ (at[Run] = "open" => \A r \in RoleNames : Buildable(Answer(Run)[r]))
     THEN /\ seen' = [seen EXCEPT ![at[Run]] = Answer(Run)]
          /\ at' = [at EXCEPT ![Run] = After(at[Run], Answer(Run))]
          /\ UNCHANGED <<running, todo>>
     ELSE RunEnds
  /\ UNCHANGED <<serverVars, work, asked, sessionVars, crashes>>

\* inject_seed: the orchestrator is loaded, used and torn down.
LoadOrchestrator ==
  /\ Goes(Run, "seed", "seed.unload")
  /\ Chat("orchestrator")
  /\ todo' = {"orchestrator"}
  /\ UNCHANGED <<configVars, work, running, seen, asked, sessionVars, crashes>>

\* Worker.prepare lists what is resident, if the server answers.
StartCleaning ==
  /\ at[Run] = "clean"
  /\ IF Local("worker")
     THEN Goes(Run, "clean", "clean.unload") /\ todo' \in {ToClean("worker"), {}}
     ELSE Goes(Run, "clean", "rounds") /\ UNCHANGED todo
  /\ UNCHANGED <<configVars, serverVars, work, running, seen, asked, sessionVars, crashes>>

\* The rounds are over or failed.
EndRounds ==
  /\ Goes(Run, "rounds", "end.unload")
  /\ todo' = IF Local("worker") THEN {"worker"} ELSE {}
  /\ UNCHANGED <<configVars, serverVars, work, running, seen, asked, sessionVars, crashes>>

\* unload_model, for each: the request, then ps until the model is gone.
Unloading == at[Run] \in {"seed.unload", "clean.unload", "end.unload"}

AskNext(m) ==
  /\ Unloading /\ asked = Nothing /\ m \in todo
  /\ AskUnload(m)
  /\ asked' = m
  /\ UNCHANGED <<configVars, at, work, runVars, sessionVars, crashes>>

Settled ==
  /\ asked # Nothing /\ asked \notin resident
  /\ todo' = todo \ {asked} /\ asked' = Nothing
  /\ UNCHANGED <<configVars, serverVars, at, work, running, seen, sessionVars, crashes>>

\* The request failed, or 30 seconds passed: a warning.
GivesUp(m) ==
  /\ Unloading /\ m \in todo /\ asked \in {Nothing, m}
  /\ todo' = todo \ {m} /\ asked' = Nothing
  /\ UNCHANGED <<configVars, serverVars, at, work, running, seen, sessionVars, crashes>>

\* A failure while seeding ends the run once the orchestrator is unloaded.
UnloadsDone ==
  /\ Unloading /\ todo = {} /\ asked = Nothing
  /\ \/ Goes(Run, "seed.unload", "clean") /\ UNCHANGED <<runVars, serverVars>>
     \/ Goes(Run, "clean.unload", "rounds") /\ Chat("worker") /\ UNCHANGED runVars
     \/ RunEnds /\ UNCHANGED serverVars
  /\ UNCHANGED <<configVars, work, asked, sessionVars, crashes>>

\* The preflight, the provenance, the graph or a load fails, or the run is
\* stopped, with no model to unload.
RunFails ==
  /\ at[Run] \in {"control", "gate", "record", "seed", "clean"} /\ ~Reading(Run)
  /\ RunEnds
  /\ UNCHANGED <<configVars, serverVars, work, asked, sessionVars, crashes>>

-----------------------------------------------------------------------------
(* The server takes a chat request at any time while its caller waits. *)

Awaited(t) ==
  CASE at[t] = "test.orchestrator" \/ at[t] = "advise.call" -> {"orchestrator"}
    [] at[t] = "test.worker" -> {"worker"}
    [] at[t] = "ask.narrative" \/ at[t] = "ask.turn" -> {"worker"}
    [] OTHER -> {}

RoleOf(t) == IF at[t] = "ask.turn" THEN work[engine[entry[t]]] ELSE work[t]

ServerTakes(q, m) ==
  /\ m \in Awaited(q) /\ RoleOf(q).provider = "ollama"
  /\ Chat(m)
  /\ UNCHANGED <<configVars, at, work, runVars, asked, sessionVars, crashes>>

ServerFrees(m) ==
  /\ ~(at[Run] = "rounds" /\ m = "worker")
  /\ Free(m)
  /\ UNCHANGED <<configVars, at, work, runVars, asked, sessionVars, crashes>>

\* The process is killed and started again: the files and the server stay.
Crash ==
  /\ crashes < MaxCrashes
  /\ crashes' = crashes + 1
  /\ at' = [t \in Tasks |-> IF t = Run THEN "idle" ELSE IF at[t] = "new" THEN "new" ELSE "done"]
  /\ handle' = [t \in Tasks |-> NoFile] /\ stat' = [t \in Tasks |-> Nothing] /\ cached' = NoCache
  /\ running' = FALSE /\ seen' = NothingSeen /\ todo' = {} /\ asked' = Nothing
  /\ session' = NoOne /\ entry' = [q \in Requests |-> NoOne]
  /\ engine' = [e \in Requests |-> NoOne] /\ talking' = [e \in Requests |-> NoOne]
  /\ provider' = [q \in Requests |-> IF provider[q] = "none" THEN "none" ELSE "closed"]
  /\ work' = [q \in Requests |-> Nothing]
  /\ UNCHANGED <<path, tmp, content, writes, serverVars>>

RequestStep(q) ==
  \/ Put(q) \/ PutMerge(q) \/ PutOpen(q) \/ PutWrite(q) \/ PutReplace(q) \/ PutClean(q)
  \/ Test(q) \/ TestBuild(q) \/ TestClose(q)
  \/ Interview(q) \/ FindEntry(q) \/ Lock(q) \/ ReadContext(q) \/ OpenRole(q) \/ KeepEngine(q)
  \/ InterviewFails(q) \/ Turn(q) \/ CloseTask(q)
  \/ Advise(q) \/ AdviseGate(q) \/ AdviseStart(q) \/ AdviseCheck(q) \/ AdviseAllowed(q)
  \/ AdviseAsk(q) \/ AdviseOpen(q) \/ AdviseClose(q) \/ AdviseEnds(q)

RunStep ==
  \/ Start \/ AskConfig \/ ReadConfig \/ LoadOrchestrator \/ StartCleaning
  \/ EndRounds \/ Settled \/ UnloadsDone \/ RunFails
  \/ \E m \in Models : AskNext(m) \/ GivesUp(m)

Next ==
  \/ \E q \in Requests : RequestStep(q) \/ \E m \in Models : ServerTakes(q, m)
  \/ RunStep
  \/ \E m \in Models : ServerFrees(m)
  \/ Crash

Spec == Init /\ [][Next]_vars

-----------------------------------------------------------------------------
\* A key is only ever used at the endpoint it was entered for, whatever was
\* changed before, and in whichever order the requests saved
\* (web/routes/settings.py:229).
KeysStayWithEndpoint ==
  LET Used == {work[q] : q \in {p \in Requests : provider[p] = "open"}}
              \cup {seen["open"][r] : r \in {n \in RoleNames : seen["open"] # Nothing}}
  IN  \A role \in Used : role.provider # "ollama" => role.key = Endpoint(role)

\* A provider that is open is in the hands of its request or of the session
\* table, unless its entry lost its place in the table while a request still
\* held it (web/routes/interview.py:127).
ProvidersOwned ==
  \A q \in Requests :
    provider[q] = "open" =>
      \/ at[q] \in {"ask.narrative", "ask.turn", "test.worker", "test.orchestrator", "advise.call"}
      \/ \E e \in Requests : engine[e] = q
=============================================================================
