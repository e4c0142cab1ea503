------------------------ MODULE WebOperationsProofs ------------------------
(***************************************************************************)
(* Proofs about the web process's providers, configuration and models, for *)
(* any number of requests, any configurations and any updates.             *)
(***************************************************************************)
EXTENDS WebOperationsHistory, TLAPS

\* What identifies a state of the file: _file_key.
Keys == (Inodes \X Nat) \cup {<<NoFile, 0>>, Nothing}

FileType ==
  /\ path \in Inodes \cup {NoFile} /\ tmp \in Inodes \cup {NoFile}
  /\ content \in [Inodes -> Configs \cup {Empty, Torn}] /\ writes \in [Inodes -> Nat]
  /\ handle \in [Tasks -> Inodes \cup {NoFile}]

CacheType ==
  /\ cached \in [key : Keys, config : Configs \cup {Nothing}]
  /\ stat \in [Tasks -> Keys]

\* Where a task can be.
Places ==
  {"idle", "new", "done", "put.load", "put.open", "put.write", "put.replace", "put.clean",
   "test.load", "test.worker", "test.orchestrator", "ask.cycle", "ask.lock", "ask.context",
   "ask.config", "ask.narrative", "ask.turn", "advise.cycle", "advise.gate", "advise.lock",
   "advise.check", "advise.open", "advise.call", "advise.unload", "open", "control", "gate",
   "record", "seed", "seed.unload", "clean", "clean.unload", "rounds", "end.unload"}

PlaceType == at \in [Tasks -> Places] /\ running \in BOOLEAN

WorkType ==
  /\ work \in [Requests -> Configs \cup Roles \cup {Nothing}]
  /\ \A q \in Requests : at[q] \in {"put.open", "put.write"} => work[q] \in Configs

SeenType == seen \in [Uses -> Configs \cup {Nothing}]

SessionType ==
  /\ session \in Requests \cup {NoOne}
  /\ entry \in [Requests -> Requests \cup {NoOne}]
  /\ engine \in [Requests -> Requests \cup {NoOne}]
  /\ talking \in [Requests -> Requests \cup {NoOne}]
  /\ provider \in [Requests -> {"none", "open", "closing", "closed"}]

WType == FileType /\ CacheType /\ PlaceType /\ WorkType /\ SeenType /\ SessionType

-----------------------------------------------------------------------------
(* Lemmas about configurations. *)

LEMMA LoadType ==
  ASSUME FileType
  PROVE  Load \in Configs \cup {Torn}
BY ConfigAssumption DEF FileType, Load

LEMMA AnswerType ==
  ASSUME FileType, CacheType, NEW t
  PROVE  Answer(t) \in Configs \cup {Torn}
BY LoadType DEF CacheType, Answer, Stale

LEMMA MergeRoleType ==
  ASSUME NEW stored \in Roles, NEW u \in Updates, NEW r \in RoleNames \cap DOMAIN u
  PROVE  MergeRole(stored, u[r]) \in Roles
<1>. DEFINE p == IF "provider" \in DOMAIN u[r] THEN u[r].provider ELSE stored.provider
            l == IF "url" \in DOMAIN u[r] THEN u[r].url ELSE stored.url
<1>. DEFINE m == [f \in {"provider", "url"} |-> IF f \in DOMAIN u[r] THEN u[r][f] ELSE stored[f]]
<1>1. m.provider = p /\ m.url = l
  OBVIOUS
<1>2. p \in Providers /\ l \in Urls \cup {Nothing}
  BY WebOperationsAssumption DEF Roles
<1>3. Endpoint(m) \in Urls \cup Providers \cup {Nothing}
  BY <1>1, <1>2 DEF Endpoint
<1>. HIDE DEF m
<1>4. MergeRole(stored, u[r]).key \in Urls \cup Providers \cup {Nothing}
  BY <1>1, <1>2, <1>3 DEF MergeRole, Roles, m
<1>. QED
  BY <1>1, <1>2, <1>4 DEF MergeRole, Roles, m

LEMMA MergeType ==
  ASSUME NEW c \in Configs, NEW u \in Updates
  PROVE  Merge(c, u) \in Configs
BY MergeRoleType DEF Merge, Configs

\* What is merged keeps its key only where the key belongs.
LEMMA MergeRoleFits ==
  ASSUME NEW stored \in Roles, NEW update, KeyFits(stored)
  PROVE  KeyFits(MergeRole(stored, update))
<1>. DEFINE m == [f \in {"provider", "url"} |-> IF f \in DOMAIN update THEN update[f] ELSE stored[f]]
            changed == "url" \in DOMAIN update /\ update.url \notin {Nothing, stored.url}
            new == MergeRole(stored, update)
<1>1. m.provider = IF "provider" \in DOMAIN update THEN update.provider ELSE stored.provider
  OBVIOUS
<1>2. m.url = IF "url" \in DOMAIN update THEN update.url ELSE stored.url
  OBVIOUS
<1>. HIDE DEF m
<1>. DEFINE k == IF "key" \in DOMAIN update THEN Endpoint(m)
                 ELSE IF m.provider # stored.provider \/ changed THEN Nothing ELSE stored.key
<1>0. new = [provider |-> m.provider, url |-> m.url, key |-> k]
  BY Zenon DEF MergeRole, m
<1>. HIDE DEF k
<1>3. new.provider = m.provider /\ new.url = m.url /\ new.key = k
  BY <1>0
<1>. HIDE DEF changed, new
<1>. SUFFICES KeyFits(new)
  BY DEF new
<1>4. new.provider = m.provider /\ new.url = m.url /\ Endpoint(new) = Endpoint(m)
  BY <1>3 DEF Endpoint
<1>5. CASE "key" \in DOMAIN update
  <2>1. new.key = Endpoint(m)
    BY <1>3, <1>5 DEF k
  <2>. QED
    BY <1>4, <2>1 DEF KeyFits
<1>6. CASE "key" \notin DOMAIN update /\ (m.provider # stored.provider \/ changed)
  <2>1. new.key = Nothing
    BY <1>3, <1>6 DEF k
  <2>. QED
    BY <1>4, <2>1 DEF KeyFits, Buildable
<1>7. CASE "key" \notin DOMAIN update /\ ~(m.provider # stored.provider \/ changed)
  <2>1. new.key = stored.key
    BY <1>3, <1>7 DEF k
  <2>2. m.provider = stored.provider /\ m.url \in {Nothing, stored.url}
    BY <1>1, <1>2, <1>7 DEF changed
  <2>. QED
    BY <1>4, <2>1, <2>2 DEF KeyFits, Buildable, Endpoint
<1>. QED
  BY <1>5, <1>6, <1>7

ConfigFits(config) == \A r \in RoleNames : KeyFits(config[r])

LEMMA MergeFits ==
  ASSUME NEW c \in Configs, NEW u \in Updates, ConfigFits(c)
  PROVE  ConfigFits(Merge(c, u))
BY MergeRoleFits DEF Merge, Configs, ConfigFits

-----------------------------------------------------------------------------
(* Who changes the file, and who the cache; everything else leaves both.   *)

Saves(q) == PutOpen(q) \/ PutWrite(q) \/ PutReplace(q) \/ PutClean(q)

\* The steps of a request that neither save nor read the configuration.
PlainStep(q) ==
  \/ Put(q) \/ PutMerge(q) \/ Test(q) \/ TestBuild(q) \/ TestClose(q)
  \/ Interview(q) \/ FindEntry(q) \/ Lock(q) \/ KeepEngine(q) \/ InterviewFails(q) \/ Turn(q) \/ CloseTask(q)
  \/ Advise(q) \/ AdviseClose(q) \/ AdviseEnds(q)

\* Those that do read it.
Asks(q) == ReadContext(q) \/ AdviseGate(q) \/ AdviseCheck(q) \/ AdviseAsk(q)
Answers(q) == OpenRole(q) \/ AdviseStart(q) \/ AdviseAllowed(q) \/ AdviseOpen(q)

LEMMA RequestSteps ==
  ASSUME NEW q, RequestStep(q)
  PROVE  Saves(q) \/ PlainStep(q) \/ Asks(q) \/ Answers(q)
BY DEF RequestStep, Saves, PlainStep, Asks, Answers

LEMMA PlainKeeps ==
  ASSUME NEW q, PlainStep(q)
  PROVE  UNCHANGED configVars
BY DEF PlainStep, Put, PutMerge, Test, TestBuild, TestClose, Interview, FindEntry, Lock, KeepEngine,
       InterviewFails, Turn, CloseTask, Advise, AdviseClose, AdviseEnds

LEMMA AsksKeep ==
  ASSUME NEW q, Asks(q)
  PROVE  TakeKey(q) \/ UNCHANGED configVars
BY DEF Asks, ReadContext, AdviseGate, AdviseCheck, AdviseAsk

LEMMA AnswersKeep ==
  ASSUME NEW q, Answers(q)
  PROVE  KeepAnswer(q)
BY DEF Answers, OpenRole, AdviseStart, AdviseAllowed, AdviseOpen

LEMMA RunKeeps ==
  ASSUME RunStep
  PROVE  TakeKey(Run) \/ KeepAnswer(Run) \/ UNCHANGED configVars
BY DEF RunStep, Start, AskConfig, ReadConfig, LoadOrchestrator, StartCleaning, EndRounds, Settled,
       UnloadsDone, RunFails, AskNext, GivesUp

LEMMA SavesKeep ==
  ASSUME NEW q, Saves(q)
  PROVE  UNCHANGED <<cached, stat>>
BY DEF Saves, PutOpen, PutWrite, PutReplace, PutClean

\* What any step does to the file and the cache.
LEMMA ConfigSteps ==
  ASSUME Next
  PROVE  \/ \E q \in Requests : Saves(q)
         \/ \E t \in Tasks : TakeKey(t) \/ KeepAnswer(t)
         \/ UNCHANGED configVars
         \/ Crash
<1>1. ASSUME NEW q, NEW m, ServerTakes(q, m) PROVE UNCHANGED configVars
  BY <1>1 DEF ServerTakes
<1>3. ASSUME NEW m, ServerFrees(m) PROVE UNCHANGED configVars
  BY <1>3 DEF ServerFrees
<1>2. Requests \subseteq Tasks /\ Run \in Tasks
  BY WebOperationsAssumption
<1>. QED
  BY <1>1, <1>2, <1>3, RequestSteps, PlainKeeps, AsksKeep, AnswersKeep, RunKeeps DEF Next

-----------------------------------------------------------------------------
(* Types. *)

LEMMA WriteType ==
  ASSUME FileType, WorkType, NEW q \in Requests, PutWrite(q)
  PROVE  FileType'
<1>1. PICK fails \in BOOLEAN : WriteTemporary(q, work[q], fails) /\ at[q] = "put.write"
  BY DEF PutWrite
<1>. DEFINE i == handle[q]
<1>2. PICK c \in {work[q], Torn} : content' = [content EXCEPT ![i] = c]
  <2>1. CASE fails
    BY <1>1, <2>1 DEF WriteTemporary
  <2>2. CASE ~fails /\ content[i] = Empty
    BY <1>1, <2>2 DEF WriteTemporary
  <2>3. CASE ~fails /\ content[i] # Empty
    BY <1>1, <2>3 DEF WriteTemporary
  <2>. QED
    BY <2>1, <2>2, <2>3
<1>3. c \in Configs \cup {Empty, Torn}
  BY <1>1, <1>2 DEF WorkType
<1>4. content' \in [Inodes -> Configs \cup {Empty, Torn}]
  BY <1>2, <1>3 DEF FileType
<1>5. writes' \in [Inodes -> Nat]
  <2>1. writes' = [writes EXCEPT ![i] = @ + 1]
    BY <1>1, Zenon DEF WriteTemporary
  <2>2. writes' = [x \in Inodes |-> IF x = i THEN writes[i] + 1 ELSE writes[x]]
    BY <2>1 DEF FileType
  <2>3. ASSUME NEW x \in Inodes PROVE (IF x = i THEN writes[i] + 1 ELSE writes[x]) \in Nat
    BY DEF FileType
  <2>. QED
    BY <2>2, <2>3
<1>6. UNCHANGED <<path, tmp, handle>>
  BY <1>1, Zenon DEF WriteTemporary
<1>. QED
  BY <1>4, <1>5, <1>6 DEF FileType

LEMMA FileTypeStep ==
  ASSUME WType, Next
  PROVE  FileType'
<1>. USE DEF WType
<1>1. ASSUME NEW q \in Requests, PutOpen(q) PROVE FileType'
  <2>1. q \in Inodes /\ q \in Tasks
    BY WebOperationsAssumption DEF Inodes
  <2>. QED
    BY <1>1, <2>1 DEF FileType, PutOpen, OpenTemporary
<1>2. ASSUME NEW q \in Requests, PutReplace(q) \/ PutClean(q) PROVE FileType'
  BY <1>2 DEF FileType, PutReplace, PutClean, Replace, RemoveTemporary, fileVars
<1>3. CASE UNCHANGED fileVars
  BY <1>3 DEF FileType, fileVars
<1>4. CASE Crash
  BY <1>4 DEF FileType, Crash
<1>. QED
  BY <1>1, <1>2, <1>3, <1>4, WriteType, ConfigSteps DEF Saves, TakeKey, KeepAnswer, configVars, fileVars

LEMMA FileKeyType ==
  ASSUME FileType
  PROVE  FileKey \in Keys /\ FileKey # Nothing
BY ConfigAssumption DEF FileType, FileKey, Keys

LEMMA CacheTypeStep ==
  ASSUME WType, Next
  PROVE  CacheType'
<1>. USE DEF WType, CacheType
<1>1. ASSUME NEW q \in Requests, Saves(q) PROVE CacheType'
  BY <1>1, SavesKeep
<1>2. ASSUME NEW t \in Tasks, TakeKey(t) PROVE CacheType'
  BY <1>2, FileKeyType DEF TakeKey
<1>3. ASSUME NEW t \in Tasks, KeepAnswer(t) PROVE CacheType'
  BY <1>3, LoadType DEF KeepAnswer, Keys
<1>4. CASE UNCHANGED configVars
  BY <1>4 DEF configVars
<1>5. CASE Crash
  BY <1>5 DEF Crash, NoCache, Keys
<1>. QED
  BY <1>1, <1>2, <1>3, <1>4, <1>5, ConfigSteps

LEMMA SessionTypeStep ==
  ASSUME WType, Next
  PROVE  SessionType'
<1>. USE DEF WType, SessionType, NoOne
<1>1. ASSUME NEW q \in Requests, RequestStep(q) PROVE SessionType'
  <2>1. CASE Saves(q) \/ Asks(q)
    BY <2>1 DEF Saves, PutOpen, PutWrite, PutReplace, PutClean, Asks, ReadContext, AdviseGate, AdviseCheck,
                AdviseAsk, sessionVars
  <2>2. CASE Put(q) \/ PutMerge(q) \/ Test(q) \/ Interview(q) \/ Advise(q) \/ AdviseEnds(q)
             \/ AdviseStart(q) \/ AdviseAllowed(q)
    BY <2>2 DEF Put, PutMerge, Test, Interview, Advise, AdviseEnds, AdviseStart, AdviseAllowed, sessionVars
  <2>3. CASE TestBuild(q) \/ TestClose(q) \/ AdviseOpen(q) \/ AdviseClose(q) \/ CloseTask(q)
    BY <2>3 DEF TestBuild, TestClose, AdviseOpen, AdviseClose, CloseTask
  <2>4. CASE FindEntry(q)
    BY <2>4 DEF FindEntry
  <2>5. CASE Lock(q) \/ KeepEngine(q) \/ Turn(q)
    BY <2>5 DEF Lock, KeepEngine, Turn, Unlock
  <2>6. CASE GiveUp(q)
    BY <2>6 DEF GiveUp, Unlock
  <2>7. CASE OpenRole(q)
    BY <2>6, <2>7 DEF OpenRole
  <2>8. CASE InterviewFails(q)
    BY <2>6, <2>8 DEF InterviewFails
  <2>. QED
    BY <1>1, <2>1, <2>2, <2>3, <2>4, <2>5, <2>7, <2>8, RequestSteps DEF PlainStep, Answers
<1>2. CASE RunStep
  BY <1>2 DEF RunStep, Start, AskConfig, ReadConfig, LoadOrchestrator, StartCleaning, EndRounds, Settled,
              UnloadsDone, RunFails, AskNext, GivesUp, ClearSessions, sessionVars
<1>3. CASE Crash
  BY <1>3 DEF Crash
<1>4. ASSUME NEW q, NEW m, ServerTakes(q, m) PROVE SessionType'
  BY <1>4 DEF ServerTakes, sessionVars
<1>5. ASSUME NEW m, ServerFrees(m) PROVE SessionType'
  BY <1>5 DEF ServerFrees, sessionVars
<1>. QED
  BY <1>1, <1>2, <1>3, <1>4, <1>5 DEF Next

\* A role of a configuration that was read is a role.
LEMMA RoleType ==
  ASSUME NEW c \in Configs, NEW r \in RoleNames
  PROVE  c[r] \in Roles
BY DEF Configs

\* A step of a request moves this request alone.
LEMMA RequestMoves ==
  ASSUME PlaceType, NEW q \in Requests, RequestStep(q)
  PROVE  /\ at' = [at EXCEPT ![q] = at'[q]] /\ at'[q] \in Places
         /\ UNCHANGED runVars
<1>0. at \in [Tasks -> Places] /\ q \in Tasks
  BY WebOperationsAssumption DEF PlaceType
<1>. USE <1>0 DEF Goes, Ends, Places
<1>1. CASE Put(q) \/ PutMerge(q) \/ PutOpen(q) \/ PutReplace(q) \/ PutClean(q)
  BY <1>1 DEF Put, PutMerge, PutOpen, PutReplace, PutClean, Arrive, runVars
<1>2. CASE PutWrite(q)
  BY <1>2 DEF PutWrite, runVars
<1>3. CASE Test(q) \/ TestBuild(q) \/ TestClose(q) \/ Interview(q) \/ FindEntry(q)
  BY <1>3 DEF Test, TestBuild, TestClose, Interview, FindEntry, Arrive, runVars
<1>4. CASE Lock(q) \/ ReadContext(q) \/ KeepEngine(q) \/ Turn(q) \/ CloseTask(q)
  BY <1>4 DEF Lock, ReadContext, KeepEngine, Turn, CloseTask, runVars
<1>5. CASE OpenRole(q) \/ InterviewFails(q)
  BY <1>5 DEF OpenRole, InterviewFails, GiveUp, runVars
<1>6. CASE Advise(q) \/ AdviseGate(q) \/ AdviseStart(q) \/ AdviseCheck(q) \/ AdviseAllowed(q)
  BY <1>6 DEF Advise, AdviseGate, AdviseStart, AdviseCheck, AdviseAllowed, Arrive, runVars
<1>7. CASE AdviseAsk(q) \/ AdviseOpen(q) \/ AdviseClose(q) \/ AdviseEnds(q)
  BY <1>7 DEF AdviseAsk, AdviseOpen, AdviseClose, AdviseEnds, runVars
<1>. QED
  BY <1>1, <1>2, <1>3, <1>4, <1>5, <1>6, <1>7 DEF RequestStep

\* A step of the run moves the run alone, and saves nothing for a request.
LEMMA RunMoves ==
  ASSUME PlaceType, RunStep
  PROVE  /\ at' = [at EXCEPT ![Run] = at'[Run]] /\ at'[Run] \in Places
         /\ UNCHANGED work /\ running' \in BOOLEAN
<1>0. at \in [Tasks -> Places] /\ Run \in Tasks /\ running \in BOOLEAN
  BY WebOperationsAssumption DEF PlaceType
<1>. USE <1>0 DEF Goes, Places
<1>1. CASE Start \/ AskConfig \/ LoadOrchestrator \/ StartCleaning
  BY <1>1 DEF Start, AskConfig, LoadOrchestrator, StartCleaning, runVars
<1>2. CASE ReadConfig
  BY <1>2 DEF ReadConfig, RunEnds, After, Uses
<1>3. CASE EndRounds \/ Settled \/ \E m \in Models : AskNext(m) \/ GivesUp(m)
  BY <1>3 DEF EndRounds, Settled, AskNext, GivesUp, runVars
<1>4. CASE UnloadsDone \/ RunFails
  BY <1>4 DEF UnloadsDone, RunFails, RunEnds, runVars
<1>. QED
  BY <1>1, <1>2, <1>3, <1>4 DEF RunStep

LEMMA PlaceTypeStep ==
  ASSUME WType, Next
  PROVE  PlaceType'
<1>. USE DEF WType
<1>1. ASSUME NEW q \in Requests, RequestStep(q) PROVE PlaceType'
  BY <1>1, RequestMoves DEF PlaceType, runVars
<1>2. CASE RunStep
  BY <1>2, RunMoves DEF PlaceType
<1>3. CASE Crash
  BY <1>3 DEF Crash, PlaceType, Places
<1>4. ASSUME NEW q, NEW m, ServerTakes(q, m) PROVE PlaceType'
  BY <1>4 DEF PlaceType, ServerTakes, runVars
<1>5. ASSUME NEW m, ServerFrees(m) PROVE PlaceType'
  BY <1>5 DEF PlaceType, ServerFrees, runVars
<1>. QED
  BY <1>1, <1>2, <1>3, <1>4, <1>5 DEF Next

\* What a step of a request may put into its work, and when.
AboutToSave == {"put.open", "put.write"}
Merges(q) ==
  /\ at[q] = "put.load" /\ Load # Torn
  /\ \E u \in Updates : work' = [work EXCEPT ![q] = Merge(Load, u)]
  /\ UNCHANGED provider
Builds(q) ==
  /\ \E c \in {Load, Answer(q)} : \E r \in RoleNames :
       c # Torn /\ Buildable(c[r]) /\ work' = [work EXCEPT ![q] = c[r]]
  /\ at'[q] \notin AboutToSave /\ provider' = [provider EXCEPT ![q] = "open"]
Discards(q) ==
  /\ work' = [work EXCEPT ![q] = Nothing]
  /\ at'[q] \notin AboutToSave
  /\ \A p \in Requests : provider'[p] = "open" => provider[p] = "open" /\ (p = q => at[q] = "put.clean")
Carries(q) ==
  /\ UNCHANGED work
  /\ at'[q] \in AboutToSave => at[q] \in AboutToSave
  /\ \A p \in Requests : provider'[p] = "open" => provider[p] = "open"

LEMMA WorkMoves ==
  ASSUME WType, NEW q \in Requests, RequestStep(q)
  PROVE  Merges(q) \/ Builds(q) \/ Discards(q) \/ Carries(q)
<1>0. /\ at \in [Tasks -> Places] /\ q \in Tasks
      /\ provider \in [Requests -> {"none", "open", "closing", "closed"}]
  BY WebOperationsAssumption DEF WType, PlaceType, SessionType
<1>. USE <1>0 DEF Goes, Ends, AboutToSave
<1>1. CASE Put(q) \/ PutOpen(q) \/ PutReplace(q) \/ Test(q) \/ Interview(q) \/ FindEntry(q) \/ Advise(q)
  BY <1>1 DEF Carries, Put, PutOpen, PutReplace, Test, Interview, FindEntry, Advise, Arrive, sessionVars
<1>2. CASE PutWrite(q)
  BY <1>2 DEF Carries, PutWrite, sessionVars
<1>3. CASE Lock(q) \/ ReadContext(q) \/ KeepEngine(q) \/ Turn(q) \/ CloseTask(q)
  BY <1>3 DEF Carries, Lock, ReadContext, KeepEngine, Turn, CloseTask, sessionVars
<1>4. CASE AdviseGate(q) \/ AdviseStart(q) \/ AdviseCheck(q) \/ AdviseAllowed(q) \/ AdviseAsk(q) \/ AdviseEnds(q)
  BY <1>4 DEF Carries, AdviseGate, AdviseStart, AdviseCheck, AdviseAllowed, AdviseAsk, AdviseEnds, sessionVars
<1>5. CASE PutMerge(q)
  BY <1>5 DEF PutMerge, Merges, Carries, sessionVars
<1>6. CASE PutClean(q)
  BY <1>6 DEF PutClean, Discards, sessionVars
<1>7. CASE TestClose(q) \/ AdviseClose(q)
  BY <1>7 DEF TestClose, AdviseClose, Discards
<1>8. CASE GiveUp(q)
  BY <1>8 DEF GiveUp, Discards
<1>9. CASE TestBuild(q)
  BY <1>9 DEF TestBuild, Builds, Carries
<1>10. CASE OpenRole(q)
  <2>1. CASE Answer(q) # Torn /\ Buildable(Answer(q).worker)
    BY <1>10, <2>1 DEF OpenRole, Builds, RoleNames
  <2>. QED
    BY <1>8, <1>10, <2>1 DEF OpenRole
<1>11. CASE InterviewFails(q)
  BY <1>8, <1>11 DEF InterviewFails
<1>12. CASE AdviseOpen(q)
  <2>1. CASE Answer(q) # Torn /\ \A r \in RoleNames : Buildable(Answer(q)[r])
    BY <1>12, <2>1 DEF AdviseOpen, Builds, RoleNames
  <2>2. CASE ~(Answer(q) # Torn /\ \A r \in RoleNames : Buildable(Answer(q)[r]))
    BY <1>12, <2>2 DEF AdviseOpen, Carries
  <2>. QED
    BY <2>1, <2>2
<1>. QED
  BY <1>1, <1>2, <1>3, <1>4, <1>5, <1>6, <1>7, <1>9, <1>10, <1>11, <1>12 DEF RequestStep

LEMMA WorkTypeStep ==
  ASSUME WType, Next
  PROVE  WorkType'
<1>. USE DEF WType, WorkType
<1>0. at \in [Tasks -> Places] /\ Requests \subseteq Tasks /\ Run \in Tasks /\ Run \notin Requests
  BY WebOperationsAssumption DEF PlaceType
<1>1. ASSUME NEW q \in Requests, RequestStep(q) PROVE WorkType'
  <2>1. at' = [at EXCEPT ![q] = at'[q]]
    BY <1>1, RequestMoves
  <2>2. CASE Merges(q)
    <3>1. PICK u \in Updates : work' = [work EXCEPT ![q] = Merge(Load, u)]
      BY <2>2 DEF Merges
    <3>2. Merge(Load, u) \in Configs
      BY <2>2, LoadType, MergeType DEF Merges
    <3>. QED
      BY <1>0, <2>1, <3>1, <3>2
  <2>3. CASE Builds(q)
    <3>1. PICK c \in {Load, Answer(q)}, r \in RoleNames : c # Torn /\ work' = [work EXCEPT ![q] = c[r]]
      BY <2>3 DEF Builds
    <3>2. c[r] \in Roles
      BY <3>1, LoadType, AnswerType, RoleType
    <3>. QED
      BY <1>0, <2>1, <2>3, <3>1, <3>2 DEF Builds, AboutToSave
  <2>4. CASE Discards(q)
    BY <1>0, <2>1, <2>4 DEF Discards, AboutToSave
  <2>5. CASE Carries(q)
    BY <1>0, <2>1, <2>5 DEF Carries, AboutToSave
  <2>. QED
    BY <1>1, <2>2, <2>3, <2>4, <2>5, WorkMoves
<1>2. CASE RunStep
  BY <1>0, <1>2, RunMoves
<1>3. CASE Crash
  BY <1>0, <1>3 DEF Crash
<1>4. ASSUME NEW q, NEW m, ServerTakes(q, m) PROVE WorkType'
  BY <1>4 DEF ServerTakes
<1>5. ASSUME NEW m, ServerFrees(m) PROVE WorkType'
  BY <1>5 DEF ServerFrees
<1>. QED
  BY <1>1, <1>2, <1>3, <1>4, <1>5 DEF Next

\* What the run does with what it read.
LEMMA SeenMoves ==
  ASSUME RunStep
  PROVE  ReadConfig \/ UNCHANGED seen \/ seen' = NothingSeen
BY DEF RunStep, Start, AskConfig, LoadOrchestrator, StartCleaning, EndRounds, Settled, UnloadsDone, RunFails,
       AskNext, GivesUp, RunEnds, runVars

LEMMA SeenTypeStep ==
  ASSUME WType, Next
  PROVE  SeenType'
<1>. USE DEF WType, SeenType
<1>1. ASSUME NEW q \in Requests, RequestStep(q) PROVE SeenType'
  BY <1>1, RequestMoves DEF runVars
<1>2. CASE ReadConfig
  BY <1>2, AnswerType DEF ReadConfig, RunEnds, NothingSeen
<1>3. CASE RunStep
  BY <1>2, <1>3, SeenMoves DEF NothingSeen
<1>4. CASE Crash
  BY <1>4 DEF Crash, NothingSeen
<1>5. ASSUME NEW q, NEW m, ServerTakes(q, m) PROVE SeenType'
  BY <1>5 DEF ServerTakes, runVars
<1>6. ASSUME NEW m, ServerFrees(m) PROVE SeenType'
  BY <1>6 DEF ServerFrees, runVars
<1>. QED
  BY <1>1, <1>3, <1>4, <1>5, <1>6 DEF Next

LEMMA Initially ==
  ASSUME Init
  PROVE  WType
<1>1. Init => PlaceType
  BY DEF Init, PlaceType, Places
<1>2. FileType
  BY ConfigAssumption DEF Init, ConfigInit, FileType, Inodes
<1>. QED
  BY <1>1, <1>2, WebOperationsAssumption
     DEF Init, ConfigInit, WType, CacheType, WorkType, SeenType, SessionType, NoCache, Keys, NothingSeen

LEMMA TypeStep ==
  ASSUME WType, [Next]_vars
  PROVE  WType'
<1>1. CASE UNCHANGED vars
  BY <1>1 DEF vars, configVars, runVars, sessionVars, WType, FileType, CacheType, PlaceType, WorkType,
              SeenType, SessionType
<1>. QED
  BY <1>1, FileTypeStep, CacheTypeStep, PlaceTypeStep, WorkTypeStep, SeenTypeStep, SessionTypeStep DEF WType

-----------------------------------------------------------------------------
(* Providers have an owner.                                                *)

\* Where the request's own steps use a provider.
InUse == {"ask.narrative", "ask.turn", "test.worker", "test.orchestrator", "advise.call"}

\* Who holds a lock got it for its entry; before the first turn no other
\* request can give the entry an engine, and a provider nobody uses any more
\* is the engine of an entry.
HolderInv == \A q \in Requests :
  /\ at[q] \in {"ask.lock", "ask.context", "ask.config", "ask.narrative", "ask.turn"} => entry[q] \in Requests
  /\ at[q] \in {"ask.context", "ask.config", "ask.narrative"} => engine[entry[q]] = NoOne
  /\ at[q] \in {"ask.context", "ask.config", "ask.narrative", "ask.turn"} => talking[entry[q]] = q

OwnerInv == \A q \in Requests :
  /\ provider[q] # "none" => at[q] \in InUse \cup {"advise.unload", "done"}
  /\ \A e \in Requests : engine[e] = q => at[q] \in {"ask.turn", "done"}
  /\ provider[q] = "open" => \/ at[q] \in InUse \ {"ask.turn"}
                             \/ \E e \in Requests : engine[e] = q

LEMMA HolderStep ==
  ASSUME WType, HolderInv, Next
  PROVE  HolderInv'
<1>0. /\ at \in [Tasks -> Places] /\ Requests \subseteq Tasks /\ Run \notin Requests
      /\ Nothing \notin Requests
  BY WebOperationsAssumption, ConfigAssumption DEF WType, PlaceType
<1>. USE <1>0 DEF WType, SessionType, HolderInv, NoOne
<1>1. ASSUME NEW q \in Requests, RequestStep(q) PROVE HolderInv'
  <2>. USE DEF Goes, Ends
  <2>1. CASE Put(q) \/ PutMerge(q) \/ PutOpen(q) \/ PutReplace(q) \/ PutClean(q)
    BY <2>1 DEF Put, PutMerge, PutOpen, PutReplace, PutClean, Arrive, sessionVars
  <2>2. CASE PutWrite(q)
    BY <2>2 DEF PutWrite, sessionVars
  <2>3. CASE Test(q) \/ TestBuild(q) \/ TestClose(q) \/ Interview(q) \/ CloseTask(q)
    BY <2>3 DEF Test, TestBuild, TestClose, Interview, CloseTask, Arrive, sessionVars
  <2>4. CASE FindEntry(q)
    BY <2>4 DEF FindEntry
  <2>5. CASE Lock(q)
    BY <2>5 DEF Lock
  <2>6. CASE ReadContext(q)
    BY <2>6 DEF ReadContext, sessionVars
  <2>7. CASE KeepEngine(q)
    BY <2>7 DEF KeepEngine
  <2>8. CASE at[q] \in {"ask.context", "ask.config", "ask.narrative"} /\ GiveUp(q)
    BY <2>8 DEF GiveUp, Unlock
  <2>9. CASE OpenRole(q)
    BY <2>8, <2>9 DEF OpenRole
  <2>10. CASE InterviewFails(q)
    BY <2>8, <2>10 DEF InterviewFails
  <2>11. CASE Turn(q)
    BY <2>11 DEF Turn, Unlock
  <2>12. CASE Advise(q) \/ AdviseGate(q) \/ AdviseStart(q) \/ AdviseCheck(q) \/ AdviseAllowed(q)
    BY <2>12 DEF Advise, AdviseGate, AdviseStart, AdviseCheck, AdviseAllowed, Arrive, sessionVars
  <2>13. CASE AdviseAsk(q) \/ AdviseOpen(q) \/ AdviseClose(q) \/ AdviseEnds(q)
    BY <2>13 DEF AdviseAsk, AdviseOpen, AdviseClose, AdviseEnds, sessionVars
  <2>. QED
    BY <1>1, <2>1, <2>2, <2>3, <2>4, <2>5, <2>6, <2>7, <2>9, <2>10, <2>11, <2>12, <2>13 DEF RequestStep
<1>2. CASE RunStep
  <2>1. UNCHANGED <<entry, engine, talking>>
    BY <1>2 DEF RunStep, Start, AskConfig, ReadConfig, LoadOrchestrator, StartCleaning, EndRounds, Settled,
                UnloadsDone, RunFails, AskNext, GivesUp, ClearSessions, sessionVars
  <2>. QED
    BY <1>2, <2>1, RunMoves
<1>3. CASE Crash
  BY <1>3 DEF Crash
<1>4. ASSUME NEW q, NEW m, ServerTakes(q, m) PROVE HolderInv'
  BY <1>4 DEF ServerTakes, sessionVars
<1>5. ASSUME NEW m, ServerFrees(m) PROVE HolderInv'
  BY <1>5 DEF ServerFrees, sessionVars
<1>. QED
  BY <1>1, <1>2, <1>3, <1>4, <1>5 DEF Next

LEMMA OwnerStep ==
  ASSUME WType, HolderInv, OwnerInv, Next
  PROVE  OwnerInv'
<1>0. /\ at \in [Tasks -> Places] /\ Requests \subseteq Tasks /\ Run \notin Requests
      /\ Nothing \notin Requests
  BY WebOperationsAssumption, ConfigAssumption DEF WType, PlaceType
<1>. USE <1>0 DEF WType, SessionType, OwnerInv, NoOne, InUse
<1>1. ASSUME NEW q \in Requests, RequestStep(q) PROVE OwnerInv'
  <2>. USE DEF Goes, Ends
  <2>1. CASE Put(q) \/ PutMerge(q) \/ PutOpen(q) \/ PutReplace(q) \/ PutClean(q)
    BY <2>1 DEF Put, PutMerge, PutOpen, PutReplace, PutClean, Arrive, sessionVars
  <2>2. CASE PutWrite(q)
    BY <2>2 DEF PutWrite, sessionVars
  <2>3. CASE Test(q) \/ Interview(q) \/ CloseTask(q)
    BY <2>3 DEF Test, Interview, CloseTask, Arrive, sessionVars
  <2>4. CASE TestBuild(q) \/ TestClose(q)
    BY <2>4 DEF TestBuild, TestClose
  <2>5. CASE FindEntry(q)
    BY <2>5 DEF FindEntry
  <2>6. CASE Lock(q) \/ ReadContext(q)
    BY <2>6 DEF Lock, ReadContext, sessionVars
  <2>7. CASE KeepEngine(q)
    BY <2>7 DEF KeepEngine, HolderInv
  <2>8. CASE at[q] \in {"ask.context", "ask.config", "ask.narrative"} /\ GiveUp(q)
    BY <2>8 DEF GiveUp, Unlock
  <2>9. CASE OpenRole(q)
    BY <2>8, <2>9 DEF OpenRole
  <2>10. CASE InterviewFails(q)
    BY <2>8, <2>10 DEF InterviewFails
  <2>11. CASE Turn(q)
    BY <2>11 DEF Turn, Unlock
  <2>12. CASE Advise(q) \/ AdviseGate(q) \/ AdviseStart(q) \/ AdviseCheck(q) \/ AdviseAllowed(q)
    BY <2>12 DEF Advise, AdviseGate, AdviseStart, AdviseCheck, AdviseAllowed, Arrive, sessionVars
  <2>13. CASE AdviseAsk(q) \/ AdviseEnds(q)
    BY <2>13 DEF AdviseAsk, AdviseEnds, sessionVars
  <2>14. CASE AdviseOpen(q) \/ AdviseClose(q)
    BY <2>14 DEF AdviseOpen, AdviseClose
  <2>. QED
    BY <1>1, <2>1, <2>2, <2>3, <2>4, <2>5, <2>6, <2>7, <2>9, <2>10, <2>11, <2>12, <2>13, <2>14
       DEF RequestStep
<1>2. CASE RunStep
  <2>1. UNCHANGED engine /\ (UNCHANGED provider \/ ClearSessions)
    BY <1>2 DEF RunStep, Start, AskConfig, ReadConfig, LoadOrchestrator, StartCleaning, EndRounds, Settled,
                UnloadsDone, RunFails, AskNext, GivesUp, ClearSessions, sessionVars
  <2>2. \A q \in Requests : at'[q] = at[q]
    BY <1>2, RunMoves
  <2>3. CASE UNCHANGED provider
    BY <2>1, <2>2, <2>3
  <2>4. CASE ClearSessions
    BY <2>1, <2>2, <2>4 DEF ClearSessions
  <2>. QED
    BY <2>1, <2>3, <2>4
<1>3. CASE Crash
  BY <1>3 DEF Crash
<1>4. ASSUME NEW q, NEW m, ServerTakes(q, m) PROVE OwnerInv'
  BY <1>4 DEF ServerTakes, sessionVars
<1>5. ASSUME NEW m, ServerFrees(m) PROVE OwnerInv'
  BY <1>5 DEF ServerFrees, sessionVars
<1>. QED
  BY <1>1, <1>2, <1>3, <1>4, <1>5 DEF Next

-----------------------------------------------------------------------------
(* Keys stay with their endpoints.                                         *)

\* Whatever is stored, cached, about to be stored or in use has its keys where
\* they belong, and what is in use could be built.
KeyInv ==
  /\ \A i \in Inodes : content[i] \in Configs => ConfigFits(content[i])
  /\ cached.config # Nothing => ConfigFits(cached.config)
  /\ \A q \in Requests :
       /\ at[q] \in AboutToSave => ConfigFits(work[q])
       /\ provider[q] = "open" => Buildable(work[q]) /\ KeyFits(work[q])
  /\ seen["open"] # Nothing =>
       ConfigFits(seen["open"]) /\ \A r \in RoleNames : Buildable(seen["open"][r])

LEMMA LoadFits ==
  ASSUME FileType, KeyInv, Load # Torn
  PROVE  ConfigFits(Load)
BY ConfigAssumption, LoadType DEF FileType, KeyInv, Load, ConfigFits

LEMMA AnswerFits ==
  ASSUME FileType, KeyInv, NEW t, Answer(t) # Torn
  PROVE  ConfigFits(Answer(t))
BY LoadFits DEF Answer, Stale, KeyInv

\* A file gets nothing but what a request was about to save.
LEMMA ContentMoves ==
  ASSUME FileType, Next, NEW i \in Inodes
  PROVE  content'[i] \in {content[i], Empty, Torn} \cup {work[q] : q \in {p \in Requests : at[p] = "put.write"}}
<1>. USE DEF FileType
<1>1. ASSUME NEW q \in Requests, PutOpen(q)
      PROVE  content'[i] \in {content[i], Empty}
  BY <1>1 DEF PutOpen, OpenTemporary
<1>2. ASSUME NEW q \in Requests, PutWrite(q)
      PROVE  at[q] = "put.write" /\ content'[i] \in {content[i], Torn, work[q]}
  <2>1. PICK fails \in BOOLEAN : WriteTemporary(q, work[q], fails) /\ at[q] = "put.write"
    BY <1>2 DEF PutWrite
  <2>2. CASE fails
    BY <2>1, <2>2 DEF WriteTemporary
  <2>3. CASE ~fails /\ content[handle[q]] = Empty
    BY <2>1, <2>3 DEF WriteTemporary
  <2>4. CASE ~fails /\ content[handle[q]] # Empty
    BY <2>1, <2>4 DEF WriteTemporary
  <2>. QED
    BY <2>1, <2>2, <2>3, <2>4
<1>3. ASSUME NEW q \in Requests, PutReplace(q) \/ PutClean(q) PROVE UNCHANGED content
  BY <1>3 DEF PutReplace, PutClean, Replace, RemoveTemporary, fileVars
<1>4. ASSUME UNCHANGED fileVars \/ Crash PROVE UNCHANGED content
  BY <1>4 DEF fileVars, Crash
<1>. QED
  BY <1>1, <1>2, <1>3, <1>4, ConfigSteps DEF Saves, TakeKey, KeepAnswer, configVars, fileVars

LEMMA CachedMoves ==
  ASSUME Next
  PROVE  \/ UNCHANGED cached
         \/ cached'.config = Load /\ Load # Torn
         \/ cached'.config = Nothing
<1>1. ASSUME NEW t, TakeKey(t) \/ KeepAnswer(t)
      PROVE  UNCHANGED cached \/ (cached'.config = Load /\ Load # Torn)
  BY <1>1 DEF TakeKey, KeepAnswer
<1>2. ASSUME UNCHANGED configVars PROVE UNCHANGED cached
  BY <1>2 DEF configVars
<1>3. ASSUME Crash PROVE cached'.config = Nothing
  BY <1>3 DEF Crash, NoCache
<1>. QED
  BY <1>1, <1>2, <1>3, ConfigSteps, SavesKeep

LEMMA KeyStep ==
  ASSUME WType, OwnerInv, KeyInv, Next
  PROVE  KeyInv'
<1>0. /\ at \in [Tasks -> Places] /\ Requests \subseteq Tasks /\ Run \in Tasks /\ Run \notin Requests
      /\ FileType /\ WorkType /\ SeenType /\ PlaceType /\ SessionType
  BY WebOperationsAssumption DEF WType, PlaceType
<1>1. (\A i \in Inodes : content[i] \in Configs => ConfigFits(content[i]))'
  BY <1>0, ContentMoves, ConfigAssumption DEF KeyInv, AboutToSave
<1>2. (cached.config # Nothing => ConfigFits(cached.config))'
  BY <1>0, CachedMoves, LoadFits DEF KeyInv
<1>3. ASSUME NEW p \in Requests
      PROVE  (/\ at[p] \in AboutToSave => ConfigFits(work[p])
              /\ provider[p] = "open" => Buildable(work[p]) /\ KeyFits(work[p]))'
  <2>. DEFINE Fits == /\ at[p] \in AboutToSave => ConfigFits(work[p])
                      /\ provider[p] = "open" => Buildable(work[p]) /\ KeyFits(work[p])
  <2>0. Fits
    BY DEF KeyInv
  <2>1. ASSUME NEW q \in Requests, RequestStep(q) PROVE Fits'
    <3>0. at' = [at EXCEPT ![q] = at'[q]]
      BY <1>0, <2>1, RequestMoves
    <3>1. CASE Merges(q)
      <4>1. PICK u \in Updates : work' = [work EXCEPT ![q] = Merge(Load, u)]
        BY <3>1 DEF Merges
      <4>2. ConfigFits(Merge(Load, u))
        BY <1>0, <3>1, LoadType, LoadFits, MergeFits DEF Merges
      <4>3. provider[q] # "open"
        BY <3>1 DEF Merges, OwnerInv, InUse
      <4>. QED
        BY <1>0, <2>0, <3>0, <3>1, <4>1, <4>2, <4>3 DEF Merges, WorkType
    <3>2. CASE Builds(q)
      <4>1. PICK c \in {Load, Answer(q)}, r \in RoleNames :
              c # Torn /\ Buildable(c[r]) /\ work' = [work EXCEPT ![q] = c[r]]
        BY <3>2 DEF Builds
      <4>2. KeyFits(c[r])
        BY <1>0, <4>1, LoadFits, AnswerFits DEF ConfigFits
      <4>. QED
        BY <1>0, <2>0, <3>0, <3>2, <4>1, <4>2 DEF Builds, WorkType, SessionType
    <3>3. CASE Discards(q)
      BY <1>0, <2>0, <3>0, <3>3 DEF Discards, WorkType, OwnerInv, InUse
    <3>4. CASE Carries(q)
      BY <1>0, <2>0, <3>0, <3>4 DEF Carries
    <3>. QED
      BY <2>1, <3>1, <3>2, <3>3, <3>4, WorkMoves
  <2>2. CASE RunStep
    <3>1. UNCHANGED work /\ at'[p] = at[p]
      BY <1>0, <2>2, RunMoves
    <3>2. provider'[p] = "open" => provider[p] = "open"
      BY <2>2 DEF RunStep, Start, AskConfig, ReadConfig, LoadOrchestrator, StartCleaning, EndRounds, Settled,
                  UnloadsDone, RunFails, AskNext, GivesUp, ClearSessions, sessionVars
    <3>. QED
      BY <2>0, <3>1, <3>2
  <2>3. CASE Crash
    BY <1>0, <2>3 DEF Crash, AboutToSave
  <2>4. ASSUME NEW q, NEW m, ServerTakes(q, m) PROVE Fits'
    BY <2>0, <2>4 DEF ServerTakes, sessionVars
  <2>5. ASSUME NEW m, ServerFrees(m) PROVE Fits'
    BY <2>0, <2>5 DEF ServerFrees, sessionVars
  <2>. QED
    BY <2>1, <2>2, <2>3, <2>4, <2>5, Zenon DEF Next
<1>4. (seen["open"] # Nothing => ConfigFits(seen["open"]) /\ \A r \in RoleNames : Buildable(seen["open"][r]))'
  <2>. DEFINE Fits == seen["open"] # Nothing =>
                        ConfigFits(seen["open"]) /\ \A r \in RoleNames : Buildable(seen["open"][r])
  <2>0. Fits
    BY DEF KeyInv
  <2>1. CASE UNCHANGED seen
    BY <2>0, <2>1
  <2>2. CASE seen' = NothingSeen
    BY <2>2 DEF NothingSeen, Uses
  <2>3. CASE ReadConfig
    <3>1. CASE at[Run] = "open" /\ seen' = [seen EXCEPT !["open"] = Answer(Run)]
      BY <1>0, <2>3, <3>1, AnswerFits DEF ReadConfig, RunEnds, NothingSeen, SeenType, Uses
    <3>2. CASE at[Run] # "open" /\ seen' = [seen EXCEPT ![at[Run]] = Answer(Run)]
      BY <2>0, <3>2
    <3>. QED
      BY <2>2, <2>3, <3>1, <3>2 DEF ReadConfig, RunEnds
  <2>4. \/ ReadConfig \/ UNCHANGED seen \/ seen' = NothingSeen
    <3>1. ASSUME NEW q \in Requests, RequestStep(q) PROVE UNCHANGED seen
      BY <1>0, <3>1, RequestMoves DEF runVars
    <3>2. ASSUME NEW q, NEW m, ServerTakes(q, m) PROVE UNCHANGED seen
      BY <3>2 DEF ServerTakes, runVars
    <3>3. ASSUME NEW m, ServerFrees(m) PROVE UNCHANGED seen
      BY <3>3 DEF ServerFrees, runVars
    <3>. QED
      BY <3>1, <3>2, <3>3, SeenMoves DEF Next, Crash
  <2>. QED
    BY <2>1, <2>2, <2>3, <2>4
<1>. QED
  BY <1>1, <1>2, <1>3, <1>4 DEF KeyInv

-----------------------------------------------------------------------------
SafeInv == WType /\ HolderInv /\ OwnerInv /\ KeyInv

LEMMA SafeInitially ==
  ASSUME Init
  PROVE  SafeInv
<1>1. HolderInv /\ OwnerInv
  BY WebOperationsAssumption, ConfigAssumption DEF Init, HolderInv, OwnerInv, InUse, NoOne
<1>2. KeyInv
  BY WebOperationsAssumption, ConfigAssumption
     DEF Init, ConfigInit, KeyInv, ConfigFits, NoCache, NothingSeen, Uses, AboutToSave
<1>. QED
  BY <1>1, <1>2, Initially DEF SafeInv

LEMMA SafeStep ==
  ASSUME SafeInv, [Next]_vars
  PROVE  SafeInv'
<1>1. CASE UNCHANGED vars
  BY <1>1, TypeStep DEF vars, configVars, runVars, sessionVars, SafeInv, HolderInv, OwnerInv, KeyInv, ConfigFits
<1>. QED
  BY <1>1, TypeStep, HolderStep, OwnerStep, KeyStep DEF SafeInv

\* Every variable keeps to the values the code gives it, whatever the requests,
\* the run, the server and a crash do: what is stored, cached or about to be
\* saved is a configuration, or marked as empty or torn.
THEOREM OperationsTyped == Spec => []WType
<1>1. Init => SafeInv
  BY SafeInitially
<1>2. SafeInv /\ [Next]_vars => SafeInv'
  BY SafeStep
<1>3. SafeInv => WType
  BY DEF SafeInv
<1>. QED
  BY <1>1, <1>2, <1>3, PTL DEF Spec

\* No provider is left open with nobody to close it: its request still uses it,
\* or an entry of the session table names it (web/routes/interview.py:127).
THEOREM Ownership == Spec => []ProvidersOwned
<1>1. Init => SafeInv
  BY SafeInitially
<1>2. SafeInv /\ [Next]_vars => SafeInv'
  BY SafeStep
<1>3. SafeInv => ProvidersOwned
  BY DEF SafeInv, OwnerInv, ProvidersOwned, InUse
<1>. QED
  BY <1>1, <1>2, <1>3, PTL DEF Spec

\* No API key is used anywhere but at the endpoint it was entered for, after
\* any updates, saved in any order (web/routes/settings.py:229).
THEOREM KeysStay == Spec => []KeysStayWithEndpoint
<1>1. Init => SafeInv
  BY SafeInitially
<1>2. SafeInv /\ [Next]_vars => SafeInv'
  BY SafeStep
<1>3. SafeInv => KeysStayWithEndpoint
  BY DEF SafeInv, KeyInv, KeysStayWithEndpoint, KeyFits, ConfigFits
<1>. QED
  BY <1>1, <1>2, <1>3, PTL DEF Spec

-----------------------------------------------------------------------------
(* The file and the cache.                                                 *)

NotOpened == {"new", "put.load", "put.open"}
SavingPlaces == {"put.write", "put.replace", "put.clean"}
PuttingPlaces == {"put.load", "put.open"} \cup SavingPlaces

\* No key of a state of the file is one that the file may still come to have,
\* but that of the present state.
Past(k) ==
  \/ k \in {Nothing, <<NoFile, 0>>}
  \/ k[1] = path /\ k[2] <= writes[path]
  \/ k[1] \notin {path, tmp} /\ (k[1] \in Requests => at[k[1]] \notin NotOpened)

\* The temporary file is never the stored one, and only a request that opened
\* it can have made either.
PathsApart ==
  /\ path = tmp => path = NoFile
  /\ \A q \in Requests : at[q] \in NotOpened => q \notin {path, tmp}

KeysPast == Past(cached.key) /\ \A t \in Tasks : Past(stat[t])
CacheTrue == cached.config # Nothing /\ cached.key = FileKey => cached.config = Load
OneReader == \A t, u \in Tasks : Reading(t) /\ Reading(u) => t = u

FileInv == PathsApart /\ KeysPast /\ CacheTrue /\ OneReader

\* Where the steps of a request lead, as far as the file, the run and the
\* advisory care.
LEMMA Enters ==
  ASSUME PlaceType, NEW q \in Requests, RequestStep(q)
  PROVE  /\ at'[q] \in NotOpened => at[q] \in NotOpened
         /\ at'[q] \in SavingPlaces => at'[q] = at[q] \/ Saves(q)
         /\ at'[q] \in PuttingPlaces => at[q] \in PuttingPlaces \/ ~running
         /\ at'[q] \in JobSteps => at[q] \in JobSteps \/ ~running
         /\ at'[q] = "advise.check" => (at[q] = "advise.check" /\ CloseTask(q)) \/ AdviseCheck(q)
         /\ at'[q] = "advise.open" => (at[q] = "advise.open" /\ CloseTask(q)) \/ AdviseAllowed(q) \/ AdviseAsk(q)
         /\ at'[q] = "advise.call" => (at[q] = "advise.call" /\ CloseTask(q)) \/ AdviseOpen(q)
<1>0. at \in [Tasks -> Places] /\ q \in Tasks
  BY WebOperationsAssumption DEF PlaceType
<1>. USE <1>0 DEF Goes, Ends, NotOpened, SavingPlaces, PuttingPlaces, JobSteps
<1>1. CASE Put(q) \/ PutMerge(q)
  BY <1>1 DEF Put, PutMerge, Arrive
<1>2. CASE Saves(q)
  <2>1. CASE PutWrite(q)
    BY <1>2, <2>1 DEF PutWrite
  <2>2. CASE PutOpen(q) \/ PutReplace(q) \/ PutClean(q)
    BY <1>2, <2>2 DEF PutOpen, PutReplace, PutClean
  <2>. QED
    BY <1>2, <2>1, <2>2 DEF Saves
<1>3. CASE Test(q) \/ TestBuild(q) \/ TestClose(q) \/ Interview(q) \/ FindEntry(q)
  BY <1>3 DEF Test, TestBuild, TestClose, Interview, FindEntry, Arrive
<1>4. CASE Lock(q) \/ ReadContext(q) \/ KeepEngine(q) \/ Turn(q)
  BY <1>4 DEF Lock, ReadContext, KeepEngine, Turn
<1>5. CASE CloseTask(q)
  BY <1>5 DEF CloseTask
<1>6. CASE OpenRole(q) \/ InterviewFails(q)
  BY <1>6 DEF OpenRole, InterviewFails, GiveUp
<1>7. CASE Advise(q) \/ AdviseGate(q) \/ AdviseStart(q)
  BY <1>7 DEF Advise, AdviseGate, AdviseStart, Arrive
<1>8. CASE AdviseCheck(q) \/ AdviseAllowed(q) \/ AdviseAsk(q)
  BY <1>8 DEF AdviseCheck, AdviseAllowed, AdviseAsk
<1>9. CASE AdviseOpen(q) \/ AdviseClose(q) \/ AdviseEnds(q)
  BY <1>9 DEF AdviseOpen, AdviseClose, AdviseEnds
<1>. QED
  BY <1>1, <1>2, <1>3, <1>4, <1>5, <1>6, <1>7, <1>8, <1>9 DEF RequestStep, Saves

LEMMA Elsewhere ==
  ASSUME PlaceType, Next, NEW q \in Requests
  PROVE  \/ RequestStep(q)
         \/ at'[q] = at[q]
         \/ Crash /\ at'[q] = (IF at[q] = "new" THEN "new" ELSE "done")
<1>0. at \in [Tasks -> Places] /\ q \in Tasks /\ q # Run
  BY WebOperationsAssumption DEF PlaceType
<1>1. ASSUME NEW p \in Requests, RequestStep(p) PROVE RequestStep(q) \/ at'[q] = at[q]
  BY <1>0, <1>1, RequestMoves
<1>2. CASE RunStep
  BY <1>0, <1>2, RunMoves
<1>3. CASE Crash
  BY <1>0, <1>3 DEF Crash
<1>4. ASSUME NEW p, NEW m, ServerTakes(p, m) PROVE at'[q] = at[q]
  BY <1>4 DEF ServerTakes
<1>5. ASSUME NEW m, ServerFrees(m) PROVE at'[q] = at[q]
  BY <1>5 DEF ServerFrees
<1>. QED
  BY <1>1, <1>2, <1>3, <1>4, <1>5 DEF Next

LEMMA StaysOpened ==
  ASSUME PlaceType, Next, NEW q \in Requests, at'[q] \in NotOpened
  PROVE  at[q] \in NotOpened
BY Elsewhere, Enters DEF NotOpened

\* What becomes of the file.
LEMMA FileMoves ==
  ASSUME Next
  PROVE  (\E q \in Requests : Saves(q)) \/ UNCHANGED <<path, tmp, content, writes>>
BY ConfigSteps DEF TakeKey, KeepAnswer, Crash, configVars, fileVars

\* The inode a save opens is not the stored file's.
LEMMA Opened ==
  ASSUME FileType, PathsApart, NEW q \in Requests, PutOpen(q)
  PROVE  \E i \in Inodes :
           /\ i \in {q, tmp} /\ i # path /\ tmp' = i /\ path' = path /\ handle' = [handle EXCEPT ![q] = i]
           /\ content' = [content EXCEPT ![i] = Empty] /\ writes' = [writes EXCEPT ![i] = writes[i] + 1]
           /\ at[q] = "put.open" /\ at' = [at EXCEPT ![q] = "put.write"]
<1>. DEFINE i == IF tmp = NoFile THEN q ELSE tmp
<1>1. at[q] = "put.open" /\ at' = [at EXCEPT ![q] = "put.write"] /\ OpenTemporary(q)
  BY DEF PutOpen, Goes
<1>2. tmp' = i /\ path' = path /\ handle' = [handle EXCEPT ![q] = i] /\ content' = [content EXCEPT ![i] = Empty]
  BY <1>1 DEF OpenTemporary
<1>3. writes' = [writes EXCEPT ![i] = writes[i] + 1]
  BY <1>1 DEF OpenTemporary
<1>4. i \in Inodes /\ i \in {q, tmp} /\ i # path
  BY <1>1, WebOperationsAssumption, ConfigAssumption DEF FileType, PathsApart, NotOpened, Inodes
<1>. QED
  BY <1>1, <1>2, <1>3, <1>4

\* A write goes to the inode its request has open.
LEMMA Writes ==
  ASSUME FileType, NEW q \in Requests, PutWrite(q)
  PROVE  /\ UNCHANGED <<path, tmp, handle>> /\ at[q] = "put.write"
         /\ writes' = [writes EXCEPT ![handle[q]] = writes[handle[q]] + 1]
         /\ \E c : content' = [content EXCEPT ![handle[q]] = c]
         /\ \/ at' = [at EXCEPT ![q] = "put.clean"]
            \/ /\ at' = [at EXCEPT ![q] = "put.replace"]
               /\ content[handle[q]] = Empty => content' = [content EXCEPT ![handle[q]] = work[q]]
<1>1. PICK fails \in BOOLEAN : /\ WriteTemporary(q, work[q], fails) /\ at[q] = "put.write"
                               /\ at' = [at EXCEPT ![q] = IF fails THEN "put.clean" ELSE "put.replace"]
  BY DEF PutWrite, Goes
<1>2. UNCHANGED <<path, tmp, handle>> /\ writes' = [writes EXCEPT ![handle[q]] = writes[handle[q]] + 1]
  BY <1>1 DEF WriteTemporary
<1>3. CASE fails
  BY <1>1, <1>2, <1>3 DEF WriteTemporary
<1>4. CASE ~fails /\ content[handle[q]] = Empty
  BY <1>1, <1>2, <1>4 DEF WriteTemporary
<1>5. CASE ~fails /\ content[handle[q]] # Empty
  BY <1>1, <1>2, <1>5 DEF WriteTemporary
<1>. QED
  BY <1>3, <1>4, <1>5

LEMMA PathsApartStep ==
  ASSUME WType, PathsApart, Next
  PROVE  PathsApart'
<1>0. /\ FileType /\ PlaceType /\ NoFile \notin Requests
      /\ at \in [Tasks -> Places] /\ Requests \subseteq Tasks
  BY WebOperationsAssumption, ConfigAssumption DEF WType, PlaceType, Inodes
<1>1. \A p \in Requests : at'[p] \in NotOpened => at[p] \in NotOpened
  BY <1>0, StaysOpened
<1>2. CASE UNCHANGED <<path, tmp, content, writes>>
  BY <1>1, <1>2 DEF PathsApart
<1>3. ASSUME NEW q \in Requests, PutOpen(q) PROVE PathsApart'
  BY <1>0, <1>1, <1>3, Opened DEF PathsApart, NotOpened
<1>4. ASSUME NEW q \in Requests, PutWrite(q) PROVE PathsApart'
  BY <1>0, <1>1, <1>4, Writes DEF PathsApart
<1>5. ASSUME NEW q \in Requests, PutReplace(q) PROVE PathsApart'
  BY <1>0, <1>1, <1>5 DEF PathsApart, PutReplace, Replace, CanReplace, fileVars
<1>6. ASSUME NEW q \in Requests, PutClean(q) PROVE PathsApart'
  BY <1>0, <1>1, <1>6 DEF PathsApart, PutClean, RemoveTemporary
<1>. QED
  BY <1>2, <1>3, <1>4, <1>5, <1>6, FileMoves DEF Saves

\* What is past stays so.
LEMMA PastStep ==
  ASSUME WType, PathsApart, Next, NEW k \in Keys, Past(k)
  PROVE  Past(k)'
<1>0. /\ FileType /\ PlaceType /\ NoFile \notin Inodes
      /\ at \in [Tasks -> Places] /\ Requests \subseteq Tasks /\ Requests \subseteq Inodes
  BY WebOperationsAssumption, ConfigAssumption DEF WType, PlaceType, Inodes
<1>1. \A p \in Requests : at'[p] \in NotOpened => at[p] \in NotOpened
  BY <1>0, StaysOpened
<1>2. CASE k \in {Nothing, <<NoFile, 0>>}
  BY <1>2 DEF Past
<1>3. CASE k \notin {Nothing, <<NoFile, 0>>}
  <2>1. k[1] \in Inodes /\ k[2] \in Nat
    BY <1>3 DEF Keys
  <2>. DEFINE Then == \/ k[1] = path' /\ k[2] <= writes'[path']
                      \/ k[1] \notin {path', tmp'} /\ (k[1] \in Requests => at'[k[1]] \notin NotOpened)
  <2>2. \/ k[1] = path /\ k[2] <= writes[path]
        \/ k[1] \notin {path, tmp} /\ (k[1] \in Requests => at[k[1]] \notin NotOpened)
    BY <1>3 DEF Past
  <2>3. ASSUME UNCHANGED <<path, tmp, content, writes>> PROVE Then
    BY <1>1, <2>2, <2>3
  <2>4. ASSUME NEW q \in Requests, PutOpen(q) PROVE Then
    <3>1. PICK i \in Inodes :
            /\ i \in {q, tmp} /\ i # path /\ tmp' = i /\ path' = path
            /\ writes' = [writes EXCEPT ![i] = writes[i] + 1] /\ at[q] = "put.open"
      BY <1>0, <2>4, Opened
    <3>2. CASE k[1] = path
      BY <1>0, <2>2, <3>1, <3>2 DEF FileType
    <3>3. CASE k[1] # path
      BY <1>1, <2>2, <3>1, <3>3 DEF NotOpened
    <3>. QED
      BY <3>2, <3>3
  <2>5. ASSUME NEW q \in Requests, PutWrite(q) PROVE Then
    <3>1. /\ UNCHANGED <<path, tmp>>
          /\ writes' = [writes EXCEPT ![handle[q]] = writes[handle[q]] + 1]
      BY <1>0, <2>5, Writes
    <3>2. CASE k[1] = path
      <4>1. writes'[path] \in {writes[path], writes[path] + 1} /\ writes[path] \in Nat
        BY <1>0, <2>1, <3>1, <3>2 DEF FileType
      <4>. QED
        BY <2>1, <2>2, <3>1, <3>2, <4>1
    <3>3. CASE k[1] # path
      BY <1>1, <2>2, <3>1, <3>3
    <3>. QED
      BY <3>2, <3>3
  <2>6. ASSUME NEW q \in Requests, PutReplace(q) PROVE Then
    <3>1. CASE tmp # NoFile
      <4>1. path' = tmp /\ tmp' = NoFile
        BY <2>6, <3>1 DEF PutReplace, Replace, CanReplace
      <4>2. k[1] = path => path # tmp /\ (k[1] \in Requests => at[k[1]] \notin NotOpened)
        BY <1>0, <2>1 DEF PathsApart
      <4>. QED
        BY <1>0, <1>1, <2>1, <2>2, <4>1, <4>2
    <3>2. CASE tmp = NoFile
      BY <1>1, <2>2, <2>6, <3>2 DEF PutReplace, CanReplace, fileVars
    <3>. QED
      BY <3>1, <3>2
  <2>7. ASSUME NEW q \in Requests, PutClean(q) PROVE Then
    BY <1>0, <1>1, <2>1, <2>2, <2>7 DEF PutClean, RemoveTemporary
  <2>8. Then
    BY <2>3, <2>4, <2>5, <2>6, <2>7, FileMoves DEF Saves
  <2>. QED
    BY <2>8 DEF Past
<1>. QED
  BY <1>2, <1>3

\* What becomes of the cache.
LEMMA CacheMoves ==
  ASSUME Next
  PROVE  \/ \E t \in Tasks : TakeKey(t) \/ KeepAnswer(t)
         \/ UNCHANGED <<cached, stat>>
         \/ cached' = NoCache /\ stat' = [t \in Tasks |-> Nothing] /\ UNCHANGED <<path, tmp, content, writes>>
BY ConfigSteps, SavesKeep DEF Crash, configVars

LEMMA OneReaderStep ==
  ASSUME WType, OneReader, Next
  PROVE  OneReader'
<1>0. stat \in [Tasks -> Keys]
  BY DEF WType, CacheType
<1>. USE <1>0 DEF OneReader, Reading
<1>1. ASSUME NEW t \in Tasks, TakeKey(t) PROVE OneReader'
  BY <1>1 DEF TakeKey
<1>2. ASSUME NEW t \in Tasks, KeepAnswer(t) PROVE OneReader'
  BY <1>2 DEF KeepAnswer
<1>. QED
  BY <1>1, <1>2, CacheMoves

LEMMA KeysPastStep ==
  ASSUME WType, PathsApart, KeysPast, Next
  PROVE  KeysPast'
<1>0. cached.key \in Keys /\ stat \in [Tasks -> Keys] /\ FileType
  BY DEF WType, CacheType
<1>. DEFINE PastThen(k) == \/ k \in {Nothing, <<NoFile, 0>>}
                           \/ k[1] = path' /\ k[2] <= writes'[path']
                           \/ k[1] \notin {path', tmp'} /\ (k[1] \in Requests => at'[k[1]] \notin NotOpened)
<1>1. \A k \in Keys : Past(k) => PastThen(k)
  BY PastStep DEF Past
<1>2. Past(FileKey) /\ FileKey \in Keys
  BY <1>0, FileKeyType DEF Past, FileKey, FileType
<1>3. PastThen(cached.key) /\ (\A t \in Tasks : PastThen(stat[t])) /\ PastThen(FileKey) /\ PastThen(Nothing)
  BY <1>0, <1>1, <1>2 DEF KeysPast
<1>. HIDE DEF PastThen
<1>4. PastThen(cached'.key) /\ \A t \in Tasks : PastThen(stat'[t])
  <2>1. ASSUME NEW t \in Tasks, TakeKey(t) PROVE PastThen(cached'.key) /\ \A u \in Tasks : PastThen(stat'[u])
    BY <1>0, <1>3, <2>1 DEF TakeKey
  <2>2. ASSUME NEW t \in Tasks, KeepAnswer(t) PROVE PastThen(cached'.key) /\ \A u \in Tasks : PastThen(stat'[u])
    <3>1. cached'.key \in {cached.key, stat[t]} /\ stat' = [stat EXCEPT ![t] = Nothing]
      BY <2>2 DEF KeepAnswer
    <3>. QED
      BY <1>0, <1>3, <3>1
  <2>3. ASSUME cached' = NoCache /\ stat' = [t \in Tasks |-> Nothing]
        PROVE  PastThen(cached'.key) /\ \A u \in Tasks : PastThen(stat'[u])
    BY <1>3, <2>3 DEF NoCache
  <2>4. ASSUME UNCHANGED <<cached, stat>>
        PROVE  PastThen(cached'.key) /\ \A u \in Tasks : PastThen(stat'[u])
    BY <1>3, <2>4
  <2>. QED
    BY <2>1, <2>2, <2>3, <2>4, CacheMoves
<1>. QED
  BY <1>4 DEF PastThen, KeysPast, Past

\* A step that changes what the file holds also changes its key, and to one
\* that nobody knows.
LEMMA FileKeyMoves ==
  ASSUME WType, PathsApart, Next, NEW k \in Keys, Past(k), k # Nothing, k = FileKey'
  PROVE  k = FileKey /\ Load' = Load
<1>0. FileType /\ NoFile \notin Inodes /\ NoFile \notin Requests /\ Requests \subseteq Inodes
  BY WebOperationsAssumption, ConfigAssumption DEF WType, Inodes
<1>1. CASE UNCHANGED <<path, tmp, content, writes>>
  BY <1>1 DEF FileKey, Load
<1>2. ASSUME NEW q \in Requests, PutOpen(q) PROVE k = FileKey /\ Load' = Load
  <2>1. PICK i \in Inodes : /\ i # path /\ path' = path /\ content' = [content EXCEPT ![i] = Empty]
                            /\ writes' = [writes EXCEPT ![i] = writes[i] + 1]
    BY <1>0, <1>2, Opened
  <2>2. path # NoFile => content'[path] = content[path] /\ writes'[path] = writes[path]
    BY <1>0, <2>1 DEF FileType
  <2>. QED
    BY <2>1, <2>2 DEF FileKey, Load
<1>3. ASSUME NEW q \in Requests, PutWrite(q) PROVE k = FileKey /\ Load' = Load
  <2>1. PICK c : /\ path' = path /\ content' = [content EXCEPT ![handle[q]] = c]
                 /\ writes' = [writes EXCEPT ![handle[q]] = writes[handle[q]] + 1]
    BY <1>0, <1>3, Writes
  <2>2. CASE path # NoFile /\ path = handle[q]
    <3>1. path \in Inodes /\ writes[path] \in Nat /\ writes'[path] = writes[path] + 1
      BY <1>0, <2>1, <2>2 DEF FileType
    <3>2. k = <<path, writes[path] + 1>>
      BY <2>1, <2>2, <3>1 DEF FileKey
    <3>3. k \notin {Nothing, <<NoFile, 0>>} /\ k[1] = path /\ k[2] = writes[path] + 1
      BY <1>0, <3>1, <3>2
    <3>4. k[2] <= writes[path]
      BY <3>3 DEF Past
    <3>. QED
      BY <3>1, <3>3, <3>4
  <2>3. CASE path # NoFile /\ path # handle[q]
    BY <1>0, <2>1, <2>3 DEF FileKey, Load, FileType
  <2>4. CASE path = NoFile
    BY <2>1, <2>4 DEF FileKey, Load
  <2>. QED
    BY <2>2, <2>3, <2>4
<1>4. ASSUME NEW q \in Requests, PutReplace(q) PROVE k = FileKey /\ Load' = Load
  <2>1. CASE tmp # NoFile
    <3>1. path' = tmp /\ writes' = writes /\ tmp \in Inodes /\ path # tmp
      BY <1>0, <1>4, <2>1 DEF PutReplace, Replace, CanReplace, PathsApart, FileType
    <3>2. k = <<tmp, writes[tmp]>>
      BY <2>1, <3>1 DEF FileKey
    <3>3. k[1] = tmp /\ k # <<NoFile, 0>>
      BY <1>0, <3>1, <3>2
    <3>. QED
      BY <3>1, <3>3 DEF Past
  <2>2. CASE tmp = NoFile
    BY <1>4, <2>2 DEF PutReplace, CanReplace, fileVars, FileKey, Load
  <2>. QED
    BY <2>1, <2>2
<1>5. ASSUME NEW q \in Requests, PutClean(q) PROVE k = FileKey /\ Load' = Load
  BY <1>5 DEF PutClean, RemoveTemporary, FileKey, Load
<1>. QED
  BY <1>1, <1>2, <1>3, <1>4, <1>5, FileMoves DEF Saves

LEMMA CacheTrueStep ==
  ASSUME WType, FileInv, Next
  PROVE  CacheTrue'
<1>0. cached.key \in Keys /\ stat \in [Tasks -> Keys] /\ FileType
  BY DEF WType, CacheType
<1>. SUFFICES ASSUME cached'.config # Nothing, cached'.key = FileKey'
              PROVE  cached'.config = Load'
  BY DEF CacheTrue
<1>1. FileKey' # Nothing
  BY FileTypeStep, ConfigAssumption DEF FileType, FileKey
<1>2. CASE cached' = cached
  <2>1. cached.key = FileKey /\ Load' = Load
    BY <1>0, <1>1, <1>2, FileKeyMoves DEF FileInv, KeysPast
  <2>. QED
    BY <1>2, <2>1 DEF FileInv, CacheTrue
<1>3. ASSUME NEW t \in Tasks, KeepAnswer(t), cached' # cached PROVE cached'.config = Load'
  <2>1. cached'.config = Load /\ UNCHANGED fileVars
    BY <1>3 DEF KeepAnswer
  <2>. QED
    BY <2>1 DEF fileVars, Load
<1>. QED
  BY <1>2, <1>3, CacheMoves DEF TakeKey, NoCache

LEMMA FileStep ==
  ASSUME WType, FileInv, Next
  PROVE  FileInv'
BY PathsApartStep, KeysPastStep, CacheTrueStep, OneReaderStep DEF FileInv

-----------------------------------------------------------------------------
(* A whole configuration is stored.                                        *)

SaveInv == ~overlapped =>
  /\ \A p, q \in Saving : p = q
  /\ path # NoFile => content[path] \in Configs
  /\ \A q \in Requests :
       /\ at[q] = "put.write" => tmp # NoFile /\ handle[q] = tmp /\ content[tmp] = Empty
       /\ at[q] = "put.replace" => tmp # NoFile /\ content[tmp] \in Configs

LEMMA SaveStep ==
  ASSUME WType, PathsApart, SaveInv, HNext
  PROVE  SaveInv'
<1>. SUFFICES ASSUME ~overlapped' PROVE SaveInv'
  BY DEF SaveInv
<1>0. /\ FileType /\ PlaceType /\ Next /\ NoFile \notin Inodes /\ Requests \subseteq Tasks
      /\ at \in [Tasks -> Places] /\ Run \notin Requests /\ ~overlapped
      /\ \A p, q \in Saving' : p = q
  BY WebOperationsAssumption, ConfigAssumption DEF WType, PlaceType, HNext
<1>1. /\ path # NoFile => content[path] \in Configs
      /\ \A p, q \in Saving : p = q
      /\ \A q \in Requests :
           /\ at[q] = "put.write" => tmp # NoFile /\ handle[q] = tmp /\ content[tmp] = Empty
           /\ at[q] = "put.replace" => tmp # NoFile /\ content[tmp] \in Configs
  BY <1>0 DEF SaveInv
<1>. DEFINE Then == /\ path' # NoFile => content'[path'] \in Configs
                    /\ \A q \in Requests :
                         /\ at'[q] = "put.write" => tmp' # NoFile /\ handle'[q] = tmp' /\ content'[tmp'] = Empty
                         /\ at'[q] = "put.replace" => tmp' # NoFile /\ content'[tmp'] \in Configs
<1>2. ASSUME NEW q \in Requests, PutOpen(q) PROVE Then
  <2>1. PICK i \in Inodes :
           /\ i # path /\ tmp' = i /\ path' = path /\ handle' = [handle EXCEPT ![q] = i]
           /\ content' = [content EXCEPT ![i] = Empty] /\ at' = [at EXCEPT ![q] = "put.write"]
    BY <1>0, <1>2, Opened
  <2>2. \A p \in Requests : p # q => at'[p] \notin SavingPlaces
    BY <1>0, <2>1 DEF Saving, SavingPlaces
  <2>. QED
    BY <1>0, <1>1, <2>1, <2>2 DEF FileType, SavingPlaces
<1>3. ASSUME NEW q \in Requests, PutWrite(q) PROVE Then
  <2>1. /\ UNCHANGED <<path, tmp, handle>> /\ handle[q] = tmp /\ tmp # NoFile /\ tmp # path /\ content[tmp] = Empty
    BY <1>0, <1>1, <1>3, Writes DEF PathsApart
  <2>2. PICK c : content' = [content EXCEPT ![tmp] = c]
    BY <1>0, <1>3, <2>1, Writes
  <2>3. path # NoFile => content'[path] = content[path]
    BY <1>0, <2>1, <2>2 DEF FileType
  <2>4. \A p \in Requests : p # q => at'[p] \notin {"put.write", "put.replace"}
    BY <1>0, <1>1, <1>3, Writes DEF Saving
  <2>5. at'[q] # "put.write"
    BY <1>0, <1>3, Writes
  <2>6. at'[q] = "put.replace" => content'[tmp] \in Configs
    <3>1. at'[q] = "put.replace" => content' = [content EXCEPT ![tmp] = work[q]]
      BY <1>0, <1>3, <2>1, Writes
    <3>2. work[q] \in Configs
      BY <1>0, <1>3, Writes DEF WType, WorkType
    <3>. QED
      BY <2>1, <3>1, <3>2, <1>0 DEF FileType
  <2>. QED
    BY <1>1, <2>1, <2>3, <2>4, <2>5, <2>6
<1>4. ASSUME NEW q \in Requests, PutReplace(q) PROVE Then
  <2>1. /\ at[q] = "put.replace" /\ at' = [at EXCEPT ![q] = "put.clean"]
        /\ path' = tmp /\ tmp' = NoFile /\ UNCHANGED <<content, handle>>
    BY <1>1, <1>4 DEF PutReplace, Goes, Replace, CanReplace
  <2>2. \A p \in Requests : p # q => at'[p] \notin {"put.write", "put.replace"}
    BY <1>0, <1>1, <2>1 DEF Saving
  <2>. QED
    BY <1>0, <1>1, <2>1, <2>2
<1>5. ASSUME NEW q \in Requests, PutClean(q) PROVE Then
  <2>1. /\ at[q] = "put.clean" /\ at' = [at EXCEPT ![q] = "done"] /\ UNCHANGED <<path, content>>
    BY <1>5 DEF PutClean, Goes, RemoveTemporary
  <2>2. \A p \in Requests : at'[p] \notin {"put.write", "put.replace"}
    BY <1>0, <1>1, <2>1 DEF Saving
  <2>. QED
    BY <1>1, <2>1, <2>2
<1>6. ASSUME \A q \in Requests : ~Saves(q) PROVE Then
  <2>1. UNCHANGED <<path, tmp, content>>
    BY <1>0, <1>6, FileMoves
  <2>2. \A q \in Requests : at'[q] \in {"put.write", "put.replace"} => at'[q] = at[q] /\ ~Crash
    BY <1>0, <1>6, Elsewhere, Enters DEF SavingPlaces, Crash
  <2>3. UNCHANGED handle \/ Crash
    BY <1>0, <1>6, ConfigSteps DEF TakeKey, KeepAnswer, configVars, fileVars
  <2>. QED
    BY <1>1, <2>1, <2>2, <2>3
<1>7. Then
  BY <1>2, <1>3, <1>4, <1>5, <1>6 DEF Saves
<1>. QED
  BY <1>0, <1>7 DEF SaveInv

-----------------------------------------------------------------------------
(* An answer was current during the call.                                  *)

FreshInv ==
  \A t \in Tasks : Reading(t) =>
    /\ Load \in during[t]
    /\ cached.config # Nothing /\ cached.key = stat[t] => cached.config \in during[t]

LEMMA AnswerIsFresh ==
  ASSUME FreshInv, NEW t \in Tasks, Reading(t)
  PROVE  Answer(t) \in during[t]
BY DEF FreshInv, Answer, Stale

\* Only its own step begins or ends a task's read.
LEMMA ReadMoves ==
  ASSUME WType, OneReader, Next, NEW t \in Tasks, Reading(t)'
  PROVE  \/ TakeKey(t) /\ ~Reading(t) /\ UNCHANGED <<cached, path, tmp, content, writes>>
         \/ Reading(t) /\ stat'[t] = stat[t] /\ cached' = cached
<1>0. stat \in [Tasks -> Keys]
  BY DEF WType, CacheType
<1>. USE <1>0 DEF Reading
<1>1. ASSUME NEW u \in Tasks, TakeKey(u)
      PROVE  \/ TakeKey(t) /\ ~Reading(t) /\ UNCHANGED <<cached, path, tmp, content, writes>>
             \/ Reading(t) /\ stat'[t] = stat[t] /\ cached' = cached
  BY <1>1 DEF TakeKey, fileVars
<1>2. ASSUME NEW u \in Tasks, KeepAnswer(u) PROVE FALSE
  BY <1>2 DEF KeepAnswer, OneReader
<1>. QED
  BY <1>1, <1>2, CacheMoves

LEMMA FreshStep ==
  ASSUME WType, FileInv, FreshInv, HNext
  PROVE  FreshInv'
<1>. SUFFICES ASSUME NEW t \in Tasks, Reading(t)'
              PROVE  /\ Load' \in during'[t]
                     /\ cached'.config # Nothing /\ cached'.key = stat'[t] => cached'.config \in during'[t]
  BY DEF FreshInv
<1>1. during'[t] = {Load, Load'} \cup (IF Reading(t) THEN during[t] ELSE {})
  BY DEF HNext
<1>2. CASE TakeKey(t) /\ UNCHANGED <<cached, path, tmp, content, writes>>
  <2>1. stat'[t] = FileKey
    BY <1>2 DEF TakeKey, WType, CacheType
  <2>. QED
    BY <1>1, <1>2, <2>1 DEF FileInv, CacheTrue
<1>3. CASE Reading(t) /\ stat'[t] = stat[t] /\ cached' = cached
  BY <1>1, <1>3 DEF FreshInv
<1>. QED
  BY <1>2, <1>3, ReadMoves DEF HNext, FileInv

-----------------------------------------------------------------------------
(* The run's reads.                                                        *)

RunInv ==
  /\ running <=> at[Run] # "idle"
  /\ ~running => seen = NothingSeen
  /\ Reading(Run) => at[Run] \in Uses
  /\ running => ~OrchestratorBusy
  /\ running /\ ~late => /\ Putting = {}
                         /\ \A u \in Uses : seen[u] \in {Nothing, Load}
                         /\ Reading(Run) => stat[Run] = FileKey

\* While a run is in progress nobody comes to save, and no job starts.
LEMMA NoneArrive ==
  ASSUME PlaceType, Next, running
  PROVE  /\ Putting = {} => Putting' = {} /\ UNCHANGED <<path, tmp, content, writes>>
         /\ ~OrchestratorBusy => ~OrchestratorBusy'
<1>1. ASSUME NEW q \in Requests
      PROVE  /\ at'[q] \in PuttingPlaces => at[q] \in PuttingPlaces
             /\ at'[q] \in JobSteps => at[q] \in JobSteps
  BY <1>1, Elsewhere, Enters DEF PuttingPlaces, SavingPlaces, JobSteps
<1>2. ASSUME NEW q \in Requests, Saves(q) PROVE q \in Putting
  BY <1>2 DEF Saves, PutOpen, PutWrite, PutReplace, PutClean, Goes, Putting, Saving
<1>3. Putting = {q \in Requests : at[q] \in PuttingPlaces}
  BY DEF Putting, Saving, PuttingPlaces, SavingPlaces
<1>4. Putting' = {q \in Requests : at'[q] \in PuttingPlaces}
  BY DEF Putting, Saving, PuttingPlaces, SavingPlaces
<1>. QED
  BY <1>1, <1>2, <1>3, <1>4, FileMoves DEF OrchestratorBusy

\* What the run is between its steps.
LEMMA RunSteps ==
  ASSUME WType, RunInv, Next
  PROVE  /\ running' <=> at'[Run] # "idle"
         /\ ~running' => seen' = NothingSeen
         /\ Reading(Run)' => at'[Run] \in Uses
         /\ running' => Start \/ running
         /\ UNCHANGED seen \/ seen' = NothingSeen \/ ReadConfig
<1>0. /\ Run \in Tasks /\ Run \notin Requests /\ at \in [Tasks -> Places] /\ PlaceType
      /\ stat \in [Tasks -> Keys] /\ seen \in [Uses -> Configs \cup {Nothing}]
  BY WebOperationsAssumption DEF WType, PlaceType, CacheType, SeenType
<1>. USE <1>0 DEF RunInv, Goes, Reading
<1>. DEFINE Then == /\ running' <=> at'[Run] # "idle"
                    /\ ~running' => seen' = NothingSeen
                    /\ Reading(Run)' => at'[Run] \in Uses
                    /\ running' => Start \/ running
                    /\ UNCHANGED seen \/ seen' = NothingSeen \/ ReadConfig
<1>1. ASSUME NEW q \in Requests, RequestStep(q) PROVE Then
  <2>1. at'[Run] = at[Run] /\ UNCHANGED runVars
    BY <1>1, RequestMoves
  <2>2. stat'[Run] \in {stat[Run], Nothing}
    <3>1. ASSUME TakeKey(q) \/ KeepAnswer(q) \/ UNCHANGED configVars \/ UNCHANGED <<cached, stat>>
          PROVE  stat'[Run] \in {stat[Run], Nothing}
      BY <3>1 DEF TakeKey, KeepAnswer, configVars
    <3>. QED
      BY <1>1, <3>1, RequestSteps, PlainKeeps, AsksKeep, AnswersKeep, SavesKeep
  <2>. QED
    BY <2>1, <2>2 DEF runVars
<1>2. CASE Start \/ LoadOrchestrator \/ StartCleaning \/ EndRounds
  BY <1>2 DEF Start, LoadOrchestrator, StartCleaning, EndRounds, Uses, configVars
<1>3. CASE AskConfig
  BY <1>3 DEF AskConfig, TakeKey, runVars
<1>4. CASE ReadConfig
  <2>1. stat'[Run] = Nothing
    BY <1>4 DEF ReadConfig, KeepAnswer
  <2>2. CASE RunEnds
    BY <1>4, <2>1, <2>2 DEF RunEnds
  <2>3. CASE UNCHANGED running /\ at' = [at EXCEPT ![Run] = After(at[Run], Answer(Run))]
    <3>1. at[Run] \in Uses
      BY <1>4 DEF ReadConfig
    <3>2. After(at[Run], Answer(Run)) # "idle" /\ at[Run] # "idle"
      BY <3>1 DEF After, Uses
    <3>. QED
      BY <1>4, <2>1, <2>3, <3>2
  <2>. QED
    BY <1>4, <2>2, <2>3 DEF ReadConfig
<1>5. CASE Settled \/ UnloadsDone \/ \E m \in Models : AskNext(m) \/ GivesUp(m)
  BY <1>5 DEF Settled, UnloadsDone, AskNext, GivesUp, Unloading, RunEnds, Uses, configVars, runVars
<1>6. CASE RunFails
  BY <1>6 DEF RunFails, RunEnds, configVars
<1>7. CASE Crash
  BY <1>7 DEF Crash
<1>8. ASSUME NEW q, NEW m, ServerTakes(q, m) PROVE Then
  BY <1>8 DEF ServerTakes, configVars, runVars
<1>9. ASSUME NEW m, ServerFrees(m) PROVE Then
  BY <1>9 DEF ServerFrees, configVars, runVars
<1>. QED
  BY <1>1, <1>2, <1>3, <1>4, <1>5, <1>6, <1>7, <1>8, <1>9 DEF Next, RunStep

LEMMA RunInvStep ==
  ASSUME WType, FileInv, RunInv, HNext
  PROVE  RunInv'
<1>0. /\ Run \in Tasks /\ Run \notin Requests /\ at \in [Tasks -> Places] /\ PlaceType /\ Next
      /\ stat \in [Tasks -> Keys] /\ seen \in [Uses -> Configs \cup {Nothing}] /\ FileType
      /\ Requests \subseteq Tasks
  BY WebOperationsAssumption DEF WType, PlaceType, CacheType, SeenType, HNext
<1>1. /\ running' <=> at'[Run] # "idle"
      /\ ~running' => seen' = NothingSeen
      /\ Reading(Run)' => at'[Run] \in Uses
      /\ running' => Start \/ running
      /\ UNCHANGED seen \/ seen' = NothingSeen \/ ReadConfig
  BY <1>0, RunSteps
<1>2. running' => ~OrchestratorBusy'
  <2>1. CASE Start
    <3>1. \A q \in Requests : at'[q] = at[q]
      BY <1>0, <2>1 DEF Start, Goes
    <3>. QED
      BY <2>1, <3>1 DEF Start, OrchestratorBusy
  <2>. QED
    BY <1>0, <1>1, <2>1, NoneArrive DEF RunInv
<1>3. ASSUME running', ~late'
      PROVE  /\ Putting' = {}
             /\ \A u \in Uses : seen'[u] \in {Nothing, Load'}
             /\ Reading(Run)' => stat'[Run] = FileKey'
  <2>1. CASE Start
    <3>1. Opens
      BY <1>0, <2>1 DEF Start, Goes, Opens
    <3>2. Putting' = {}
      BY <1>3, <3>1 DEF HNext
    <3>3. seen' = NothingSeen /\ stat' = stat
      BY <2>1 DEF Start, RunInv, configVars
    <3>4. ~Reading(Run)
      BY <2>1 DEF Start, RunInv, Goes, Uses
    <3>. QED
      BY <3>2, <3>3, <3>4 DEF NothingSeen, Reading
  <2>2. CASE running
    <3>1. ~late
      BY <1>3, <2>2 DEF HNext, Opens, RunInv
    <3>2. /\ Putting = {} /\ (\A u \in Uses : seen[u] \in {Nothing, Load}) /\ (Reading(Run) => stat[Run] = FileKey)
      BY <2>2, <3>1 DEF RunInv
    <3>3. Putting' = {} /\ UNCHANGED <<path, tmp, content, writes>>
      BY <1>0, <2>2, <3>2, NoneArrive
    <3>4. Load' = Load /\ FileKey' = FileKey
      BY <3>3 DEF Load, FileKey
    <3>5. \A u \in Uses : seen'[u] \in {Nothing, Load}
      <4>1. ASSUME ReadConfig, ~RunEnds PROVE \A u \in Uses : seen'[u] \in {Nothing, Load}
        <5>1. Answer(Run) = Load
          BY <1>0, <3>2, <4>1 DEF ReadConfig, Answer, Stale, FileInv, CacheTrue
        <5>2. seen' = [seen EXCEPT ![at[Run]] = Answer(Run)]
          BY <4>1 DEF ReadConfig
        <5>. QED
          BY <1>0, <3>2, <5>1, <5>2
      <4>2. ASSUME seen' = NothingSeen \/ RunEnds PROVE \A u \in Uses : seen'[u] \in {Nothing, Load}
        BY <4>2 DEF NothingSeen, RunEnds
      <4>. QED
        BY <1>1, <3>2, <4>1, <4>2
    <3>6. Reading(Run)' => stat'[Run] = FileKey
      <4>. SUFFICES ASSUME Reading(Run)' PROVE stat'[Run] = FileKey
        OBVIOUS
      <4>1. TakeKey(Run) \/ (Reading(Run) /\ stat'[Run] = stat[Run])
        BY <1>0, ReadMoves DEF FileInv
      <4>. QED
        BY <1>0, <3>2, <4>1 DEF TakeKey
    <3>. QED
      BY <3>3, <3>4, <3>5, <3>6
  <2>. QED
    BY <1>1, <1>3, <2>1, <2>2
<1>. QED
  BY <1>1, <1>2, <1>3 DEF RunInv

-----------------------------------------------------------------------------
(* The advisory stays local.                                               *)

AdviceInv == ~slipped => \A q \in Requests :
  /\ at[q] = "advise.check" => Reading(q) /\ during[q] = {Load}
  /\ at[q] = "advise.open" => StaysLocal(Load) /\ (Reading(q) => during[q] = {Load})
  /\ at[q] = "advise.call" => work[q].provider = "ollama"

\* What a request that has work to send keeps doing with it.
LEMMA OthersWork ==
  ASSUME WType, Next, NEW q \in Requests, at'[q] = "advise.call"
  PROVE  AdviseOpen(q) \/ (at[q] = "advise.call" /\ work'[q] = work[q])
<1>0. at \in [Tasks -> Places] /\ PlaceType /\ q \in Tasks /\ q # Run
  BY WebOperationsAssumption DEF WType, PlaceType
<1>1. ASSUME NEW p \in Requests, RequestStep(p), p # q
      PROVE  at[q] = "advise.call" /\ work'[q] = work[q]
  BY <1>0, <1>1, RequestMoves, WorkMoves DEF Merges, Builds, Discards, Carries, WType, WorkType
<1>2. ASSUME RequestStep(q)
      PROVE  AdviseOpen(q) \/ (at[q] = "advise.call" /\ work'[q] = work[q])
  BY <1>0, <1>2, Enters DEF CloseTask
<1>3. CASE RunStep
  BY <1>0, <1>3, RunMoves
<1>4. CASE Crash
  BY <1>0, <1>4 DEF Crash
<1>5. ASSUME NEW p, NEW m, ServerTakes(p, m) PROVE at[q] = "advise.call" /\ work'[q] = work[q]
  BY <1>0, <1>5 DEF ServerTakes
<1>6. ASSUME NEW m, ServerFrees(m) PROVE at[q] = "advise.call" /\ work'[q] = work[q]
  BY <1>0, <1>6 DEF ServerFrees
<1>. QED
  BY <1>1, <1>2, <1>3, <1>4, <1>5, <1>6 DEF Next

\* A step of another request, of the run or of the server leaves a request's
\* read alone, unless it ends the process.
LEMMA KeepsReading ==
  ASSUME WType, OneReader, Next, NEW q \in Requests, Reading(q), ~RequestStep(q), ~Crash
  PROVE  Reading(q)'
<1>0. stat \in [Tasks -> Keys] /\ q \in Tasks /\ q # Run
  BY WebOperationsAssumption DEF WType, CacheType
<1>. USE <1>0 DEF Reading, OneReader
<1>1. ASSUME NEW t \in Tasks, t # q, TakeKey(t) \/ KeepAnswer(t) PROVE Reading(q)'
  BY <1>1 DEF TakeKey, KeepAnswer
<1>2. ASSUME UNCHANGED configVars \/ UNCHANGED <<cached, stat>> PROVE Reading(q)'
  BY <1>2 DEF configVars
<1>3. ASSUME NEW p \in Requests, RequestStep(p) PROVE Reading(q)'
  <2>1. p # q /\ p \in Tasks
    BY <1>3, WebOperationsAssumption
  <2>. QED
    BY <1>1, <1>2, <1>3, <2>1, RequestSteps, PlainKeeps, AsksKeep, AnswersKeep, SavesKeep
<1>4. CASE RunStep
  BY <1>0, <1>1, <1>2, <1>4, RunKeeps, WebOperationsAssumption
<1>5. ASSUME NEW p, NEW m, ServerTakes(p, m) PROVE Reading(q)'
  BY <1>2, <1>5 DEF ServerTakes
<1>6. ASSUME NEW m, ServerFrees(m) PROVE Reading(q)'
  BY <1>2, <1>6 DEF ServerFrees
<1>. QED
  BY <1>3, <1>4, <1>5, <1>6 DEF Next

LEMMA AdviceStep ==
  ASSUME WType, FileInv, FreshInv, AdviceInv, HNext
  PROVE  AdviceInv'
<1>0. /\ at \in [Tasks -> Places] /\ PlaceType /\ Next /\ Requests \subseteq Tasks
      /\ stat \in [Tasks -> Keys] /\ OneReader
      /\ work \in [Requests -> Configs \cup Roles \cup {Nothing}]
  BY WebOperationsAssumption DEF WType, PlaceType, CacheType, WorkType, HNext, FileInv
<1>1. \A q \in Requests : Reading(q)' =>
        during'[q] = {Load, Load'} \cup (IF Reading(q) THEN during[q] ELSE {})
  BY <1>0 DEF HNext
<1>. SUFFICES ASSUME ~slipped', NEW q \in Requests
              PROVE  /\ at'[q] = "advise.check" => Reading(q)' /\ during'[q] = {Load'}
                     /\ at'[q] = "advise.open" => StaysLocal(Load)' /\ (Reading(q)' => during'[q] = {Load'})
                     /\ at'[q] = "advise.call" => work'[q].provider = "ollama"
  BY DEF AdviceInv
<1>2. ASSUME AdviseCheck(q) PROVE Reading(q)' /\ during'[q] = {Load'} /\ at'[q] = "advise.check"
  <2>1. TakeKey(q) /\ at'[q] = "advise.check"
    BY <1>0, <1>2 DEF AdviseCheck, Goes
  <2>2. ~Reading(q) /\ Load' = Load
    BY <1>0, <2>1 DEF TakeKey, Load, fileVars
  <2>3. Reading(q)'
    BY <1>0, <2>1, FileKeyType DEF TakeKey, Reading, WType
  <2>. QED
    BY <1>1, <2>1, <2>2, <2>3
<1>3. CASE Advising
  <2>1. ~slipped /\ Load' = Load
    BY <1>3 DEF HNext
  <2>2. /\ at[q] = "advise.check" => Reading(q) /\ during[q] = {Load}
        /\ at[q] = "advise.open" => StaysLocal(Load) /\ (Reading(q) => during[q] = {Load})
        /\ at[q] = "advise.call" => work[q].provider = "ollama"
    BY <2>1 DEF AdviceInv
  <2>3. StaysLocal(Load)' <=> StaysLocal(Load)
    BY <2>1 DEF StaysLocal
  <2>4. ASSUME at'[q] = "advise.check" PROVE Reading(q)' /\ during'[q] = {Load'}
    <3>1. CASE at[q] = "advise.check"
      <4>1. Reading(q)'
        <5>1. CASE RequestStep(q) /\ ~AdviseCheck(q)
          <6>1. CloseTask(q)
            BY <1>0, <2>4, <5>1, Enters
          <6>. QED
            BY <2>2, <3>1, <6>1 DEF CloseTask, configVars, Reading
        <5>2. CASE Crash
          BY <1>0, <2>4, <5>2, WebOperationsAssumption DEF Crash
        <5>. QED
          BY <1>0, <1>2, <2>2, <3>1, <5>1, <5>2, KeepsReading
      <4>. QED
        BY <1>1, <2>1, <2>2, <3>1, <4>1
    <3>2. CASE at[q] # "advise.check"
      <4>1. AdviseCheck(q)
        BY <1>0, <2>4, <3>2, Elsewhere, Enters
      <4>. QED
        BY <1>2, <4>1
    <3>. QED
      BY <3>1, <3>2
  <2>5. ASSUME at'[q] = "advise.open" PROVE StaysLocal(Load) /\ (Reading(q)' => during'[q] = {Load'})
    <3>1. CASE at[q] = "advise.open"
      BY <1>1, <2>1, <2>2, <3>1
    <3>2. CASE at[q] # "advise.open"
      <4>1. AdviseAllowed(q)
        BY <1>0, <2>5, <3>2, Elsewhere, Enters DEF AdviseAsk
      <4>2. at[q] = "advise.check" /\ KeepAnswer(q) /\ StaysLocal(Answer(q))
        BY <1>0, <2>5, <4>1 DEF AdviseAllowed, Ends
      <4>3. Answer(q) = Load
        BY <1>0, <2>2, <4>2, AnswerIsFresh
      <4>4. ~Reading(q)'
        BY <1>0, <4>2 DEF KeepAnswer, Reading
      <4>. QED
        BY <4>2, <4>3, <4>4
    <3>. QED
      BY <3>1, <3>2
  <2>6. ASSUME at'[q] = "advise.call" PROVE work'[q].provider = "ollama"
    <3>1. CASE AdviseOpen(q)
      <4>1. at[q] = "advise.open" /\ Reading(q)
        BY <3>1 DEF AdviseOpen, KeepAnswer
      <4>2. Answer(q) = Load /\ StaysLocal(Load)
        BY <1>0, <2>2, <4>1, AnswerIsFresh
      <4>3. work'[q] = Answer(q).orchestrator
        BY <1>0, <2>6, <3>1 DEF AdviseOpen, Ends
      <4>. QED
        BY <4>2, <4>3 DEF StaysLocal
    <3>. QED
      BY <1>0, <2>2, <2>6, <3>1, OthersWork
  <2>. QED
    BY <2>3, <2>4, <2>5, <2>6
<1>4. CASE ~Advising
  <2>1. at[q] \notin {"advise.check", "advise.open"}
    BY <1>4 DEF Advising
  <2>2. at'[q] = "advise.check" => AdviseCheck(q)
    BY <1>0, <2>1, Elsewhere, Enters
  <2>3. at'[q] # "advise.open"
    BY <1>0, <2>1, Elsewhere, Enters DEF AdviseAllowed, AdviseAsk
  <2>4. ASSUME at'[q] = "advise.call" PROVE work'[q].provider = "ollama"
    <3>1. ~slipped
      BY <1>4, <2>4 DEF HNext
    <3>2. at[q] = "advise.call" /\ work'[q] = work[q]
      BY <1>0, <2>1, <2>4, OthersWork DEF AdviseOpen
    <3>. QED
      BY <3>1, <3>2 DEF AdviceInv
  <2>. QED
    BY <1>2, <2>2, <2>3, <2>4
<1>. QED
  BY <1>3, <1>4

-----------------------------------------------------------------------------
(* The rounds hold one model.                                              *)

ModelInv == ~excused =>
  /\ Testing = {}
  /\ at[Run] = "clean.unload" => ("orchestrator" \in resident => "orchestrator" \in todo)
  /\ at[Run] = "rounds" /\ Local("worker") => "orchestrator" \notin resident

\* Before the rounds and in them nobody but the server's caller loads a model,
\* and none that calls the orchestrator is there.
LEMMA NoOrchestrator ==
  ASSUME WType, ModelInv, RunInv, Next, ~excused, at[Run] \in {"clean", "clean.unload", "rounds"},
         "orchestrator" \in resident'
  PROVE  "orchestrator" \in resident
<1>0. running /\ ~OrchestratorBusy /\ Testing = {}
  BY DEF RunInv, ModelInv
<1>1. ASSUME NEW q \in Requests, RequestStep(q) PROVE UNCHANGED resident
  BY <1>1 DEF RequestStep, Put, PutMerge, PutOpen, PutWrite, PutReplace, PutClean, Test, TestBuild, TestClose,
       Interview, FindEntry, Lock, ReadContext, OpenRole, KeepEngine, InterviewFails, Turn, CloseTask, Advise,
       AdviseGate, AdviseStart, AdviseCheck, AdviseAllowed, AdviseAsk, AdviseOpen, AdviseClose, AdviseEnds,
       AskUnload, serverVars
<1>2. ASSUME NEW q \in Requests, NEW m, ServerTakes(q, m) PROVE resident' = resident \cup {m} /\ m # "orchestrator"
  <2>1. at[q] \notin {"test.orchestrator", "advise.call"}
    BY <1>0 DEF Testing, OrchestratorBusy, JobSteps
  <2>2. Awaited(q) \subseteq {"worker"}
    BY <2>1 DEF Awaited
  <2>. QED
    BY <1>2, <2>2 DEF ServerTakes, Chat
<1>3. CASE UnloadsDone
  BY <1>3 DEF UnloadsDone, Goes, Chat, serverVars
<1>4. CASE RunStep
  BY <1>3, <1>4 DEF RunStep, Start, AskConfig, ReadConfig, LoadOrchestrator, StartCleaning, EndRounds, Settled,
                    RunFails, AskNext, GivesUp, AskUnload, Goes, serverVars
<1>5. CASE Crash
  BY <1>5 DEF Crash, serverVars
<1>6. ASSUME NEW m, ServerFrees(m) PROVE resident' \subseteq resident
  BY <1>6 DEF ServerFrees, Free
<1>. QED
  BY <1>1, <1>2, <1>4, <1>5, <1>6 DEF Next

LEMMA ModelStep ==
  ASSUME WType, RunInv, ModelInv, HNext
  PROVE  ModelInv'
<1>0. /\ at \in [Tasks -> Places] /\ PlaceType /\ Next /\ Run \in Tasks /\ Run \notin Requests
  BY WebOperationsAssumption DEF WType, PlaceType, HNext
<1>. SUFFICES ASSUME ~excused'
              PROVE  /\ Testing' = {}
                     /\ at'[Run] = "clean.unload" => ("orchestrator" \in resident' => "orchestrator" \in todo')
                     /\ at'[Run] = "rounds" /\ Local("worker")' => "orchestrator" \notin resident'
  BY DEF ModelInv
<1>1. Testing' = {} /\ (Opens \/ (~excused /\ ~LeavesLoaded))
  BY DEF HNext
<1>2. CASE Opens
  BY <1>1, <1>2 DEF Opens
<1>3. CASE ~Opens
  <2>1. /\ ~excused /\ ~LeavesLoaded
        /\ at[Run] = "clean.unload" => ("orchestrator" \in resident => "orchestrator" \in todo)
        /\ at[Run] = "rounds" /\ Local("worker") => "orchestrator" \notin resident
    BY <1>1, <1>3 DEF ModelInv
  <2>. DEFINE Then == /\ at'[Run] = "clean.unload" => ("orchestrator" \in resident' => "orchestrator" \in todo')
                      /\ at'[Run] = "rounds" /\ Local("worker")' => "orchestrator" \notin resident'
  <2>. SUFFICES Then
    BY <1>1
  <2>2. ASSUME at'[Run] = at[Run], UNCHANGED <<seen, todo>> PROVE Then
    BY <1>0, <2>1, <2>2, NoOrchestrator DEF Local
  <2>3. ASSUME NEW q \in Requests, RequestStep(q) PROVE Then
    BY <1>0, <2>2, <2>3, RequestMoves DEF runVars
  <2>4. ASSUME NEW q, NEW m, ServerTakes(q, m) PROVE Then
    BY <2>2, <2>4 DEF ServerTakes, runVars
  <2>5. ASSUME NEW m, ServerFrees(m) PROVE Then
    BY <2>2, <2>5 DEF ServerFrees, runVars
  <2>6. CASE Crash
    BY <1>0, <2>6 DEF Crash
  <2>7. CASE RunStep
    <3>. USE <1>0 DEF Goes
    <3>1. CASE Start \/ AskConfig \/ LoadOrchestrator \/ EndRounds \/ RunFails
      BY <3>1 DEF Start, AskConfig, LoadOrchestrator, EndRounds, RunFails, RunEnds, Uses
    <3>2. CASE ReadConfig
      BY <3>2 DEF ReadConfig, RunEnds, After, Uses
    <3>3. CASE StartCleaning
      <4>1. CASE Local("worker")
        BY <2>1, <3>3, <4>1 DEF StartCleaning, LeavesLoaded, ToClean, serverVars
      <4>2. CASE ~Local("worker")
        BY <3>3, <4>2 DEF StartCleaning, Local
      <4>. QED
        BY <4>1, <4>2
    <3>4. CASE Settled
      <4>1. UNCHANGED <<at, seen, resident>> /\ todo' = todo \ {asked} /\ asked \notin resident
        BY <3>4 DEF Settled, serverVars
      <4>. QED
        BY <2>1, <4>1 DEF Local
    <3>5. ASSUME NEW m \in Models, AskNext(m) PROVE Then
      BY <2>2, <3>5 DEF AskNext, runVars
    <3>6. ASSUME NEW m \in Models, GivesUp(m) PROVE Then
      <4>1. UNCHANGED <<at, seen, resident>> /\ todo' = todo \ {m} /\ m \in todo
        BY <3>6 DEF GivesUp, serverVars
      <4>2. at[Run] = "clean.unload" => m \notin resident
        BY <2>1, <4>1 DEF LeavesLoaded
      <4>. QED
        BY <2>1, <4>1, <4>2 DEF Local
    <3>7. CASE UnloadsDone
      <4>1. CASE RunEnds
        BY <4>1 DEF RunEnds
      <4>2. CASE Goes(Run, "seed.unload", "clean")
        BY <4>2
      <4>3. CASE Goes(Run, "clean.unload", "rounds") /\ Chat("worker") /\ todo = {}
        BY <2>1, <4>3 DEF Chat
      <4>. QED
        BY <3>7, <4>1, <4>2, <4>3 DEF UnloadsDone
    <3>. QED
      BY <2>7, <3>1, <3>2, <3>3, <3>4, <3>5, <3>6, <3>7 DEF RunStep
  <2>. QED
    BY <1>0, <2>3, <2>4, <2>5, <2>6, <2>7 DEF Next
<1>. QED
  BY <1>2, <1>3

-----------------------------------------------------------------------------
HInv == WType /\ FileInv /\ SaveInv /\ FreshInv /\ RunInv /\ AdviceInv /\ ModelInv

LEMMA HInitially ==
  ASSUME HInit
  PROVE  HInv
<1>0. /\ at = [t \in Tasks |-> IF t = Run THEN "idle" ELSE "new"]
      /\ Requests \subseteq Tasks /\ Run \in Tasks /\ Run \notin Requests
      /\ \A t \in Tasks : ~Reading(t)
      /\ \A q \in Requests : at[q] = "new"
  BY WebOperationsAssumption DEF HInit, Init, ConfigInit, Reading
<1>1. FileInv
  BY <1>0, ConfigAssumption
     DEF HInit, Init, ConfigInit, FileInv, PathsApart, KeysPast, CacheTrue, OneReader, Past, NoCache, Inodes
<1>2. SaveInv
  BY <1>0, ConfigAssumption DEF HInit, Init, ConfigInit, SaveInv, Saving, Inodes
<1>3. FreshInv
  BY <1>0 DEF FreshInv
<1>4. RunInv
  BY <1>0 DEF HInit, Init, RunInv, OrchestratorBusy, JobSteps, Putting, Saving
<1>5. AdviceInv /\ ModelInv
  BY <1>0 DEF AdviceInv, ModelInv, Testing
<1>. QED
  BY <1>1, <1>2, <1>3, <1>4, <1>5, Initially DEF HInv, HInit

LEMMA HStep ==
  ASSUME HInv, [HNext]_hvars
  PROVE  HInv'
<1>1. CASE HNext
  BY <1>1, TypeStep, FileStep, SaveStep, FreshStep, RunInvStep, AdviceStep, ModelStep DEF HInv, HNext, FileInv
<1>2. CASE UNCHANGED hvars
  <2>1. UNCHANGED vars /\ UNCHANGED <<during, overlapped, late, excused, slipped>>
    BY <1>2 DEF hvars
  <2>. QED
    BY <2>1, TypeStep DEF vars, configVars, serverVars, runVars, HInv, FileInv, PathsApart, KeysPast, CacheTrue,
       OneReader, Past, FileKey, Load, Reading, SaveInv, Saving, FreshInv, RunInv, Putting, OrchestratorBusy,
       AdviceInv, StaysLocal, ModelInv, Testing, Local
<1>. QED
  BY <1>1, <1>2

\* The history variables only watch: they forbid nothing that the web process
\* does.
THEOREM HistoryWatches == HSpec => Spec
<1>1. HInit => Init
  BY DEF HInit
<1>2. [HNext]_hvars => [Next]_vars
  BY DEF HNext, hvars
<1>. QED
  BY <1>1, <1>2, PTL DEF HSpec, Spec

\* An interrupted save leaves a whole configuration behind unless saves
\* overlap; every answer of the cached reader was in the file during the call;
\* the four reads of a run see one configuration unless a request that was
\* accepted before the run saves after it began; and the holdings only go to a
\* local orchestrator unless settings are saved behind the gate's last look
\* (inference/config.py:252, services/runtime.py:119, services/advisory.py:184).
THEOREM ConfigCurrent == HSpec => []ConfigIsCurrent
<1>1. HInit => HInv
  BY HInitially
<1>2. HInv /\ [HNext]_hvars => HInv'
  BY HStep
<1>3. HInv => ConfigIsCurrent
  <2>. SUFFICES ASSUME HInv PROVE ConfigIsCurrent
    OBVIOUS
  <2>1. StoredConfigWhole
    BY ConfigAssumption DEF HInv, SaveInv, StoredConfigWhole, Load
  <2>2. AnswersAreFresh
    BY AnswerIsFresh DEF HInv, AnswersAreFresh
  <2>3. RunUsesOneConfig
    BY DEF HInv, RunInv, RunUsesOneConfig, NothingSeen
  <2>4. AdviceStaysLocal
    BY DEF HInv, AdviceInv, AdviceStaysLocal
  <2>. QED
    BY <2>1, <2>2, <2>3, <2>4 DEF ConfigIsCurrent
<1>. QED
  BY <1>1, <1>2, <1>3, PTL DEF HSpec

\* The orchestrator is never in memory beside a local worker in the rounds,
\* unless the server refused to unload, or a connection test that began before
\* the run still called it (ollama_models.py:7).
THEOREM OneModel == HSpec => []RoundsHoldOneModel
<1>1. HInit => HInv
  BY HInitially
<1>2. HInv /\ [HNext]_hvars => HInv'
  BY HStep
<1>3. HInv => RoundsHoldOneModel
  BY DEF HInv, ModelInv, RoundsHoldOneModel
<1>. QED
  BY <1>1, <1>2, <1>3, PTL DEF HSpec
=============================================================================
