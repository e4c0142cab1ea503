----------------------------- MODULE MCFailures -----------------------------
(***************************************************************************)
(* What is checked of Failures, and of the calls of Exchanges and Replies  *)
(* that fail: a call however it is answered, every class of failure, a     *)
(* wave of any roster whose calls end in some order, a wave on an          *)
(* endpoint.  MCAnswers and MCPlacement say which inputs TLC tries.        *)
(***************************************************************************)
EXTENDS MCInputs, Replies, Exchanges, Failures

\* What each agent's call comes to, in which order they end, and how many more
\* of them a hard stop cancels than it must.
OneWave(m) ==
  /\ IsFiniteSet(m.roster)
  /\ m.outcome \in [m.roster -> {"decided", "unparsed"} \cup Classes]
  /\ m.order \in [1..Cardinality(m.roster) -> m.roster]
  /\ \A i, j \in DOMAIN m.order : m.order[i] = m.order[j] => i = j
  /\ Range(m.order) = m.roster
  /\ m.cut \in Nat

\* An endpoint answers with a success, an error, or not at all.
Answerable == {0, 1, 2, 200} \cup {s \in Nat : s >= 400}

\* What it answers to each of two or more tries of one call.
OneCall(answers) == Len(answers) \in Nat \ {0, 1} /\ answers \in Seq([status : Answerable, about : STRING])

\* What an endpoint answers to each try of every agent.
OneEndpoint(m) ==
  /\ m.agents \in Nat /\ m.retries \in Nat
  /\ m.answers \in [1..m.agents -> [1..m.retries + 1 -> [status : Nat, about : STRING]]]

-----------------------------------------------------------------------------
\* The first tries of a call that are answered by what may pass.
Transients(answers, limit) == {i \in 1..limit + 1 : \A j \in 1..i : CloudVerdict(answers[j]) = "retry"}

\* A call's result is that of its first answer that is not transient, if there
\* are retries enough to get to it; only a refusal that every agent would meet
\* stops the run, for none does a local model; a wait is with everyone only for a
\* 429.  A local model is asked as often, and answers when a cloud one does, but
\* for a connection that breaks in mid-call: the cloud adapters try again, the
\* Ollama client gives up at once with the transport's exception as it is
\* (inference/retry.py:76, openai_provider.py:355, ollama_client.py:63, 231).
CallEndsAsAnswered(answers) ==
  /\ \A limit \in 0..Len(answers) - 1 :
       LET c == CloudCall(answers, limit)
           first == Cardinality(Transients(answers, limit)) + 1
       IN  /\ c.result = IF first > limit + 1 THEN "fail" ELSE CloudVerdict(answers[first])
           /\ c.retries = Min({first - 1, limit}) /\ Len(c.waits) = c.retries
           /\ \A i \in DOMAIN c.waits : c.waits[i] = "everyone" <=> answers[i].status = 429
           /\ c.result \in {"auth", "config"} =>
                \/ answers[first].status \in {401, 403}
                \/ answers[first].status \in {400, 404, 422} /\ answers[first].about \notin {"context", "filter"}
  /\ LET tries == Len(answers) - 1
         l == LocalCall(answers, tries)
         c == CloudCall(answers, tries - 1)
         broken == answers[l.retries + 1].status = 2
     IN  /\ l.result \in {"done", "fail", "raw"} /\ l.retries < tries /\ l.retries <= c.retries
         /\ l.result = "raw" <=> broken
         /\ ~broken =>
              /\ l.retries = c.retries
              /\ (\A i \in 1..tries : answers[i].about # "unusable") => (l.result = "done" <=> c.result = "done")

\* A failed decision carries all the marks of one and a valid one none, whatever
\* the model says of its own errors; truncated is only what was cut off
\* (parsing.py:28, worker.py:266).
FailureMarksAgree(reply) ==
  \A signal \in {"buy", "PARSE_ERROR"}, said \in {"none", "timeout"}, finish \in {"stop", "length"} :
    LET m == Marks(ParseDecision(reply), [signal |-> signal, kind |-> said], finish) IN
    /\ m.kind # "none" <=> m.signal = "PARSE_ERROR"
    /\ m.tier = 3 <=> m.signal = "PARSE_ERROR"
    /\ m.kind = "truncated" => finish = "length"
    /\ m.kind \in {"none", "parse", "truncated"}

\* The calls of a wave that ended: all of them, or without the last, which the
\* first hard stop cancelled.
Finished(w) ==
  LET n == Cardinality(w.roster)
      all == [i \in 1..n |-> [agent |-> w.order[i], outcome |-> w.outcome[w.order[i]]]]
      stops == {i \in 1..n : Stops(all[i].outcome)}
  IN  IF stops = {} THEN all ELSE SubSeq(all, 1, Max({Min(stops), n - w.cut}))

\* A failure is told by the most special class that has a code, the same whoever
\* tells it; only what the configuration causes is told to be that
\* (errors.py:383, web/errors.py:161, services/jobs.py:48, cli.py:863).
CauseIsTold(e) ==
  LET codes == {d \in Range(Described) : IsA(e, d[1])}
      nearest == {d \in codes : \A c \in codes : IsA(d[1], c[1])}
      config == RunCode(e) = "inference_config_invalid"
  IN  /\ RunCode(e) = IF codes = {} THEN "internal_error" ELSE (CHOOSE d \in nearest : TRUE)[2]
      /\ \A h \in HardStops : IsA(e, h) => \A g \in HardStops : RunCode(e) = RunCode(g) <=> g = h
      /\ config <=> JobCode("report", e, "cloud_provider") = "inference_config_invalid"
      /\ config => HttpStatus(e) = 422 /\ ExitCode(e) = 2
      /\ IsA(e, "GraphError") => (HttpStatus(e) = 503 <=> RunCode(e) = "graph_unavailable")
      /\ \A cause \in {"driver", "auth", "pool", "server"}, write \in BOOLEAN :
           RunCode(GraphFailure(cause, write)) = "graph_unavailable" <=> cause # "server"

\* The code of a run that ends like this.
CodeOf(e) == IF e = Nothing THEN "none" ELSE RunCode(e)

\* A hard stop of one agent stops the wave and keeps its cause, whatever the
\* others come to; without one every agent has its decision, whatever order they
\* finish in, the controller hears of the failed calls and of no other, and a
\* screen shows a state for each and reasoning only (batch_dispatcher.py:117).
WaveKeepsItsCause(w) ==
  LET finished == Finished(w)
      Crew == w.roster
      r == WaveEnds(Crew, finished)
      Ended(S) == {a \in Crew : w.outcome[a] \in S}
      replied == Ended({"decided", "unparsed"})
      stopped == \E a \in Crew : w.outcome[a] \in HardStops
      first == Min({i \in DOMAIN finished : finished[i].outcome \in HardStops})
  IN  /\ r.raised # Nothing <=> stopped
      /\ stopped => r.raised \in HardStops /\ r.raised = w.outcome[finished[first].agent]
      /\ ~stopped => /\ \A a \in Crew : r.results[a].signal = "valid" <=> a \in Ended({"decided"})
                     /\ r.told = IF replied = Crew THEN <<>>
                                 ELSE <<Cardinality(replied), Cardinality(Crew) - Cardinality(replied)>>
                     /\ Streamed(finished) = Crew
      /\ Rationales(finished) \subseteq Streamed(finished) \cap Ended({"decided"})
      /\ \A percent \in {0, 34, 67, 100} :
           CodeOf(RoundEnds(Crew, finished, percent)) \in {"none", "round_failed"} <=> ~stopped

\* What the call of an agent comes to on an endpoint, and the class of it.
VerdictOf(m, a) == CloudCall(m.answers[a], m.retries).result
ClassOf(result) ==
  CASE result = "done" -> "decided" [] result = "auth" -> "AuthError" [] result = "config" -> "ProviderConfigError"
    [] OTHER -> "InferenceError"

\* On an endpoint, a run ends with the refusal that some agent met for good and
\* with no other; a call that is retried to its end only fails its agent, and the
\* round fails with the half of them (inference/retry.py:76 to errors.py:366).
RefusalStopsTheRun(m) ==
  LET Crew == 1..m.agents
      e == RoundEnds(Crew, [a \in Crew |-> [agent |-> a, outcome |-> ClassOf(VerdictOf(m, a))]], 50)
      Meets(S) == \E a \in Crew : \E i \in 1..m.retries + 1 : m.answers[a][i].status \in S
      refused == \E a \in Crew : VerdictOf(m, a) \in {"auth", "config"}
      failing == {a \in Crew : VerdictOf(m, a) = "fail"}
  IN  /\ \A a \in Crew : (\A i \in 1..m.retries + 1 : CloudVerdict(m.answers[a][i]) = "retry") => VerdictOf(m, a) = "fail"
      /\ refused <=> CodeOf(e) \in {"auth_failed", "provider_config"}
      /\ CodeOf(e) = "auth_failed" => Meets({401, 403})
      /\ CodeOf(e) = "provider_config" => Meets({400, 404, 422})
      /\ CodeOf(e) = "round_failed" <=> ~refused /\ 2 * Cardinality(failing) > m.agents
      /\ e = Nothing <=> ~refused /\ 2 * Cardinality(failing) <= m.agents

\* What becomes of a failure, of a call's, a decision's, an agent's and a wave's,
\* is told as what it was, wherever it is told (inference/retry.py:76,
\* parsing.py:28, errors.py:383, batch_dispatcher.py:117).
FailuresKeepTheirCause ==
  /\ Given("call") => CallEndsAsAnswered(input)
  /\ Given("reply") => FailureMarksAgree(input)
  /\ Given("class") => CauseIsTold(input[1])
  /\ Given("wave") => WaveKeepsItsCause(input)
  /\ Given("endpoint") => RefusalStopsTheRun(input)
=============================================================================
