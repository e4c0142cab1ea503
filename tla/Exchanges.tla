----------------------------- MODULE Exchanges -----------------------------
(***************************************************************************)
(* One call of a provider: the prompt it sends, the failures it retries,   *)
(* the tokens it was billed for, and what they cost (worker.py,            *)
(* inference/anthropic_provider.py, inference/openai_provider.py,          *)
(* inference/retry.py, ollama_client.py, inference/budget.py).  An answer  *)
(* is [status, about]; the status of a timeout is 0, of a connection that  *)
(* was refused 1, and of one that broke in mid-call 2.  A model id is the  *)
(* sequence of its parts.                                                  *)
(***************************************************************************)
EXTENDS Integers, SequencesExt

CONSTANT NoTokens  \* the vendor did not say

-----------------------------------------------------------------------------
(* retry.py and errors.py: what to do with one failed request. *)

Transient == {408, 409, 429}

\* classify_status.
Classify(status, about) ==
  CASE status \in {401, 403} -> "auth"
    [] status = 429 -> "rate_limited"
    [] status \in Transient \ {429} \/ status >= 500 -> "retry"
    [] status \in {400, 404, 422} -> IF about \in {"context", "filter"} THEN "fail" ELSE "config"
    [] OTHER -> "fail"

\* is_permanent_http_status: the Ollama client tries everything else again.
Permanent(status) == 400 <= status /\ status < 500 /\ status \notin Transient

\* What a cloud adapter and the Ollama client make of one answer.
CloudVerdict(a) ==
  CASE a.status = 200 -> IF a.about = "unusable" THEN "fail" ELSE "done"
    [] a.status = 0 -> "fail"
    [] a.status \in {1, 2} -> "retry"
    [] OTHER -> LET v == Classify(a.status, a.about) IN IF v = "rate_limited" THEN "retry" ELSE v

\* "raw" is the transport's own exception, which the Ollama client neither tries
\* again nor wraps.
LocalVerdict(a) ==
  CASE a.status = 200 -> "done"
    [] a.status = 0 -> "fail"
    [] a.status = 1 -> "retry"
    [] a.status = 2 -> "raw"
    [] OTHER -> IF Permanent(a.status) THEN "fail" ELSE "retry"

NewCall == [result |-> "open", retries |-> 0, waits |-> <<>>]

\* _call_with_retry and _post_with_retry, one answer on.  What a 429 makes wait
\* is the gate that the run's calls share.
Receive(c, a, limit) ==
  LET v == CloudVerdict(a) IN
  CASE c.result # "open" -> c
    [] c.result = "open" /\ v = "retry" /\ c.retries < limit ->
         [c EXCEPT !.retries = @ + 1, !.waits = Append(@, IF a.status = 429 THEN "everyone" ELSE "alone")]
    [] c.result = "open" /\ v = "retry" /\ c.retries >= limit -> [c EXCEPT !.result = "fail"]
    [] OTHER -> [c EXCEPT !.result = v]

CloudCall(answers, limit) ==
  FoldLeft(LAMBDA c, i : Receive(c, answers[i], limit), NewCall, [i \in 1..Len(answers) |-> i])

\* _chat_with_backoff: at most tries requests, and only a final answer is kept.
LocalCall(answers, tries) ==
  LET final == {i \in 1..tries : LocalVerdict(answers[i]) # "retry"} IN
  IF final = {} THEN [result |-> "fail", retries |-> tries - 1]
  ELSE [result |-> LocalVerdict(answers[Min(final)]), retries |-> Min(final) - 1]

\* RetryPolicy.backoff_s: the ceiling of the wait, and the wait itself by draw
\* parts of Whole.
Whole == 4
Ceiling(attempt, base, cap) == Min({cap, base * 2 ^ Min({Max({attempt, 0}), 30})})
Backoff(attempt, base, cap, draw) == Min({Whole, Max({0, draw})}) * Ceiling(attempt, base, cap)

-----------------------------------------------------------------------------
(* The prompt of a decision (AgentWorker.infer): a turn is [role, says].   *)

SystemTurns(agent) ==
  [i \in 1..Len(agent.persona) |-> [role |-> "system", says |-> <<agent.persona[i]>>]]

If(condition, s) == IF condition THEN s ELSE <<>>
Fenced(guard, text) == <<"fence of " \o guard, text, "end of " \o guard>>

Prompt(flags, agent) ==
  If(flags.market, <<[role |-> "system", says |-> <<"guard of market">>]>>)
  \o If(flags.peers, <<[role |-> "system", says |-> <<"guard of peers">>]>>)
  \o SystemTurns(agent)
  \o <<[role |-> "user",
        says |-> If(flags.market, Fenced("market", "headlines"))
                 \o If(flags.peers, Fenced("peers", "observations"))
                 \o If(flags.prior, <<"prior">>) \o <<"rumor">>]>>

\* AnthropicProvider.chat and _system_blocks: the system texts are hoisted, and
\* all of them but the last are cached.
Hoisted(turns) ==
  LET system == SelectSeq(turns, LAMBDA t : t.role = "system") IN
  [system |-> system, cached |-> Max({0, Len(system) - 1}),
   messages |-> SelectSeq(turns, LAMBDA t : t.role # "system")]

-----------------------------------------------------------------------------
(* What was billed, and what it costs. *)

OrZero(tokens) == IF tokens = NoTokens THEN 0 ELSE tokens

\* AnthropicProvider._parse_response: the API reports the uncached remainder.
PromptTokens(usage) ==
  IF usage.uncached = NoTokens THEN NoTokens ELSE usage.uncached + OrZero(usage.read) + OrZero(usage.written)

IsVersion(part) == part \in {"5", "6"}
IsDate(part) == part = "20250101"

\* normalize_model_id.
Normal(model) == IF model # <<>> /\ IsDate(Last(model)) THEN Front(model) ELSE model

\* Bug: anything may follow a key.
ExtendsAnyhow(model, key) == IsPrefix(key, model)

\* The rest of the id is empty or begins with a version.
Extends(model, key) ==
  IsStrictPrefix(key, model) /\ (IsVersion(model[Len(key) + 1]) \/ IsDate(model[Len(key) + 1]))

\* resolve_price: the key, or the empty id.
PriceKey(keys, model) ==
  LET longer == {k \in keys : Extends(Normal(model), k)} IN
  CASE model \in keys -> model
    [] model \notin keys /\ Normal(model) \in keys -> Normal(model)
    [] OTHER -> IF longer = {} THEN <<>> ELSE CHOOSE k \in longer : \A o \in longer : Len(o) <= Len(k)

\* BudgetMeter._cost_of, per token; a price is [in, out].
CostOf(prices, capped, dearest, model, in, out) ==
  LET key == PriceKey(DOMAIN prices, model)
      table == {prices[k] : k \in DOMAIN prices}
      unknown == [in |-> Max({dearest.in} \cup {p.in : p \in table}),
                  out |-> Max({dearest.out} \cup {p.out : p \in table})]
      price == IF key # <<>> THEN prices[key] ELSE IF capped THEN unknown ELSE [in |-> 0, out |-> 0]
  IN  OrZero(in) * price.in + OrZero(out) * price.out

\* estimate_run: the point estimate and the models without a price; a role is
\* [local, model, calls, in, out].
EstimateRun(prices, capped, dearest, roles) ==
  LET paid == {i \in DOMAIN roles : ~roles[i].local /\ roles[i].calls > 0} IN
  [point |-> FoldSet(LAMBDA i, sum : sum + roles[i].calls
                        * CostOf(prices, capped, dearest, roles[i].model, roles[i].in, roles[i].out), 0, paid),
   unpriced |-> {roles[i].model : i \in {j \in paid : PriceKey(DOMAIN prices, roles[j].model) = <<>>}}]

\* BudgetMeter.record over a run's calls, those whose answer was unusable but
\* billed included.
Metered(prices, capped, dearest, calls) ==
  FoldLeft(LAMBDA sum, c : sum + CostOf(prices, capped, dearest, c.model, c.in, c.out), 0, calls)
=============================================================================
