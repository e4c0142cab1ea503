----------------------------- MODULE MCAnswers -----------------------------
(***************************************************************************)
(* The inputs of Replies and Exchanges for TLC, and what is checked of     *)
(* them: objects in a reply, replies and what is made of them, interviews, *)
(* the answers to one call, prompts, and price tables.                     *)
(***************************************************************************)
EXTENDS MCInputs, Replies, Exchanges, FiniteSets

Letters == {"open", "close", "quote", "escape", "other"}
UpTo(n, S) == UNION {[1..k -> S] : k \in 0..n}

\* A string of one JSON value, and an object of up to two values.
Strings == {<<"quote">> \o s \o <<"quote">> :
              s \in {<<>>, <<"other">>, <<"open">>, <<"close">>, <<"escape", "quote">>, <<"escape", "escape">>, <<"escape", "quote", "close">>}}
Values == Strings \cup {<<"other">>, <<"open", "close">>}
Objects == {<<"open">> \o v \o w \o <<"close">> : v \in Values \cup {<<>>}, w \in Values}
           \cup {<<"open">> \o v \o <<"close">> : v \in {<<"open">> \o u \o <<"close">> : u \in Values}}

Validity3 == {"good", "fields", "no"}
EveryReply ==
  {[whole |-> w, fenced |-> f, body |-> b, inBody |-> x, inWhole |-> y] :
     w \in Validity3, f \in BOOLEAN, b \in Validity3, x \in UpTo(2, Validity3), y \in UpTo(2, Validity3)}
SomeReplies == {r \in EveryReply : r.inBody = <<>> /\ Len(r.inWhole) < 2}

Statuses == {0, 1, 2, 200, 400, 401, 404, 408, 429, 529}
Abouts(s) == CASE s = 200 -> {"good", "unusable"} [] s = 400 -> {"model", "context", "filter"} [] OTHER -> {"any"}
Arrivals == UNION {{[status |-> s, about |-> a] : a \in Abouts(s)} : s \in Statuses}

Agents2 == {[bracket |-> "quants", persona |-> <<"of quants", "of agent 1">>],
            [bracket |-> "quants", persona |-> <<"of quants", "of agent 2">>],
            [bracket |-> "doomers", persona |-> <<"of doomers", "of agent 3">>],
            [bracket |-> "doomers", persona |-> <<"all of agent 4">>]}
Flags == [market : BOOLEAN, peers : BOOLEAN, prior : BOOLEAN]

Models == {<<"m">>, <<"m", "5">>, <<"m", "5", "6">>, <<"m", "pro">>, <<"m", "5", "pro">>, <<"m", "20250101">>, <<"m", "5", "20250101">>, <<"n">>}
Prices == [in : {1, 3}, out : {2}]
Dearest == [in |-> 2, out |-> 4]

AnswerInputs(k) ==
  CASE k = "quotes" -> {[before |-> b, object |-> o, after |-> a] :
                          b \in {<<>>, <<"other">>, <<"quote", "other">>, <<"close">>}, o \in Objects, a \in UpTo(2, Letters)}
    [] k = "reply" -> EveryReply
    [] k = "replies" -> {<<r, q>> : r \in SomeReplies, q \in SomeReplies}
    [] k = "interview" -> [turns : [1..7 -> [answered : BOOLEAN, summarised : BOOLEAN]],
                            window : {3}, block : {2}, capacity : {2, 9}]
    [] k = "call" -> [1..4 -> Arrivals]
    [] k = "prompt" -> [flags : Flags, agent : Agents2, other : Agents2]
    [] k = "prices" -> UNION {[prices : [K -> Prices], capped : BOOLEAN, worker : Models, local : BOOLEAN] :
                                K \in {S \in SUBSET Models : Cardinality(S) <= 2}}

AnswerKinds == {"quotes", "reply", "replies", "interview", "call", "prompt", "prices"}

-----------------------------------------------------------------------------
\* A text that is one object: a character is escaped by an odd run of escapes just
\* before it, and quoted after an odd number of quotes that are not; escapes are
\* in strings, and the last brace outside of them is the first to close them all.
EscapesBefore(o, i) == {j \in 1..i - 1 : \A m \in j..i - 1 : o[m] = "escape"}
Delimiters(o, i) == {j \in 1..i - 1 : o[j] = "quote" /\ Cardinality(EscapesBefore(o, j)) % 2 = 0}
Quoted(o, i) == Cardinality(Delimiters(o, i)) % 2 = 1
Braces(o, brace, i) == {j \in 1..i : o[j] = brace /\ ~Quoted(o, j)}
IsObject(o) ==
  /\ Len(o) >= 2 /\ o[1] = "open"
  /\ \A i \in 1..Len(o) : o[i] = "escape" => Quoted(o, i)
  /\ \A i \in 1..Len(o) - 1 : Cardinality(Braces(o, "open", i)) > Cardinality(Braces(o, "close", i))
  /\ Cardinality(Braces(o, "open", Len(o))) = Cardinality(Braces(o, "close", Len(o)))

\* A reply with an object in it and no brace opened before it; any reply; any
\* number of them; the turns of an interview, and what it keeps.
OneText(m) == /\ m.before \in Seq(Letters) /\ m.object \in Seq(Letters) /\ m.after \in Seq(Letters)
              /\ IsObject(m.object) /\ \A i \in DOMAIN m.before : m.before[i] # "open"
OneReply(r) == /\ r.whole \in Validity3 /\ r.fenced \in BOOLEAN /\ r.body \in Validity3
               /\ r.inBody \in Seq(Validity3) /\ r.inWhole \in Seq(Validity3)
SomeTries(replies) == Len(replies) \in Nat \ {0} /\ \A i \in 1..Len(replies) : OneReply(replies[i])
OneInterview(m) ==
  /\ m.turns \in Seq([answered : BOOLEAN, summarised : BOOLEAN])
  /\ m.window \in Nat /\ m.block \in 1..m.window + 1 /\ m.capacity \in Nat

\* An object in a reply is found whatever is said around it, strings with braces
\* and quotes in them included; the two parsers understand the same replies at
\* the same tier, and chat_structured stops at the first (structured.py:64,
\* parsing.py:45).
ObjectIsFound(m) ==
  LET text == m.before \o m.object \o m.after
      found == JsonObjects(text)
      from == Len(m.before) + 1
  IN  /\ found[1] = <<from, Len(m.before) + Len(m.object)>>
      /\ Len(found) \in 1..2
      /\ \A i \in DOMAIN found : text[found[i][1]] = "open" /\ text[found[i][2]] = "close"
TiersAgree(r) ==
  LET parsed == ParseStructured(r) IN
  /\ parsed.tier = ParseDecision(r)
  /\ parsed.tier = 3 <=> parsed.error # "none"
  /\ (parsed.tier = 3 /\ "fields" \in {r.whole} \cup Range(Texts(r))) <=> parsed.error = "fields"
FirstGoodReplyCounts(replies) == \A retries \in 0..Len(replies) - 1 :
  LET result == ChatStructured(replies, retries) IN
  /\ result.calls \in 1..retries + 1
  /\ result.tier = ParseDecision(replies[result.calls])
  /\ \A i \in 1..result.calls - 1 : ParseDecision(replies[i]) = 3
  /\ result.tier = 3 => result.calls = retries + 1
RepliesAreUnderstood ==
  /\ Given("quotes") => ObjectIsFound(input)
  /\ Given("reply") => TiersAgree(input)
  /\ Given("replies") => FirstGoodReplyCounts(input)

\* The summary and the window are together the newest answered exchanges, in
\* order and once, and all of them while the summary has room; the window only
\* outgrows its size by the exchanges whose summary failed (interview.py:283).
ExchangesAreKept(m) ==
  LET s == Conversation(m.turns, m.window, m.block, m.capacity)
      known == s.summary \o s.history
      answered == {n \in DOMAIN m.turns : m.turns[n].answered}
      failed == {n \in answered : ~m.turns[n].summarised}
  IN  /\ Range(known) \subseteq answered
      /\ \A i, j \in DOMAIN known : i < j => known[i] < known[j]
      /\ \A n \in answered \ Range(known) : Len(s.summary) >= m.capacity /\ \A i \in DOMAIN known : n < known[i]
      /\ Len(s.history) <= m.window + Cardinality(failed)
InterviewRemembers == Given("interview") => ExchangesAreKept(input)

\* What a model answered is found, understood as what it is, and remembered
\* (structured.py:63-134, parsing.py:45, interview.py:283-309).
AnswersAreKept == RepliesAreUnderstood /\ InterviewRemembers

\* No backoff passes its cap, and no later one of the same draw is shorter
\* (inference/retry.py:110); what a Retry-After asks for is not bounded by it.
WaitsAreCapped ==
  Given("call") =>
    \A attempt \in -1..6, draw \in -1..Whole + 1 :
      LET w == Backoff(attempt, 1, 30, draw) IN
      0 <= w /\ w <= Whole * 30 /\ Backoff(attempt + 1, 1, 30, draw) >= w

\* Text from outside is only ever between a fence's marks in the one user turn,
\* and its guard is there whenever the fence is; two agents of a bracket share
\* all that is cached before their own text (worker.py:178,
\* anthropic_provider.py:85).
PromptsFenceData ==
  Given("prompt") =>
    LET turns == Prompt(input.flags, input.agent)
        others == Prompt(input.flags, input.other)
        h == Hoisted(turns)
        System == UNION {Range(h.system[i].says) : i \in DOMAIN h.system}
        user == h.messages[1].says
    IN  /\ System \cap {"headlines", "observations", "prior", "rumor"} = {} /\ Len(h.messages) = 1
        /\ "headlines" \in Range(user) <=> "guard of market" \in System
        /\ "observations" \in Range(user) <=> "guard of peers" \in System
        /\ \A i \in DOMAIN user : user[i] \in {"headlines", "observations"} =>
             \E g \in {"market", "peers"} : user[i - 1] = "fence of " \o g /\ user[i + 1] = "end of " \o g
        /\ Len(input.agent.persona) = 2 /\ input.agent.bracket = input.other.bracket /\ Len(input.other.persona) = 2 =>
             \A i \in 1..h.cached : h.system[i] = Hoisted(others).system[i]
        /\ h.cached < Len(h.system)

\* Under a cap no model is free if no price is, one without a price is dearer than
\* any that has one, a word after a key is another model, and a run costs what was
\* estimated if its calls use what was expected (budget.py:88, budget.py:290).
EstimateMeetsMeter ==
  /\ Given("prices") =>
    LET prices == input.prices
        Cost(model, in, out) == CostOf(prices, input.capped, Dearest, model, in, out)
        Role(local, model, calls, in, out) == [local |-> local, model |-> model, calls |-> calls, in |-> in, out |-> out]
        roles == <<Role(FALSE, input.worker, 4, 2, 1), Role(input.local, <<"n">>, 2, 3, 1)>>
        Made(i) == IF roles[i].local THEN <<>> ELSE [k \in 1..roles[i].calls |-> roles[i]]
        estimate == EstimateRun(prices, input.capped, Dearest, roles)
        key == PriceKey(DOMAIN prices, input.worker)
    IN  /\ estimate.point = Metered(prices, input.capped, Dearest, Made(1) \o Made(2))
        /\ input.capped => Cost(input.worker, 1, 0) > 0 /\ Cost(input.worker, 0, 1) > 0
        /\ key = <<>> <=> input.worker \in estimate.unpriced
        /\ (key = <<>> /\ input.capped) => \A k \in DOMAIN prices : Cost(input.worker, 1, 1) >= Cost(k, 1, 1)
        /\ key # <<>> => IsPrefix(key, input.worker)
        /\ input.worker \in DOMAIN prices => key = input.worker
        /\ (key # <<>> /\ key # input.worker) => input.worker[Len(key) + 1] # "pro"
  /\ \A u, r, w \in {NoTokens, 0, 2} :
       LET t == PromptTokens([uncached |-> u, read |-> r, written |-> w]) IN
       t = NoTokens \/ (\A part \in {u, r, w} \ {NoTokens} : t >= part)
=============================================================================
