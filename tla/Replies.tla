------------------------------ MODULE Replies ------------------------------
(***************************************************************************)
(* From a model's reply to a value: the JSON objects found in it, the      *)
(* tiers of the two parsers, the marks of a failed decision, the retries   *)
(* of chat_structured, and the window of an interview                      *)
(* (inference/structured.py, parsing.py, worker.py, interview.py).  A text *)
(* is a sequence of "open" and "close" (the braces), "quote", "escape" and *)
(* "other"; whether it validates is "good", "fields" (JSON with the wrong  *)
(* fields) or "no".                                                        *)
(***************************************************************************)
EXTENDS Naturals, SequencesExt

-----------------------------------------------------------------------------
(* json_object_candidates. *)

Opening(text) == {i \in DOMAIN text : text[i] = "open"}
Closing(text) == {i \in DOMAIN text : text[i] = "close"}

ScanStart == [depth |-> 0, quoted |-> FALSE, escaped |-> FALSE, end |-> 0]

\* One character of the scan that knows about strings and escapes.
Scan(s, text, i) ==
  CASE s.end # 0 -> s
    [] s.end = 0 /\ s.quoted ->
         [s EXCEPT !.escaped = ~s.escaped /\ text[i] = "escape",
                   !.quoted = s.escaped \/ text[i] # "quote"]
    [] s.end = 0 /\ ~s.quoted /\ text[i] = "quote" -> [s EXCEPT !.quoted = TRUE]
    [] s.end = 0 /\ ~s.quoted /\ text[i] = "open" -> [s EXCEPT !.depth = @ + 1]
    [] s.end = 0 /\ ~s.quoted /\ text[i] = "close" ->
         [s EXCEPT !.depth = @ - 1, !.end = IF s.depth = 1 THEN i ELSE 0]
    [] OTHER -> s

\* Where the object that starts there ends, or 0.
ObjectEnd(text, start) ==
  FoldLeft(LAMBDA s, i : Scan(s, text, i), ScanStart, [k \in 1..Len(text) - start + 1 |-> start + k - 1]).end

\* The first and the last character of each: the balanced object first, then
\* everything up to the last brace.
JsonObjects(text) ==
  IF Opening(text) = {} THEN <<>>
  ELSE LET start == Min(Opening(text))
           end == ObjectEnd(text, start)
           later == {i \in Closing(text) : i > start}
           last == Max(later)
       IN  (IF end = 0 THEN <<>> ELSE <<<<start, end>>>>)
           \o (IF later = {} \/ last = end THEN <<>> ELSE <<<<start, last>>>>)

-----------------------------------------------------------------------------
(* A reply: what the whole text is, whether a code fence is found in it,    *)
(* what the fence's body is, and what the candidates of both are.           *)

Cleaned(r) == IF r.fenced THEN r.body ELSE r.whole
Texts(r) ==
  <<Cleaned(r)>> \o (IF r.fenced THEN r.inBody ELSE r.inWhole) \o (IF r.fenced THEN r.inWhole ELSE <<>>)

NoGood(texts) == \A i \in DOMAIN texts : texts[i] # "good"

\* The error that is kept of several: the last, but none in place of wrong fields.
ErrorKept(first, texts) == FoldLeft(LAMBDA b, t : IF t = "fields" \/ b # "fields" THEN t ELSE b, first, texts)

\* parse_structured, with the most informative error where it fails.
ParseStructured(r) ==
  LET best == ErrorKept(r.whole, Texts(r)) IN
  CASE r.whole = "good" -> [tier |-> 1, error |-> "none"]
    [] r.whole # "good" /\ ~NoGood(Texts(r)) -> [tier |-> 2, error |-> "none"]
    [] OTHER -> [tier |-> 3, error |-> IF best = "fields" THEN "fields" ELSE IF r.inWhole = <<>> THEN "no object" ELSE "json"]

\* Bug: the text around a code fence is never looked at.
ParseDecisionInFence(r) ==
  CASE r.whole = "good" -> 1
    [] r.whole # "good" /\ ~NoGood(<<Cleaned(r)>> \o (IF r.fenced THEN r.inBody ELSE r.inWhole)) -> 2
    [] OTHER -> 3

\* parse_agent_decision: its tier.
ParseDecision(r) ==
  CASE r.whole = "good" -> 1
    [] r.whole # "good" /\ Cleaned(r) = "good" -> 2
    [] r.whole # "good" /\ ~NoGood(IF r.fenced THEN r.inBody ELSE r.inWhole) -> 2
    [] r.whole # "good" /\ r.fenced /\ ~NoGood(r.inWhole) -> 2
    [] OTHER -> 3

\* _engine_fields, the tier 3 fallback, and infer's truncation: echoed is the
\* signal and the error kind in the model's JSON.
Marks(tier, echoed, finish) ==
  LET failed == tier = 3 \/ echoed.signal = "PARSE_ERROR" IN
  [signal |-> IF tier = 3 THEN "PARSE_ERROR" ELSE echoed.signal,
   kind |-> IF ~failed THEN "none" ELSE IF finish = "length" THEN "truncated" ELSE "parse",
   tier |-> IF failed THEN 3 ELSE tier]

\* chat_structured: the result, the calls made, and what the last one asked to
\* correct; the conversation is never more than the messages and one correction.
ChatStructured(replies, retries) ==
  LET attempts == retries + 1
      parsed == [i \in 1..attempts |-> ParseStructured(replies[i])]
      good == {i \in 1..attempts : parsed[i].tier < 3}
      calls == IF good = {} THEN attempts ELSE Min(good)
  IN  [tier |-> parsed[calls].tier, calls |-> calls,
       correction |-> IF calls = 1 THEN "none" ELSE parsed[calls - 1].error]

-----------------------------------------------------------------------------
(* InterviewEngine.ask and _trim_window.  A pair is known by its number;    *)
(* the summary is the pairs it is made of, the newest capacity of them.     *)

NewInterview == [history |-> <<>>, summary |-> <<>>]

Newest(s, n) == IF Len(s) <= n THEN s ELSE SubSeq(s, Len(s) - n + 1, Len(s))

Trim(s, ok, window, block, capacity) ==
  IF Len(s.history) <= window \/ ~ok THEN s
  ELSE [history |-> SubSeq(s.history, block + 1, Len(s.history)),
        summary |-> Newest(s.summary \o SubSeq(s.history, 1, block), capacity)]

\* A turn is [answered, summarised]; a turn without an answer leaves no trace.
Ask(s, n, turn, window, block, capacity) ==
  IF ~turn.answered THEN s
  ELSE Trim([s EXCEPT !.history = Append(@, n)], turn.summarised, window, block, capacity)

Conversation(turns, window, block, capacity) ==
  FoldLeft(LAMBDA s, n : Ask(s, n, turns[n], window, block, capacity), NewInterview,
           [n \in 1..Len(turns) |-> n])
=============================================================================
