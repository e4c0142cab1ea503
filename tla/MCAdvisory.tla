----------------------------- MODULE MCAdvisory -----------------------------
(***************************************************************************)
(* The inputs of Advisory for TLC, and what is checked of them: a final    *)
(* round whose agents name companies, portfolios of a few lots with the    *)
(* orchestrator's reply, and entities that a seed and a sector map rank.   *)
(***************************************************************************)
EXTENDS Advisory

T(s) == <<s, "upper">>
Lower(s) == <<s, "lower">>
Acme == <<"acme", "lower">>
TheMap == [sectors |-> [T1 |-> [sector |-> "chips", beta |-> -2], T2 |-> [sector |-> "banks", beta |-> 0]],
           aliases |-> [acme |-> "T1"]]

Entity(type, ticker, name) == [type |-> type, ticker |-> ticker, name |-> name]
Named == {Entity("company", {Lower("T1")}, Acme), Entity("company", {}, Acme), Entity("company", {T("T3")}, Acme),
          Entity("sector", {}, Acme), Entity("company", {}, Lower("T2"))}
NamesT1 == {Entity("company", {Lower("T1")}, Acme), Entity("company", {}, Acme)}

Voters3 == 1..3
FinalRows ==
  {[a \in Voters3 |-> [signal |-> s[a], conf |-> IF s[a] = ParseError THEN 0 ELSE <<9, 5, 2>>[a], entities |-> e[a]]] :
     s \in [Voters3 -> {"buy", "sell", ParseError}],
     e \in [Voters3 -> {{n} : n \in Named} \cup {NamesT1}]}

Lots == [ticker : {T("T1"), Lower("T1"), T("T2")}, cost : {{}, {-3}, {2}}]
Replies2 == UNION {[1..k -> [ticker : {T("T1"), T("T2"), T("T3")}, signal : {"buy", "hold"}, conf : {2, 6}]] : k \in 0..2}
Strong(p) == [agents |-> {1, 2, 3}, votes |-> [q \in Positions |-> IF q = p THEN 3 ELSE 0], signal |-> {p}, conf |-> <<16, 3>>]
Weak == [agents |-> {1}, votes |-> [q \in Positions |-> IF q = "buy" THEN 1 ELSE 0], signal |-> {}, conf |-> <<9, 1>>]
Found == {[s \in {} |-> Weak], [T1 |-> Strong("sell")], [T1 |-> Weak], [T1 |-> Strong("buy"), T2 |-> Strong("hold")]}

Portfolios == {<<l, m>> : l \in Lots, m \in Lots} \cup {<<l, l, [ticker |-> T("T2"), cost |-> {2}]>> : l \in Lots}
Impacts == UNION {[1..k -> [name : {Acme, T("T2"), Lower("T3")}, impact : {-2, 1}]] : k \in 0..2}

AdviceInputs(k) ==
  CASE k = "evidence" -> FinalRows
    [] k = "advice" -> [portfolio : Portfolios, reply : Replies2, found : Found]
    [] k = "asked" -> [portfolio : Portfolios, entities : Impacts, words : SUBSET {"T1", "T2", "chips", "unknown"}]

AdviceKinds == {"evidence", "advice", "asked"}

-----------------------------------------------------------------------------
\* The evidence for a holding is the decided agents that named that company, by
\* the symbol the swarm resolved or, where it has none, by a curated name; what
\* else is held does not matter, and below three agents there is no signal
\* (advisory/evidence.py:57).
EvidenceIsOfThoseWhoNamedIt(rows) ==
  LET named == {a \in Active(rows) : rows[a].entities \cap NamesT1 # {}}
      alone == SwarmEvidence(rows, {"T1"}, TheMap.aliases)
      both == SwarmEvidence(rows, {"T1", "T2"}, TheMap.aliases)
  IN  /\ DOMAIN alone = IF named = {} THEN {} ELSE {"T1"}
      /\ \A s \in DOMAIN alone :
           /\ alone[s].agents = named /\ both[s] = alone[s]
           /\ SumFunction(alone[s].votes) = Cardinality(named)
           /\ (alone[s].signal = {}) <=> (Cardinality(named) < 3)
           /\ alone[s].signal # {} =>
                /\ alone[s].conf[1] <= SumFunction([a \in named |-> rows[a].conf])
                /\ alone[s].votes[CHOOSE p \in alone[s].signal : TRUE] = 0 => alone[s].signal = {"hold"}
      /\ SwarmEvidence(Restrict(rows, Active(rows)), {"T1", "T2"}, TheMap.aliases) = both

\* The report has every held symbol once and no other, the swarm's signal wherever
\* it has one, the disagreements flagged, conviction before placeholders and in the
\* order of confidence and cost even for short positions; and its counts are of its
\* items (advisory/engine.py:195).
ItemsAreGrounded(items, held, reply, found) ==
  LET Of(k) == Upper(items[k].ticker)
      Weight(k) == items[k].conf[1] * items[k].exposure
  IN  /\ {Of(k) : k \in DOMAIN items} = held /\ Len(items) = Cardinality(held)
      /\ \A k \in DOMAIN items :
           /\ Of(k) \in DOMAIN found /\ found[Of(k)].signal # {} =>
                /\ items[k].signal = found[Of(k)].signal /\ items[k].agents = found[Of(k)].agents
                /\ items[k].divergent <=> items[k].own \notin {{}, items[k].signal}
           /\ items[k].source = "placeholder" <=> items[k].swarm = {} /\ items[k].own = {}
           /\ items[k].own = {} <=> \A i \in DOMAIN reply : Upper(reply[i].ticker) # Of(k)
           /\ \A j \in 1..k - 1 :
                /\ items[k].source = "swarm" => items[j].source = "swarm"
                /\ items[j].source = items[k].source =>
                     Weight(j) * items[k].conf[2] >= Weight(k) * items[j].conf[2]

CountsAreOfItems(report, stats) ==
  /\ Len(report.items) = report.total
  /\ SumFunction(stats.counts) = stats.convictions
  /\ report.affected <= stats.convictions /\ stats.divergent <= stats.evidence
  /\ stats.dominant = {} <=> stats.convictions = 0
  /\ \A p \in stats.dominant, q \in Positions : stats.counts[q] <= stats.counts[p]

\* And what the orchestrator says of a symbol nobody holds changes nothing.
ReportIsGrounded(portfolio, reply, found) ==
  LET real == SelectSeq(reply, LAMBDA i : Upper(i.ticker) \in Held(portfolio))
      reports == {Report(portfolio, r, found) : r \in {reply, real}}
  IN  /\ Cardinality(reports) = 1
      /\ \A report \in reports : /\ ItemsAreGrounded(report.items, Held(portfolio), real, found)
                                 /\ CountsAreOfItems(report, report.stats)

\* Of the portfolio the prompt shows the held symbols and nothing of the lots, the
\* most relevant first, written as the report writes them; an entity nobody holds
\* moves nothing (advisory/engine.py:95).
PromptKeepsPortfolioPrivate(portfolio, entities, words) ==
  LET bare == [i \in DOMAIN portfolio |-> [portfolio[i] EXCEPT !.cost = {}]]
      known == SelectSeq(entities, LAMBDA e : ResolveName(e.name, Held(portfolio), TheMap.aliases) # {})
      prompts == {Asked(p[1], p[2], p[3], TheMap, 15) : p \in {<<portfolio, entities, words>>, <<bare, known, words \ {"unknown"}>>}}
      R(e) == Relevance(Upper(e.ticker), entities, words, Held(portfolio), TheMap)
  IN  /\ Cardinality(prompts) = 1
      /\ \A asked \in prompts :
           /\ Asked(portfolio, entities, words, TheMap, 1) = SubSeq(asked, 1, 1)
           /\ Allowed(asked) = Held(portfolio) /\ Len(asked) = Cardinality(Held(portfolio))
           /\ \A k \in DOMAIN asked : asked[k].ticker = Display(portfolio, Upper(asked[k].ticker))
           /\ \A j, k \in DOMAIN asked : j < k => R(asked[j]) >= R(asked[k])
=============================================================================
