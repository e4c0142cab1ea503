------------------------------ MODULE Advisory ------------------------------
(***************************************************************************)
(* What the advisory makes of a portfolio, of the final round and of the   *)
(* orchestrator's reply (advisory/evidence.py, advisory/engine.py,         *)
(* advisory/types.py, advisory/sector_map.py).  A symbol or a name is      *)
(* <<word, letters>>: its upper case, and the letters it is written in.    *)
(* A portfolio is a sequence of lots [ticker, cost], a missing cost the    *)
(* empty set; confidences are tenths, impacts and betas halves.  Signals   *)
(* keep the swarm's names.                                                 *)
(***************************************************************************)
EXTENDS Measures, SequencesExt

MinSwarmSupport == 3
Deadband == <<3, 2>>  \* 0.15, in tenths

Upper(name) == name[1]

Held(portfolio) == {Upper(portfolio[i].ticker) : i \in DOMAIN portfolio}
LotsOf(portfolio, s) == {i \in DOMAIN portfolio : Upper(portfolio[i].ticker) = s}
FirstLot(portfolio, s) == Min(LotsOf(portfolio, s))
Display(portfolio, s) == portfolio[FirstLot(portfolio, s)].ticker

\* The held symbols in the order they are first seen.
Symbols(portfolio) ==
  SetToSortSeq(Held(portfolio), LAMBDA s, t : FirstLot(portfolio, s) < FirstLot(portfolio, t))

\* sorted(key=..., reverse=True), the keys fractions: equal ones keep their order.
Descending(seq, key) ==
  LET Lead(i, j) == key[i][1] * key[j][2] - key[j][1] * key[i][2]
      order == SetToSortSeq(DOMAIN seq, LAMBDA i, j : LET lead == Lead(i, j) IN lead > 0 \/ (lead = 0 /\ i < j))
  IN  [k \in DOMAIN seq |-> seq[order[k]]]

-----------------------------------------------------------------------------
(* Evidence: the decided agents of the final round that named a company.   *)

\* SectorMap.resolve_ticker: a held symbol, or an alias of one.
ResolveName(name, held, aliases) ==
  IF Upper(name) \in held THEN {Upper(name)}
  ELSE {aliases[n] : n \in {Upper(name)} \cap DOMAIN aliases} \cap held

HeldTicker(e, held, aliases) ==
  IF e.ticker # {} THEN {Upper(t) : t \in e.ticker} \cap held
  ELSE IF e.type = "company" THEN ResolveName(e.name, held, aliases) ELSE {}

Supporters(rows, s, held, aliases) ==
  {a \in Active(rows) : \E e \in rows[a].entities : s \in HeldTicker(e, held, aliases)}

Evidence(rows, S) ==
  LET lean == LeanFromScore(NetScore(rows, S, "headcount", <<>>, <<>>), Deadband)
      Conf(p) == SumFunction([a \in Holding(rows, S, p) |-> rows[a].conf])
  IN  [agents |-> S,
       votes |-> [p \in Positions |-> Cardinality(Holding(rows, S, p))],
       signal |-> IF Cardinality(S) >= MinSwarmSupport THEN {lean} ELSE {},
       conf |-> <<Conf(lean), Cardinality(S)>>]

\* compute_swarm_evidence.
SwarmEvidence(rows, held, aliases) ==
  LET Of(s) == Supporters(rows, s, held, aliases) IN
  [s \in {t \in held : Of(t) # {}} |-> Evidence(rows, Of(s))]

-----------------------------------------------------------------------------
(* The holdings the orchestrator is asked about. *)

\* _ticker_entries.
TickerEntries(portfolio) ==
  [k \in DOMAIN Symbols(portfolio) |-> [ticker |-> Display(portfolio, Symbols(portfolio)[k])]]

Size(n) == Max({n, -n})

\* The strongest impact among the entities of a symbol.
Impact(entities, s, held, aliases) ==
  LET mine == {i \in DOMAIN entities : s \in ResolveName(entities[i].name, held, aliases)}
  IN  Max({0} \cup {Size(entities[i].impact) : i \in mine})

\* _enrich_holdings: |impact| |beta|, and a half if the seed has the symbol or
\* its sector as a word; the unknown sector's beta is 0.5.
Relevance(s, entities, words, held, map) ==
  LET known == s \in DOMAIN map.sectors
      beta == IF known THEN map.sectors[s].beta ELSE 1
      match == s \in words \/ (known /\ map.sectors[s].sector \in words)
  IN  Impact(entities, s, held, map.aliases) * Size(beta) + (IF match THEN 2 ELSE 0)

\* What the prompt says of the portfolio: its first entries by relevance.
Asked(portfolio, entities, words, map, most) ==
  LET held == Held(portfolio)
      entries == TickerEntries(portfolio)
      R(e) == Relevance(Upper(e.ticker), entities, words, held, map)
      ranked == Descending(entries, [k \in DOMAIN entries |-> <<R(entries[k]), 1>>])
  IN  SubSeq(ranked, 1, Min({most, Len(ranked)}))

\* advisory_llm_schema: the tickers the reply may use.
Allowed(asked) == {Upper(asked[k].ticker) : k \in DOMAIN asked}

-----------------------------------------------------------------------------
(* assemble_advisory_report. *)

Exposure(portfolio, s) == MapThenSumSet(LAMBDA i : SumSet(portfolio[i].cost), LotsOf(portfolio, s))

\* Bug: short positions turn the ranking round.
DenominatorOfAnySign(portfolio) ==
  LET total == MapThenSumSet(LAMBDA s : Exposure(portfolio, s), Held(portfolio)) IN IF total = 0 THEN 1 ELSE total

Denominator(portfolio) ==
  LET total == MapThenSumSet(LAMBDA s : Exposure(portfolio, s), Held(portfolio)) IN IF total > 0 THEN total ELSE 1

\* The reply's item for a symbol: of several the most confident, then the first.
OwnReading(reply, s) ==
  LET same == {i \in DOMAIN reply : Upper(reply[i].ticker) = s}
      best == {i \in same : \A j \in same : reply[j].conf <= reply[i].conf}
  IN  {reply[i] : i \in IF best = {} THEN {} ELSE {Min(best)}}

SignalShown(swarm, own) == IF swarm # {} THEN swarm ELSE IF own # {} THEN own ELSE {"hold"}

\* _holding_item: the swarm first, the orchestrator second, a placeholder last.
HoldingItem(portfolio, s, reply, evidence) ==
  LET found == {evidence[t] : t \in {s} \cap DOMAIN evidence}
      read == OwnReading(reply, s)
      swarm == UNION {e.signal : e \in found}
      own == {i.signal : i \in read}
  IN  [ticker |-> Display(portfolio, s), exposure |-> Exposure(portfolio, s),
       source |-> IF swarm \cup own = {} THEN "placeholder" ELSE "swarm",
       signal |-> SignalShown(swarm, own),
       conf |-> IF swarm # {} THEN evidence[s].conf
                ELSE IF own # {} THEN <<(CHOOSE i \in read : TRUE).conf, 1>> ELSE <<3, 1>>,
       swarm |-> swarm, own |-> own,
       agents |-> UNION {e.agents : e \in found},
       divergent |-> swarm # {} /\ own # {} /\ swarm # own]

\* Conviction items by confidence times their share of the cost, then the rest.
RankedItems(portfolio, reply, evidence) ==
  LET all == [k \in DOMAIN Symbols(portfolio) |-> HoldingItem(portfolio, Symbols(portfolio)[k], reply, evidence)]
      share == Denominator(portfolio)
      Key(i) == <<i.conf[1] * i.exposure * share, i.conf[2]>>
      Part(source) == LET part == SelectSeq(all, LAMBDA i : i.source = source)
                      IN  Descending(part, [k \in DOMAIN part |-> Key(part[k])])
  IN  Part("swarm") \o Part("placeholder")

\* AdvisoryStats.from_items; of equal counts SELL, then BUY, then HOLD dominates.
Stats(items) ==
  LET conviction == {k \in DOMAIN items : items[k].source = "swarm"}
      N(p) == Cardinality({k \in conviction : items[k].signal = {p}})
      leading == {p \in Positions : \A q \in Positions : N(q) <= N(p)}
  IN  [convictions |-> Cardinality(conviction),
       placeholders |-> Len(items) - Cardinality(conviction),
       counts |-> [p \in Positions |-> N(p)],
       dominant |-> IF conviction = {} THEN {} ELSE IF "sell" \in leading THEN {"sell"}
                    ELSE IF "buy" \in leading THEN {"buy"} ELSE {"hold"},
       divergent |-> Cardinality({k \in DOMAIN items : items[k].divergent}),
       evidence |-> Cardinality({k \in DOMAIN items : items[k].swarm # {}})]

Report(portfolio, reply, evidence) ==
  LET items == RankedItems(portfolio, reply, evidence)
      Affected(i) == i.source = "swarm" /\ (i.signal # {"hold"} \/ i.conf[1] > 4 * i.conf[2])
  IN  [items |-> items, total |-> Cardinality(Held(portfolio)),
       affected |-> Cardinality({k \in DOMAIN items : Affected(items[k])}),
       stats |-> Stats(items)]
=============================================================================
