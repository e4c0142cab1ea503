--------------------------- MODULE MarketContext ---------------------------
(***************************************************************************)
(* The market block that the agents of round 1 read: which entities of the *)
(* seed get which ticker, what is fetched for them before the deadline,    *)
(* how a published headline is cleaned, and which blocks fit in the budget *)
(* (ingestion/tickers.py, market_context.py, ingestion/yfinance_provider   *)
(* .py, ingestion/rss_provider.py, context_formatter.py,                   *)
(* security/sanitize.py, ingestion/fixture.py).  A name is a sequence of   *)
(* words, a headline a sequence of characters; NoTicker is None.           *)
(***************************************************************************)
EXTENDS Naturals, SequencesExt

CONSTANT NoTicker  \* an entity without a usable ticker

Indexes(s) == [i \in 1..Len(s) |-> i]

\* dict.fromkeys: every element once, where it was first.
Distinct(s) ==
  LET firsts == SelectSeq(Indexes(s), LAMBDA i : \A j \in 1..i - 1 : s[j] # s[i])
  IN  [k \in 1..Len(firsts) |-> s[firsts[k]]]

-----------------------------------------------------------------------------
(* ingestion/tickers.py.  The map of the SEC is a sequence of its entries,  *)
(* [ticker, title]; without one the resolver has no entries.                *)

NameEndings == {"inc", "the"}
GenericWords == {"first"}
Acronyms == {"FED"}
Aliases == [google |-> "GOOGL"]

\* normalize_company_name: suffixes are dropped at the end, "the" at the start.
Normalised(name) ==
  LET kept == {i \in DOMAIN name : name[i] \notin NameEndings}
      last == Max({0} \cup kept)
      first == Min({last + 1} \cup {i \in 1..last : name[i] # "the"})
  IN  SubSeq(name, first, last)

NamesAgree(name, title) ==
  /\ name # <<>> /\ title # <<>>
  /\ \/ IsPrefix(name, title) \/ IsPrefix(title, name)
     \/ Head(name) = Head(title) /\ Head(name) \notin GenericWords

\* from_sec_payload: of two entries with one ticker, or one title, the first counts.
Usable(entries) == {i \in DOMAIN entries : entries[i].ticker # NoTicker /\ Normalised(entries[i].title) # <<>>}
TitleOf(entries, ticker) ==
  LET same == {i \in Usable(entries) : entries[i].ticker = ticker} IN
  IF same = {} THEN <<>> ELSE Normalised(entries[Min(same)].title)
TickerOf(entries, name) ==
  LET same == {i \in Usable(entries) : Normalised(entries[i].title) = name} IN
  IF same = {} THEN NoTicker ELSE entries[Min(same)].ticker

AliasOf(name) == IF Len(name) = 1 /\ Head(name) \in DOMAIN Aliases THEN Aliases[Head(name)] ELSE NoTicker

\* TickerResolver.resolve.
Resolve(entries, e) ==
  LET name == Normalised(e.name)
      known == Usable(entries) # {}
      proposal == IF known
                  THEN e.ticker # NoTicker /\ NamesAgree(name, TitleOf(entries, e.ticker))
                  ELSE e.ticker \notin Acronyms
      alias == IF known /\ TitleOf(entries, AliasOf(name)) = <<>> THEN NoTicker ELSE AliasOf(name)
      byName == IF known THEN TickerOf(entries, name) ELSE NoTicker
  IN  CASE ~e.company -> NoTicker
        [] e.company /\ known -> IF proposal THEN e.ticker ELSE IF byName # NoTicker THEN byName ELSE alias
        [] OTHER -> IF alias # NoTicker THEN alias ELSE IF proposal THEN e.ticker ELSE NoTicker

-----------------------------------------------------------------------------
(* sanitize_headline, over the characters "<", "=", "-", " " and letters.   *)

Broken == {"<", ">", "control"}

Spaced(text) == [i \in DOMAIN text |-> IF text[i] \in Broken THEN " " ELSE text[i]]

\* Runs of spaces collapse and the ends are stripped; runs of "=" collapse.
KeptAt(s, i) == s[i] # " " \/ (i > 1 /\ i < Len(s) /\ s[i - 1] # " " /\ \E j \in i + 1..Len(s) : s[j] # " ")
Joined(s) == LET kept == SelectSeq(Indexes(s), LAMBDA i : KeptAt(s, i)) IN [k \in 1..Len(kept) |-> s[kept[k]]]
OneEquals(s) ==
  LET kept == SelectSeq(Indexes(s), LAMBDA i : s[i] # "=" \/ i = 1 \/ s[i - 1] # "=") IN [k \in 1..Len(kept) |-> s[kept[k]]]

\* The leading groups of markers that end in a space.
Unmarked(s) ==
  LET groups == {i \in DOMAIN s : s[i] = " " /\ \A j \in 1..i : s[j] \in {"-", "=", " "}} IN
  SubSeq(s, Max({0} \cup groups) + 1, Len(s))

RightStripped(s) == SubSeq(s, 1, Max({0} \cup {i \in DOMAIN s : s[i] # " "}))

Cut(s, limit) == IF Len(s) <= limit THEN s ELSE Append(RightStripped(SubSeq(s, 1, limit - 1)), "...")

Headline(text, limit) == Cut(Unmarked(OneEquals(Joined(Spaced(text)))), limit)

-----------------------------------------------------------------------------
(* What is fetched.  A stage of a symbol is "ok", "fails" or, when it only  *)
(* ends after the deadline of the batch, "late".                            *)

FailedQuote == [state |-> "fetch_failed", price |-> FALSE, extras |-> FALSE]

\* _fetch_batch_shared, _fetch_stages, _to_slice and classify_quote.  The quote's
\* age is known only from the second stage.
Quotes(tickers, fetched, window) ==
  [t \in tickers |->
     LET f == fetched[t]
         second == f.second = "ok"
     IN  IF f.first # "ok" THEN FailedQuote
         ELSE [state |-> IF second /\ f.age > window THEN "stale" ELSE "fresh", price |-> f.priced, extras |-> second]]

\* _fetch_one: a feed of a ticker is not searched for the name; an undated entry
\* is kept.  An entry is [named, dated, age, empty].
Printable(entry, byTicker, window) ==
  /\ byTicker \/ entry.named
  /\ ~entry.dated \/ entry.age <= window
  /\ ~entry.empty

News(answered, entries, byTicker, window) ==
  IF ~answered THEN [state |-> "fetch_failed", headlines |-> <<>>]
  ELSE [state |-> "fresh", headlines |-> SelectSeq(Indexes(entries), LAMBDA i : Printable(entries[i], byTicker, window))]

-----------------------------------------------------------------------------
(* build_context_packet.  entities are [name, ticker, relevance]. *)

Ordered(entities) ==
  LET order == SortSeq(Indexes(entities), LAMBDA i, j : \/ entities[i].relevance > entities[j].relevance
                                                        \/ entities[i].relevance = entities[j].relevance /\ i < j)
  IN  [k \in DOMAIN order |-> entities[order[k]]]

Names(entities) == LET o == Ordered(entities) IN Distinct([k \in DOMAIN o |-> o[k].name])

\* Of two entities with one name the last of those with a ticker counts.
EntityTicker(entities, name) ==
  LET o == Ordered(entities)
      same == {k \in DOMAIN o : o[k].name = name /\ o[k].ticker # NoTicker}
  IN  IF same = {} THEN NoTicker ELSE o[Max(same)].ticker

Tickers(entities) == {EntityTicker(entities, n) : n \in Range(Names(entities))} \ {NoTicker}

\* A slice of fetched news per name, a quote per ticker.
Packet(entities, fetched, feeds, quoteWindow, newsWindow) ==
  [entities |-> Names(entities),
   tickers |-> [n \in Range(Names(entities)) |-> EntityTicker(entities, n)],
   market |-> Quotes(Tickers(entities), fetched, quoteWindow),
   news |-> [n \in Range(Names(entities)) |->
               News(feeds[n].answered, feeds[n].entries, EntityTicker(entities, n) # NoTicker, newsWindow)]]

-----------------------------------------------------------------------------
(* format_market_context: a block is its entity and what is under it.       *)

\* A name without a ticker is looked up as one.
SymbolIn(packet, name) ==
  IF name \in DOMAIN packet.tickers /\ packet.tickers[name] # NoTicker THEN packet.tickers[name] ELSE name

Block(packet, name, perEntity) ==
  LET symbol == SymbolIn(packet, name)
      quoted == symbol \in DOMAIN packet.market /\ packet.market[symbol].state # "fetch_failed"
      read == name \in DOMAIN packet.news /\ packet.news[name].state # "fetch_failed"
      shown == IF read THEN packet.news[name].headlines ELSE <<>>
  IN  [entity |-> name,
       symbol |-> symbol,
       price |-> IF quoted /\ packet.market[symbol].price THEN packet.market[symbol].state ELSE "none",
       extras |-> quoted /\ packet.market[symbol].extras,
       headlines |-> SubSeq(shown, 1, Min({perEntity, Len(shown)}))]

\* The lines of a block under its first one.
Lines(b) ==
  (IF b.price # "none" THEN 1 ELSE 0) + (IF b.extras THEN 1 ELSE 0)
    + (IF b.headlines = <<>> THEN 0 ELSE 1 + Len(b.headlines))

\* A block that does not fit is left out, later ones may still fit.
Format(packet, budget, perEntity) ==
  LET Add(acc, name) ==
        LET b == Block(packet, name, perEntity)
            size == 1 + Lines(b)
        IN  IF Lines(b) = 0 \/ acc.used + size > budget THEN acc
            ELSE [blocks |-> Append(acc.blocks, b), used |-> acc.used + size]
  IN  FoldLeft(Add, [blocks |-> <<>>, used |-> 0], packet.entities).blocks

-----------------------------------------------------------------------------
(* private_market_contexts: half of the headlines, by the agent's own draw. *)

KeptHeadlines(n) == IF n = 0 THEN 0 ELSE Max({1, (n + 1) \div 2})

Private(packet, picked) ==
  [packet EXCEPT !.news = [n \in DOMAIN packet.news |->
     [packet.news[n] EXCEPT !.headlines = SelectSeq(@, LAMBDA h : h \in picked[n])]]]

-----------------------------------------------------------------------------
(* Fixtures: a packet of one ticker, and the same under another name.      *)

\* build_fixture_packet.
Fixture(ticker, headlines) ==
  [entities |-> <<ticker>>, tickers |-> <<>>,
   market |-> [t \in {ticker} |-> [state |-> "fresh", price |-> TRUE, extras |-> FALSE]],
   news |-> [t \in IF headlines = <<>> THEN {} ELSE {ticker} |-> [state |-> "fresh", headlines |-> headlines]]]

\* anonymize_packet.
Refused == [entities |-> <<>>]
Label == "Subject company"

\* A pair of a name and a ticker that is left names the company.
Anonymous(packet) ==
  IF Len(packet.entities) # 1 \/ \E n \in DOMAIN packet.tickers : packet.tickers[n] # NoTicker THEN Refused
  ELSE [packet EXCEPT !.entities = <<Label>>,
                      !.market = [l \in IF DOMAIN @ = {} THEN {} ELSE {Label} |-> @[packet.entities[1]]],
                      !.news = <<>>]
=============================================================================
