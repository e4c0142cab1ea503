-------------------------- MODULE MCMarketContext --------------------------
(***************************************************************************)
(* The inputs of MarketContext for TLC, and what is checked of them: names *)
(* and maps of tickers, headlines, and what was fetched for the entities   *)
(* of a seed.                                                              *)
(***************************************************************************)
EXTENDS MarketContext, FiniteSets

LOCAL Short(n, S) == UNION {[1..k -> S] : k \in 0..n}

CompanyNames == {<<"alpha">>, <<"alpha", "one">>, <<"first", "alpha">>, <<"first", "beta">>, <<"google">>, <<"the", "alpha", "inc">>, <<"inc">>}
MapEntries == [ticker : {"GOOGL", "T1", NoTicker}, title : CompanyNames]
Proposals == [company : BOOLEAN, name : CompanyNames, ticker : {NoTicker, "T1", "GOOGL", "FED"}]

SeedEntities == [name : {"A", "B", "T1"}, ticker : {NoTicker, "T1", "T2"}, relevance : 1..2]
Seeds == Short(2, SeedEntities)
         \cup {<<[name |-> "A", ticker |-> "T1", relevance |-> 1], e, [name |-> "A", ticker |-> t, relevance |-> 1]>> :
                 e \in SeedEntities, t \in {NoTicker, "T2"}}

Fetch(first, priced, second, age) == [first |-> first, priced |-> priced, second |-> second, age |-> age]
Fetches == {Fetch("fails", FALSE, "fails", 0), Fetch("late", TRUE, "ok", 0), Fetch("ok", TRUE, "late", 9),
            Fetch("ok", TRUE, "ok", 9), Fetch("ok", FALSE, "ok", 0)}
Entry(named, dated, age, empty) == [named |-> named, dated |-> dated, age |-> age, empty |-> empty]
Feeds == {[answered |-> FALSE, entries |-> <<>>],
          [answered |-> TRUE, entries |-> <<Entry(FALSE, TRUE, 1, FALSE), Entry(TRUE, FALSE, 9, FALSE), Entry(TRUE, TRUE, 9, FALSE),
                                            Entry(TRUE, TRUE, 1, TRUE), Entry(TRUE, TRUE, 1, FALSE), Entry(TRUE, TRUE, 0, FALSE)>>]}

MarketInputs(k) ==
  CASE k = "names" -> [entries : Short(2, MapEntries), entity : Proposals]
    [] k = "title" -> Short(6, {"<", "=", "-", " ", "x"})
    [] k = "market" -> {[entities |-> s, fetched |-> f, feeds |-> (n :> g) @@ [m \in {"A", "B", "T1"} |-> h]] :
                          s \in Seeds, f \in [{"T1", "T2"} -> Fetches], n \in {"A"}, g \in Feeds, h \in Feeds}

MarketKinds == {"names", "title", "market"}

-----------------------------------------------------------------------------
\* A symbol reaches the agents only for a company, and with the map of the SEC
\* only if an entry of that symbol has the company's name or one that shares more
\* than a common first word; a company that is in the map by its name gets a
\* symbol, and resolving twice changes nothing (ingestion/tickers.py:175).
TickersAgreeWithNames(entries, e) ==
  LET name == Normalised(e.name)
      known == Usable(entries) # {}
      r == Resolve(entries, e)
      Titles == {Normalised(entries[i].title) : i \in {j \in Usable(entries) : entries[j].ticker = r}}
  IN  /\ r # NoTicker => e.company /\ r \notin Acronyms
      /\ (r # NoTicker /\ known /\ r # AliasOf(name)) =>
           \E t \in Titles : t[1] = name[1] /\ (t[1] \in GenericWords => Len(t) = 1 \/ Len(name) = 1 \/ t[2] = name[2])
      /\ (r # NoTicker /\ known) => Titles # {}
      /\ (known /\ e.company /\ \E i \in Usable(entries) : Normalised(entries[i].title) = name) => r # NoTicker
      /\ Resolve(entries, [e EXCEPT !.ticker = r]) = r

\* A cleaned headline fits, forges neither fence nor header nor bullet, and is
\* cleaned already ("Idempotent", security/sanitize.py:65).
HeadlineForgesNothing(text) ==
  \A limit \in {3, 9} :
    LET h == Headline(text, limit) IN
    /\ Len(h) <= limit /\ Range(h) \cap Broken = {}
    /\ \A i \in 1..Len(h) - 1 : ~(h[i] = "=" /\ h[i + 1] = "=")
    /\ Len(h) > 1 => ~(h[1] \in {"-", "="} /\ h[2] = " ")
    /\ h # <<>> => h[1] # " " /\ Last(h) # " "
    /\ Headline(h, limit) = h

\* What is shown of an entity is what its own symbol and its own feed answered in
\* time: the failure of another hides nothing, a late answer shows nothing, an
\* old quote says so.  Blocks come by relevance, each once, and one is left out
\* only where it does not fit (yfinance_provider.py:165, context_formatter.py:68).
ContextIsWhatCame(entities, fetched, feeds) ==
  LET p == Packet(entities, fetched, feeds, 5, 5)
      Alone(n) == Packet(entities,
                         [t \in DOMAIN fetched |-> IF t = SymbolIn(p, n) THEN fetched[t] ELSE Fetch("fails", FALSE, "fails", 0)],
                         [m \in DOMAIN feeds |-> IF m = n THEN feeds[m] ELSE [answered |-> FALSE, entries |-> <<>>]], 5, 5)
      all == Format(p, 99, 2)
      Best(n) == Max({entities[i].relevance : i \in {j \in DOMAIN entities : entities[j].name = n}})
      Size(b) == 1 + Lines(b)
  IN  /\ \A i, j \in DOMAIN all : i < j => all[i].entity # all[j].entity /\ Best(all[i].entity) >= Best(all[j].entity)
      /\ \A n \in Range(p.entities) : Block(p, n, 2) = Block(Alone(n), n, 2)
      /\ \A i \in DOMAIN all :
           LET b == all[i] IN
           /\ b.price # "none" => fetched[b.symbol].first = "ok" /\ fetched[b.symbol].priced
           /\ b.extras => fetched[b.symbol].second = "ok"
           /\ (b.price = "stale" <=> b.price # "none" /\ b.extras /\ fetched[b.symbol].age > 5)
           /\ \A k \in DOMAIN b.headlines :
                LET e == feeds[b.entity].entries[b.headlines[k]] IN ~e.empty /\ (~e.dated \/ e.age <= 5)
      /\ \A budget \in {3, 6} :
           LET some == Format(p, budget, 2)
               Before(n) == SelectSeq(some, LAMBDA b : \E i, j \in DOMAIN all : i < j /\ all[i] = b /\ all[j].entity = n)
               Used(s) == FoldLeft(LAMBDA sum, b : sum + Size(b), 0, s)
           IN  /\ Used(some) <= budget
               /\ \A b \in Range(all) \ Range(some) : Used(Before(b.entity)) + Size(b) > budget
      \* The experiment with private headlines hides no entity and no price.
      /\ \A picked \in {[n \in DOMAIN p.news |-> ToSet(SubSeq(p.news[n].headlines, 1, KeptHeadlines(Len(p.news[n].headlines))))],
                        [n \in DOMAIN p.news |->
                           LET h == p.news[n].headlines IN ToSet(SubSeq(h, Len(h) - KeptHeadlines(Len(h)) + 1, Len(h)))]} :
           LET own == Format(Private(p, picked), 99, 2) IN
           /\ Len(own) = Len(all)
           /\ \A i \in DOMAIN all : own[i] = [all[i] EXCEPT !.headlines = own[i].headlines] /\ (own[i].headlines = <<>> <=> all[i].headlines = <<>>)
      \* An anonymous packet shows the numbers, and neither name nor headline.
      /\ LET a == Anonymous(p)
             f == Anonymous(Fixture("T1", <<1>>))
         IN  /\ a # Refused => DOMAIN a.market \subseteq {Label}
             /\ Format(f, 99, 2) = <<[Format(Fixture("T1", <<>>), 99, 2)[1] EXCEPT !.entity = Label, !.symbol = Label]>>
=============================================================================
