--------------------------- MODULE CloudCallsProofs ---------------------------
(***************************************************************************)
(* The cloud calls, for any number of personas, permits and retries, and   *)
(* any cap: the cap, the number of requests, and what a refused seed does; *)
(* what is told of the calls that fail, for any answers and any wave; and  *)
(* what is made of the answers, for any text, replies and interview.       *)
(***************************************************************************)
EXTENDS CloudCalls, MCFailures, MCAnswers, FiniteSetTheorems, SequenceTheorems, WellFoundedInduction, TLAPS

\* What the calls in flight may still cost is within the cap's overshoot.
MoneyInv ==
  /\ charged = spent
  /\ Cardinality(InFlight) <= MaxInFlight
  /\ spent + Cardinality(InFlight) * MaxCost < Cap + MaxInFlight * MaxCost

\* A downgraded request has cost one more.
Downgraded(c) == IF body[c].format = "object" THEN 1 ELSE 0

\* The requests of a call, from the loop it is in: with the seed it is in its
\* first round of tries, without it perhaps in its second.
RequestsAt(c) ==
  /\ requests[c] <= retries[c] + 1 + Downgraded(c)
                    + (IF body[c].seed THEN 0 ELSE MaxRetries + 1)
  /\ at[c] = "pausing" => retries[c] < MaxRetries
  /\ body[c].format = "object" => noStrict

RequestsInv == \A c \in Callers : RequestsAt(c)

IInv == TypeOK /\ MoneyInv /\ RequestsInv /\ SeedNeverStopsRun

-----------------------------------------------------------------------------
LEMMA RequestsWithin ==
  ASSUME TypeOK, RequestsInv
  PROVE  RequestsBounded
<1>. SUFFICES ASSUME NEW c \in Callers PROVE requests[c] <= MaxRequests
  BY DEF RequestsBounded
<1>1. retries[c] <= MaxRetries /\ retries[c] \in Nat /\ requests[c] \in Nat /\ Downgraded(c) \in 0..1
  BY DEF TypeOK, Downgraded
<1>2. requests[c] <= retries[c] + 1 + Downgraded(c) + MaxRetries + 1
  BY <1>1, CloudAssumption DEF RequestsInv, RequestsAt
<1>. QED
  BY <1>1, <1>2, CloudAssumption DEF MaxRequests

\* What a caller keeps.
CallerTypes ==
  /\ at \in [Callers -> {"idle", "posting", "pausing"}]
  /\ body \in [Callers -> [format : {"schema", "object"}, seed : BOOLEAN]]
  /\ retries \in [Callers -> 0..MaxRetries]
  /\ requests \in [Callers -> Nat]
  /\ result \in [Callers -> {"none", "ok", "error", "schema", "config", "auth",
                             "budget", "cancelled"}]

LEMMA EndsTypes ==
  ASSUME TypeOK, NEW c \in Callers,
         NEW how \in {"ok", "error", "schema", "config", "auth", "budget", "cancelled"},
         Ends(c, how)
  PROVE  CallerTypes'
<1>1. at' \in [Callers -> {"idle", "posting", "pausing"}]
  BY DEF TypeOK, Ends
<1>2. body' \in [Callers -> [format : {"schema", "object"}, seed : BOOLEAN]]
  <2>1. NoBody \in [format : {"schema", "object"}, seed : BOOLEAN]
    BY DEF NoBody
  <2>. QED
    BY <2>1 DEF TypeOK, Ends
<1>3. retries' \in [Callers -> 0..MaxRetries]
  <2>1. 0 \in 0..MaxRetries
    BY CloudAssumption
  <2>. QED
    BY <2>1 DEF TypeOK, Ends
<1>4. requests' \in [Callers -> Nat]
  BY DEF TypeOK, Ends
<1>5. result' \in [Callers -> {"none", "ok", "error", "schema", "config", "auth",
                               "budget", "cancelled"}]
  BY DEF TypeOK, Ends
<1>. QED
  BY <1>1, <1>2, <1>3, <1>4, <1>5 DEF CallerTypes

LEMMA PostTypes ==
  ASSUME TypeOK, NEW c \in Callers, Post(c)
  PROVE  /\ at' \in [Callers -> {"idle", "posting", "pausing"}]
         /\ requests' \in [Callers -> Nat]
<1>1. at' \in [Callers -> {"idle", "posting", "pausing"}]
  BY DEF TypeOK, Post
<1>2. requests' \in [Callers -> Nat]
  BY DEF TypeOK, Post
<1>. QED
  BY <1>1, <1>2

\* Types.
LEMMA TypeStep ==
  ASSUME TypeOK, RequestsInv, [Next]_vars
  PROVE  TypeOK'
<1>. USE CloudAssumption DEF provider, money
<1>0. TypeOK <=> /\ CallerTypes
                 /\ accepts \in SUBSET Features
                 /\ noStrict \in BOOLEAN /\ sendSeed \in BOOLEAN
                 /\ spent \in Nat /\ charged \in Nat
                 /\ made \in [Callers -> 0..MaxCalls]
  BY DEF TypeOK, CallerTypes
<1>1. ASSUME NEW c \in Callers, NEW seeded \in BOOLEAN, Begin(c, seeded) PROVE TypeOK'
  <2>1. made' \in [Callers -> 0..MaxCalls]
    BY <1>1 DEF Begin, TypeOK
  <2>2. CallerTypes'
    <3>1. CASE spent >= Cap
      BY <1>1, <3>1, EndsTypes DEF Begin
    <3>2. CASE ~(spent >= Cap)
      <4>1. at' \in [Callers -> {"idle", "posting", "pausing"}]
        BY <1>1, <3>2 DEF Begin, TypeOK
      <4>2. requests' \in [Callers -> Nat]
        BY <1>1, <3>2 DEF Begin, TypeOK
      <4>3. body' \in [Callers -> [format : {"schema", "object"}, seed : BOOLEAN]]
        <5>. DEFINE b == [format |-> IF noStrict THEN "object" ELSE "schema",
                          seed |-> seeded /\ sendSeed]
        <5>1. b.format \in {"schema", "object"}
          OBVIOUS
        <5>2. b \in [format : {"schema", "object"}, seed : BOOLEAN]
          BY <5>1 DEF TypeOK
        <5>3. body' = [body EXCEPT ![c] = b]
          BY <1>1, <3>2 DEF Begin
        <5>. QED
          BY <5>2, <5>3 DEF TypeOK
      <4>. QED
        BY <1>0, <1>1, <3>2, <4>1, <4>2, <4>3 DEF Begin, CallerTypes
    <3>. QED
      BY <3>1, <3>2
  <2>. QED
    BY <1>0, <1>1, <2>1, <2>2 DEF Begin, TypeOK, CallerTypes
<1>2. ASSUME NEW c \in Callers, NEW cost \in 0..MaxCost, Succeeds(c, cost) \/ Unusable(c, cost)
      PROVE  TypeOK'
  <2>1. CallerTypes'
    BY <1>2, EndsTypes DEF Succeeds, Unusable
  <2>2. spent' \in Nat /\ charged' \in Nat
    BY <1>2 DEF Succeeds, Unusable, TypeOK
  <2>. QED
    BY <1>2, <2>1, <2>2 DEF Succeeds, Unusable, TypeOK, CallerTypes
<1>3. ASSUME NEW c \in Callers, Busy(c) PROVE TypeOK'
  <2>1. CallerTypes'
    <3>1. CASE retries[c] < MaxRetries
      <4>1. at' \in [Callers -> {"idle", "posting", "pausing"}]
        BY <1>3, <3>1 DEF Busy, TypeOK
      <4>. QED
        BY <1>0, <1>3, <3>1, <4>1 DEF Busy, CallerTypes
    <3>2. CASE ~(retries[c] < MaxRetries)
      BY <1>3, <3>2, EndsTypes DEF Busy
    <3>. QED
      BY <3>1, <3>2
  <2>. QED
    BY <1>3, <2>1 DEF Busy, TypeOK, CallerTypes
<1>4. ASSUME NEW c \in Callers, Fails(c) \/ Misconfigured(c) \/ Cancel(c) PROVE TypeOK'
  <2>1. CallerTypes'
    BY <1>4, EndsTypes DEF Fails, Misconfigured, Cancel
  <2>. QED
    BY <1>4, <2>1 DEF Fails, Misconfigured, Cancel, TypeOK, CallerTypes
<1>5. ASSUME NEW c \in Callers, Resume(c) PROVE TypeOK'
  <2>1. retries[c] < MaxRetries
    BY <1>5 DEF RequestsInv, RequestsAt, Resume
  <2>2. retries' \in [Callers -> 0..MaxRetries]
    BY <1>5, <2>1 DEF Resume, TypeOK
  <2>. QED
    BY <1>5, <2>2, PostTypes DEF Resume, TypeOK
<1>6. ASSUME NEW c \in Callers, NEW how \in {"schema", "config"}, NEW names, Raise(c, how, names)
      PROVE  CallerTypes' /\ sendSeed' \in BOOLEAN
  <2>1. CASE body[c].seed /\ "seed" \in names
    <3>1. body' \in [Callers -> [format : {"schema", "object"}, seed : BOOLEAN]]
      <4>. DEFINE b == [body[c] EXCEPT !.seed = FALSE]
      <4>1. b \in [format : {"schema", "object"}, seed : BOOLEAN]
        BY DEF TypeOK
      <4>2. body' = [body EXCEPT ![c] = b]
        BY <1>6, <2>1 DEF Raise
      <4>. QED
        BY <4>1, <4>2 DEF TypeOK
    <3>2. retries' \in [Callers -> 0..MaxRetries]
      <4>1. 0 \in 0..MaxRetries
        OBVIOUS
      <4>. QED
        BY <1>6, <2>1, <4>1 DEF Raise, TypeOK
    <3>3. Post(c) /\ result' = result /\ sendSeed' = FALSE
      BY <1>6, <2>1 DEF Raise
    <3>. QED
      BY <3>1, <3>2, <3>3, PostTypes DEF TypeOK, CallerTypes
  <2>2. CASE ~(body[c].seed /\ "seed" \in names)
    <3>1. Ends(c, how) /\ sendSeed' = sendSeed
      BY <1>6, <2>2 DEF Raise
    <3>. QED
      BY <3>1, EndsTypes DEF TypeOK
  <2>. QED
    BY <2>1, <2>2
<1>7. ASSUME NEW c \in Callers, Downgrade(c)
      PROVE  CallerTypes' /\ noStrict' \in BOOLEAN /\ sendSeed' = sendSeed
  <2>1. body' \in [Callers -> [format : {"schema", "object"}, seed : BOOLEAN]]
    <3>. DEFINE b == [body[c] EXCEPT !.format = "object"]
    <3>1. b \in [format : {"schema", "object"}, seed : BOOLEAN]
      BY DEF TypeOK
    <3>2. body' = [body EXCEPT ![c] = b]
      BY <1>7 DEF Downgrade
    <3>. QED
      BY <3>1, <3>2 DEF TypeOK
  <2>2. Post(c) /\ retries' = retries /\ result' = result /\ sendSeed' = sendSeed /\ noStrict' = TRUE
    BY <1>7 DEF Downgrade
  <2>. QED
    BY <2>1, <2>2, PostTypes DEF TypeOK, CallerTypes
<1>8. ASSUME NEW c \in Callers, NEW status \in {400, 422},
             NEW names \in SUBSET {"schema", "object", "seed"}, Refused(c, status, names)
      PROVE  TypeOK'
  <2>1. CallerTypes' /\ sendSeed' \in BOOLEAN /\ noStrict' \in BOOLEAN
    BY <1>6, <1>7, <1>8 DEF Refused, TypeOK
  <2>. QED
    BY <1>8, <2>1 DEF Refused, TypeOK, CallerTypes
<1>9. CASE UNCHANGED vars
  BY <1>9 DEF vars, TypeOK
<1>. QED
  BY <1>1, <1>2, <1>3, <1>4, <1>5, <1>8, <1>9 DEF Next, Answer

-----------------------------------------------------------------------------
\* Who is in flight.
LEMMA InFlightFinite == IsFiniteSet(InFlight) /\ Cardinality(InFlight) \in Nat
<1>1. InFlight \subseteq Callers
  BY DEF InFlight
<1>. QED
  BY <1>1, CloudAssumption, FS_Subset, FS_CardinalityType

LEMMA Enters ==
  ASSUME TypeOK, NEW c \in Callers, at[c] = "idle", at' = [at EXCEPT ![c] = "posting"]
  PROVE  Cardinality(InFlight') = Cardinality(InFlight) + 1
<1>1. InFlight' = InFlight \cup {c} /\ c \notin InFlight
  BY DEF InFlight, TypeOK
<1>. QED
  BY <1>1, InFlightFinite, FS_AddElement

LEMMA Leaves ==
  ASSUME TypeOK, NEW c \in Callers, at[c] # "idle", at' = [at EXCEPT ![c] = "idle"]
  PROVE  Cardinality(InFlight') = Cardinality(InFlight) - 1
<1>1. InFlight' = InFlight \ {c} /\ c \in InFlight
  BY DEF InFlight, TypeOK
<1>. QED
  BY <1>1, InFlightFinite, FS_RemoveElement

LEMMA Remains ==
  ASSUME TypeOK, NEW c \in Callers, at[c] # "idle", NEW w \in {"posting", "pausing"},
         at' = [at EXCEPT ![c] = w]
  PROVE  InFlight' = InFlight
BY DEF InFlight, TypeOK

LEMMA Multiples ==
  ASSUME NEW k \in Nat, NEW n \in Nat, NEW m \in Nat, k <= n
  PROVE  (k + 1) * m = k * m + m /\ k * m <= n * m /\ (k > 0 => (k - 1) * m = k * m - m)
OBVIOUS

\* A caller in flight either stays or leaves.
LEMMA MoneyStep ==
  ASSUME TypeOK, MoneyInv, [Next]_vars
  PROVE  MoneyInv'
<1>. DEFINE n == Cardinality(InFlight)
            n1 == Cardinality(InFlight')
<1>. USE CloudAssumption DEF provider, money
<1>0. n \in Nat /\ spent \in Nat /\ charged \in Nat
  BY InFlightFinite DEF TypeOK
<1>1. ASSUME NEW c \in Callers, NEW seeded \in BOOLEAN, Begin(c, seeded) PROVE MoneyInv'
  <2>1. CASE spent >= Cap
    <3>1. at' = at
      BY <1>1, <2>1 DEF Begin, Ends, TypeOK
    <3>. QED
      BY <1>1, <3>1 DEF Begin, MoneyInv, InFlight
  <2>2. CASE ~(spent >= Cap)
    <3>1. n1 = n + 1
      BY <1>1, <2>2, Enters DEF Begin
    <3>2. n1 \in Nat /\ n1 <= MaxInFlight
      BY <1>0, <1>1, <3>1 DEF Begin
    <3>3. n1 * MaxCost <= MaxInFlight * MaxCost
      BY <3>2, Multiples
    <3>4. n1 * MaxCost \in Nat /\ MaxInFlight * MaxCost \in Nat
      BY <3>2
    <3>. QED
      BY <1>0, <1>1, <2>2, <3>2, <3>3, <3>4 DEF Begin, MoneyInv
  <2>. QED
    BY <2>1, <2>2
<1>2. ASSUME NEW c \in Callers, NEW cost \in 0..MaxCost,
             at[c] # "idle", at' = [at EXCEPT ![c] = "idle"],
             spent' = spent + cost, charged' = charged + cost
      PROVE  MoneyInv'
  <2>1. n1 = n - 1
    BY <1>2, Leaves
  <2>2. n > 0 /\ n1 \in Nat
    <3>1. c \in InFlight
      BY <1>2 DEF InFlight
    <3>. QED
      BY <1>0, <2>1, <3>1, InFlightFinite, FS_EmptySet
  <2>3. n1 * MaxCost = n * MaxCost - MaxCost
    BY <1>0, <2>1, <2>2, Multiples
  <2>4. n * MaxCost \in Nat /\ MaxInFlight * MaxCost \in Nat
    BY <1>0
  <2>. QED
    BY <1>0, <1>2, <2>1, <2>3, <2>4 DEF MoneyInv
<1>3. ASSUME NEW c \in Callers, NEW cost \in 0..MaxCost, Succeeds(c, cost) \/ Unusable(c, cost)
      PROVE  MoneyInv'
  <2>1. at[c] # "idle" /\ at' = [at EXCEPT ![c] = "idle"]
        /\ spent' = spent + cost /\ charged' = charged + cost
    BY <1>3 DEF Succeeds, Unusable, Served, Ends
  <2>. QED
    BY <2>1, <1>2
<1>4. ASSUME NEW c \in Callers, at[c] # "idle", UNCHANGED money,
             \E w \in {"idle", "posting", "pausing"} : at' = [at EXCEPT ![c] = w]
      PROVE  MoneyInv'
  <2>1. CASE at' = [at EXCEPT ![c] = "idle"]
    <3>1. 0 \in 0..MaxCost /\ spent' = spent + 0 /\ charged' = charged + 0
      BY <1>0, <1>4
    <3>. QED
      BY <1>2, <1>4, <2>1, <3>1
  <2>2. CASE InFlight' = InFlight
    BY <1>4, <2>2 DEF MoneyInv
  <2>. QED
    BY <1>4, <2>1, <2>2, Remains
<1>5. ASSUME NEW c \in Callers, Busy(c) \/ Fails(c) \/ Misconfigured(c) \/ Cancel(c) \/ Resume(c)
      PROVE  MoneyInv'
  BY <1>4, <1>5 DEF Busy, Fails, Misconfigured, Cancel, Resume, Ends, Post
<1>6. ASSUME NEW c \in Callers, NEW status \in {400, 422},
             NEW names \in SUBSET {"schema", "object", "seed"}, Refused(c, status, names)
      PROVE  MoneyInv'
  BY <1>4, <1>6 DEF Refused, Raise, Downgrade, Ends, Post
<1>7. CASE UNCHANGED vars
  BY <1>7 DEF vars, MoneyInv, InFlight
<1>. QED
  BY <1>1, <1>3, <1>5, <1>6, <1>7 DEF Next, Answer

-----------------------------------------------------------------------------
\* How many requests a call has made.
LEMMA RequestsStep ==
  ASSUME TypeOK, RequestsInv, [Next]_vars
  PROVE  RequestsInv'
<1>. SUFFICES ASSUME NEW d \in Callers PROVE RequestsAt(d)'
  BY DEF RequestsInv
<1>. USE CloudAssumption DEF TypeOK, RequestsAt, Downgraded, provider, money, NoBody
<1>0. RequestsAt(d) /\ requests[d] <= MaxRequests
  BY RequestsWithin DEF RequestsInv, RequestsBounded
<1>1. ASSUME NEW c \in Callers, NEW how, Ends(c, how), noStrict' = noStrict PROVE RequestsAt(d)'
  BY <1>0, <1>1 DEF Ends
<1>2. ASSUME NEW c \in Callers, NEW seeded \in BOOLEAN, Begin(c, seeded) PROVE RequestsAt(d)'
  <2>1. CASE spent >= Cap
    BY <1>1, <1>2, <2>1 DEF Begin
  <2>2. CASE ~(spent >= Cap)
    BY <1>0, <1>2, <2>2 DEF Begin
  <2>. QED
    BY <2>1, <2>2
<1>3. ASSUME NEW c \in Callers, NEW cost \in 0..MaxCost, Succeeds(c, cost) \/ Unusable(c, cost)
      PROVE  RequestsAt(d)'
  BY <1>1, <1>3 DEF Succeeds, Unusable
<1>4. ASSUME NEW c \in Callers, Fails(c) \/ Misconfigured(c) \/ Cancel(c) PROVE RequestsAt(d)'
  BY <1>1, <1>4 DEF Fails, Misconfigured, Cancel
<1>5. ASSUME NEW c \in Callers, Busy(c) PROVE RequestsAt(d)'
  <2>1. CASE retries[c] < MaxRetries
    BY <1>0, <1>5, <2>1 DEF Busy
  <2>2. CASE ~(retries[c] < MaxRetries)
    BY <1>1, <1>5, <2>2 DEF Busy
  <2>. QED
    BY <2>1, <2>2
<1>6. ASSUME NEW c \in Callers, Resume(c) PROVE RequestsAt(d)'
  BY <1>0, <1>6 DEF Resume, Post
<1>7. ASSUME NEW c \in Callers, NEW how, NEW names, Raise(c, how, names), noStrict' = noStrict
      PROVE  RequestsAt(d)'
  <2>1. CASE body[c].seed /\ "seed" \in names
    BY <1>0, <1>7, <2>1 DEF Raise, Post
  <2>2. CASE ~(body[c].seed /\ "seed" \in names)
    BY <1>1, <1>7, <2>2 DEF Raise
  <2>. QED
    BY <2>1, <2>2
<1>8. ASSUME NEW c \in Callers, Downgrade(c), ~noStrict PROVE RequestsAt(d)'
  <2>1. body[c].format = "schema"
    BY <1>8 DEF RequestsInv
  <2>. QED
    BY <1>0, <1>8, <2>1 DEF Downgrade, Post
<1>9. ASSUME NEW c \in Callers, NEW status \in {400, 422},
             NEW names \in SUBSET {"schema", "object", "seed"}, Refused(c, status, names)
      PROVE  RequestsAt(d)'
  BY <1>7, <1>8, <1>9 DEF Refused
<1>10. CASE UNCHANGED vars
  BY <1>0, <1>10 DEF vars
<1>. QED
  BY <1>2, <1>3, <1>4, <1>5, <1>6, <1>9, <1>10 DEF Next, Answer

-----------------------------------------------------------------------------
\* A refused seed.
LEMMA SeedStep ==
  ASSUME TypeOK, SeedNeverStopsRun, [Next]_vars
  PROVE  SeedNeverStopsRun'
<1>. SUFFICES ASSUME Features \ {"seed"} \subseteq accepts, NEW d \in Callers
              PROVE  result'[d] # "config"
  <2>1. accepts' = accepts
    BY DEF Next, Answer, Begin, Succeeds, Unusable, Busy, Fails, Misconfigured, Refused,
       Resume, Cancel, vars
  <2>. QED
    BY <2>1 DEF SeedNeverStopsRun
<1>. USE DEF TypeOK, SeedNeverStopsRun, Features
<1>1. ASSUME NEW c \in Callers, NEW how, how # "config", Ends(c, how) PROVE result'[d] # "config"
  BY <1>1 DEF Ends
<1>2. ASSUME NEW c \in Callers, NEW seeded \in BOOLEAN, Begin(c, seeded)
      PROVE  result'[d] # "config"
  BY <1>1, <1>2 DEF Begin
<1>3. ASSUME NEW c \in Callers, NEW cost \in 0..MaxCost, Succeeds(c, cost) \/ Unusable(c, cost)
      PROVE  result'[d] # "config"
  BY <1>1, <1>3 DEF Succeeds, Unusable
<1>4. ASSUME NEW c \in Callers, Busy(c) \/ Fails(c) \/ Misconfigured(c) \/ Cancel(c) \/ Resume(c)
      PROVE  result'[d] # "config"
  BY <1>1, <1>4 DEF Busy, Fails, Misconfigured, Cancel, Resume
<1>5. ASSUME NEW c \in Callers, NEW status \in {400, 422},
             NEW names \in SUBSET {"schema", "object", "seed"}, Refused(c, status, names)
      PROVE  result'[d] # "config"
  <2>1. Refusable(body[c]) \subseteq {"seed"} /\ ("seed" \in Refusable(body[c]) => body[c].seed)
    BY DEF Refusable
  <2>2. body[c].format \in {"schema", "object"}
    BY DEF TypeOK
  <2>3. names \subseteq Refusable(body[c]) /\ names # {}
    BY <1>5 DEF Refused
  <2>4. names = {"seed"} /\ body[c].seed
    <3>. HIDE DEF TypeOK, SeedNeverStopsRun, Features
    <3>1. names = {"seed"}
      BY <2>1, <2>3
    <3>. QED
      BY <2>1, <2>3, <3>1
  <2>5. body[c].format \notin names
    BY <2>2, <2>4
  <2>. QED
    BY <1>5, <2>4, <2>5 DEF Refused, Raise
<1>6. CASE UNCHANGED vars
  BY <1>6 DEF vars
<1>. QED
  BY <1>2, <1>3, <1>4, <1>5, <1>6 DEF Next, Answer

-----------------------------------------------------------------------------
\* The inductive invariant.
LEMMA InitIInv == Init => IInv
<1>. SUFFICES ASSUME Init PROVE IInv
  OBVIOUS
<1>. USE CloudAssumption DEF Init, NoBody
<1>1. TypeOK
  <2>1. NoBody \in [format : {"schema", "object"}, seed : BOOLEAN]
    OBVIOUS
  <2>2. body \in [Callers -> [format : {"schema", "object"}, seed : BOOLEAN]]
    BY <2>1
  <2>3. retries \in [Callers -> 0..MaxRetries] /\ made \in [Callers -> 0..MaxCalls]
    OBVIOUS
  <2>. QED
    BY <2>2, <2>3 DEF TypeOK
<1>2. RequestsInv
  BY DEF RequestsInv, RequestsAt, Downgraded
<1>3. SeedNeverStopsRun
  BY DEF SeedNeverStopsRun
<1>4. Cardinality(InFlight) = 0
  BY FS_EmptySet DEF InFlight
<1>5. MoneyInv
  <2>1. Cardinality(InFlight) * MaxCost = 0
    BY <1>4
  <2>2. MaxInFlight * MaxCost \in Nat /\ MaxInFlight * MaxCost > 0
    <3>1. \A i, j \in Nat : i > 0 /\ j > 0 => i * j \in Nat /\ i * j > 0
      OBVIOUS
    <3>. QED
      BY <3>1
  <2>3. 0 <= MaxInFlight /\ charged = spent /\ spent = 0
    OBVIOUS
  <2>4. spent + Cardinality(InFlight) * MaxCost < Cap + MaxInFlight * MaxCost
    <3>. HIDE DEF Init
    <3>. QED
      BY <2>1, <2>2, <2>3
  <2>. QED
    BY <1>4, <2>3, <2>4 DEF MoneyInv
<1>. QED
  BY <1>1, <1>2, <1>3, <1>5 DEF IInv

LEMMA IInvStep == IInv /\ [Next]_vars => IInv'
BY TypeStep, MoneyStep, RequestsStep, SeedStep DEF IInv

LEMMA Invariance == Spec => []IInv
BY InitIInv, IInvStep, PTL DEF Spec

\* The variables of the provider, the meter and the callers keep their types; no
\* call retries more often than max_retries.
THEOREM CallTypes == Spec => []TypeOK
<1>1. IInv => TypeOK
  BY DEF IInv
<1>. QED
  BY <1>1, Invariance, PTL

\* The overshoot of the spend cap is less than max_in_flight calls
\* (budget.py:408), because the meter is asked by who holds a permit.
THEOREM SpendIsCapped == Spec => []CapHolds
<1>1. IInv => CapHolds
  <2>. SUFFICES ASSUME IInv PROVE CapHolds
    OBVIOUS
  <2>1. Cardinality(InFlight) * MaxCost \in Nat /\ MaxInFlight * MaxCost \in Nat /\ spent \in Nat
    BY InFlightFinite, CloudAssumption DEF IInv, TypeOK
  <2>. QED
    BY <2>1, CloudAssumption DEF IInv, MoneyInv, CapHolds
<1>. QED
  BY <1>1, Invariance, PTL

\* A call sends at most two rounds of tries and one downgrade, whatever the
\* endpoint answers (_post_seeded, _post_with_retry).
THEOREM RequestsAreBounded == Spec => []RequestsBounded
<1>1. IInv => RequestsBounded
  BY RequestsWithin DEF IInv
<1>. QED
  BY <1>1, Invariance, PTL

\* An endpoint that refuses only the seed never raises the hard stop of a
\* configuration error (openai_provider.py:284).
THEOREM SeedIsHarmless == Spec => []SeedNeverStopsRun
<1>1. IInv => SeedNeverStopsRun
  BY DEF IInv
<1>. QED
  BY <1>1, Invariance, PTL

\* Refusals cost a bounded number of requests, and an optional field no run.
THEOREM RefusalsBounded == Spec => []RefusalsAreBounded
BY RequestsAreBounded, SeedIsHarmless, PTL DEF RefusalsAreBounded

-----------------------------------------------------------------------------
(* The classes of failures (Failures): which derive from which.            *)

\* The classes that others derive from.
Parents == {"Exception", "InferenceError", "OllamaInferenceError", "AlphaSwarmError", "GraphError",
            "InferenceConfigError", "ValueError"}

GraphErrors == {"GraphError", "Neo4jUnavailableError", "Neo4jQueryError", "Neo4jWriteError"}
ConfigErrors == {"InferenceConfigError", "InferenceConfigIncompleteError", "InferenceConfigFileError"}

LEMMA NothingDerivesFrom ==
  ASSUME NEW c, c \notin Parents
  PROVE  Derived(c) = {}
BY DEF Derived, Parents, InferenceFailures, DomainFailures

LEMMA DerivedOf ==
  /\ Derived("Exception") = {"InferenceError", "BudgetExceededError", "GovernorCrisisError", "AlphaSwarmError",
                             "ValueError", "DriverError", "TransportError"} \cup ManagerFailures
  /\ Derived("InferenceError") = {"OllamaInferenceError", "AuthError", "ProviderConfigError", "StructuredOutputError"}
  /\ Derived("OllamaInferenceError") = {"ModelLoadError"}
  /\ Derived("AlphaSwarmError") = {"GraphError", "RoundFailedError", "RoundAlignmentError", "InferenceConfigError",
                             "AgentNotFoundError", "CycleNotFoundError", "CycleNotReadyError",
                             "JobInProgressError", "AdvisoryNotAllowedError"}
  /\ Derived("GraphError") = GraphErrors \ {"GraphError"}
  /\ Derived("InferenceConfigError") = ConfigErrors \ {"InferenceConfigError"}
  /\ Derived("ValueError") = {"InferenceConfigFileError", "ValidationError"}
BY DEF Derived, InferenceFailures, DomainFailures, GraphErrors, ConfigErrors

\* What holds those that derive from its members is all that is below them.
LEMMA Closed ==
  ASSUME NEW S, \A c \in S : Derived(c) \subseteq S
  PROVE  WithDerived(S) = S
BY DEF WithDerived

LEMMA BelowLeaf ==
  ASSUME NEW c, c \notin Parents
  PROVE  Below(c) = {c}
<1> DEFINE S == {c}
<1>1. WithDerived(S) = S
  BY NothingDerivesFrom DEF WithDerived
<1> QED
  BY <1>1 DEF Below

LEMMA BelowGraphError == Below("GraphError") = GraphErrors
<1>1. WithDerived({"GraphError"}) = GraphErrors
  BY DerivedOf DEF WithDerived, GraphErrors
<1>2. WithDerived(GraphErrors) = GraphErrors
  <2>1. \A c \in GraphErrors : Derived(c) \subseteq GraphErrors
    BY DerivedOf, NothingDerivesFrom DEF GraphErrors, Parents
  <2> QED
    BY <2>1, Closed
<1> QED
  BY <1>1, <1>2 DEF Below

LEMMA BelowConfigError == Below("InferenceConfigError") = ConfigErrors
<1>1. WithDerived({"InferenceConfigError"}) = ConfigErrors
  BY DerivedOf DEF WithDerived, ConfigErrors
<1>2. WithDerived(ConfigErrors) = ConfigErrors
  <2>1. \A c \in ConfigErrors : Derived(c) \subseteq ConfigErrors
    BY DerivedOf, NothingDerivesFrom DEF ConfigErrors, Parents
  <2> QED
    BY <2>1, Closed
<1> QED
  BY <1>1, <1>2 DEF Below

\* The classes by name.
Named == ManagerFailures \cup GraphErrors \cup ConfigErrors
         \cup {"Exception", "InferenceError", "BudgetExceededError", "GovernorCrisisError", "AlphaSwarmError",
               "ValueError", "DriverError", "TransportError", "OllamaInferenceError", "AuthError", "ProviderConfigError",
               "StructuredOutputError", "ModelLoadError", "RoundFailedError", "RoundAlignmentError",
               "AgentNotFoundError", "CycleNotFoundError", "CycleNotReadyError", "JobInProgressError",
               "AdvisoryNotAllowedError", "ValidationError"}

LEMMA ClassesNamed == Classes = Named
<1> DEFINE A == {"Exception"} \cup Derived("Exception")
           B == A \cup Derived("InferenceError") \cup Derived("AlphaSwarmError") \cup Derived("ValueError")
<1>1. WithDerived({"Exception"}) = A
  BY DEF WithDerived
<1>2. WithDerived(A) = B
  <2>1. \A c \in A : c \in {"Exception", "InferenceError", "AlphaSwarmError", "ValueError"} \/ Derived(c) = {}
    BY DerivedOf, NothingDerivesFrom DEF Parents, ManagerFailures
  <2>2. {"Exception", "InferenceError", "AlphaSwarmError", "ValueError"} \subseteq A
    BY DerivedOf
  <2> HIDE DEF A
  <2>3. Derived("Exception") \subseteq A
    BY DEF A
  <2> QED
    BY <2>1, <2>2, <2>3 DEF WithDerived
<1>3. WithDerived(B) = Named
  <2>1. \A c \in B : c \in Parents \/ Derived(c) = {}
    BY NothingDerivesFrom
  <2>2. Parents \subseteq B
    BY DerivedOf DEF Parents
  <2>3. \A c \in Parents \ {"OllamaInferenceError", "GraphError", "InferenceConfigError"} : Derived(c) \subseteq B
    BY DEF Parents
  <2>4. WithDerived(B) = B \cup Derived("OllamaInferenceError") \cup Derived("GraphError") \cup Derived("InferenceConfigError")
    <3> HIDE DEF B
    <3>1. \A c \in B : \/ Derived(c) \subseteq B
                       \/ c \in {"OllamaInferenceError", "GraphError", "InferenceConfigError"}
      BY <2>1, <2>3 DEF Parents
    <3>2. {"OllamaInferenceError", "GraphError", "InferenceConfigError"} \subseteq B
      BY <2>2 DEF Parents
    <3> QED
      BY <3>1, <3>2 DEF WithDerived
  <2> QED
    BY <2>4, DerivedOf DEF Named, GraphErrors, ConfigErrors
<1>4. WithDerived(Named) = Named
  <2>1. \A c \in Parents : Derived(c) \subseteq Named
    BY DerivedOf DEF Parents, Named, GraphErrors, ConfigErrors
  <2>2. \A c \in Named : Derived(c) \subseteq Named
    BY <2>1, NothingDerivesFrom
  <2> QED
    BY <2>2, Closed
<1> HIDE DEF A, B
<1> QED
  BY <1>1, <1>2, <1>3, <1>4 DEF Classes, Below


LEMMA IsALeaf ==
  ASSUME NEW e \in Classes, NEW c \in Classes \ Parents
  PROVE  IsA(e, c) <=> e = c
<1>1. IsA(e, c) <=> e \in Below(c)
  BY DEF IsA, Above
<1> QED
  BY <1>1, BelowLeaf

LEMMA IsAGraphError ==
  ASSUME NEW e \in Classes
  PROVE  IsA(e, "GraphError") <=> e \in GraphErrors
<1>1. "GraphError" \in Classes
  BY ClassesNamed DEF Named, GraphErrors
<1>2. IsA(e, "GraphError") <=> e \in Below("GraphError")
  BY <1>1 DEF IsA, Above
<1> QED
  BY <1>2, BelowGraphError

LEMMA IsAConfigError ==
  ASSUME NEW e \in Classes
  PROVE  IsA(e, "InferenceConfigError") <=> e \in ConfigErrors
<1>1. "InferenceConfigError" \in Classes
  BY ClassesNamed DEF Named, ConfigErrors
<1>2. IsA(e, "InferenceConfigError") <=> e \in Below("InferenceConfigError")
  BY <1>1 DEF IsA, Above
<1> QED
  BY <1>2, BelowConfigError

LEMMA HardStopsAreLeaves == HardStops \subseteq Classes \ Parents
BY ClassesNamed DEF HardStops, Named, Parents

LEMMA OutcomeStops ==
  ASSUME NEW outcome
  PROVE  Stops(outcome) <=> outcome \in HardStops
BY HardStopsAreLeaves, IsALeaf DEF Stops

\* The classes that have a code.
LEMMA HasCode ==
  ASSUME NEW e \in Classes
  PROVE  /\ DOMAIN Described = 1..9
         /\ IsA(e, Described[1][1]) <=> e = "BudgetExceededError"
         /\ IsA(e, Described[2][1]) <=> e = "AuthError"
         /\ IsA(e, Described[3][1]) <=> e = "ProviderConfigError"
         /\ IsA(e, Described[4][1]) <=> e = "GovernorCrisisError"
         /\ IsA(e, Described[5][1]) <=> e = "RoundFailedError"
         /\ IsA(e, Described[6][1]) <=> e = "Neo4jUnavailableError"
         /\ IsA(e, Described[7][1]) <=> e \in GraphErrors
         /\ IsA(e, Described[8][1]) <=> e = "InferenceConfigIncompleteError"
         /\ IsA(e, Described[9][1]) <=> e \in ConfigErrors
<1>1. {"BudgetExceededError", "AuthError", "ProviderConfigError", "GovernorCrisisError", "RoundFailedError",
       "Neo4jUnavailableError", "InferenceConfigIncompleteError"} \subseteq Classes \ Parents
  BY ClassesNamed DEF Named, Parents, GraphErrors, ConfigErrors
<1>2. DOMAIN Described = 1..9
  BY DEF Described
<1>3. /\ Described[1][1] = "BudgetExceededError" /\ Described[2][1] = "AuthError"
      /\ Described[3][1] = "ProviderConfigError" /\ Described[4][1] = "GovernorCrisisError"
      /\ Described[5][1] = "RoundFailedError" /\ Described[6][1] = "Neo4jUnavailableError"
      /\ Described[7][1] = "GraphError" /\ Described[8][1] = "InferenceConfigIncompleteError"
      /\ Described[9][1] = "InferenceConfigError"
  BY DEF Described
<1> QED
  BY <1>1, <1>2, <1>3, IsALeaf, IsAGraphError, IsAConfigError

\* The least of some numbers.
LEMMA LeastIs ==
  ASSUME NEW S \in SUBSET Int, NEW n \in S, \A m \in S : n <= m
  PROVE  Min(S) = n
<1>1. \A x \in S : (\A y \in S : x <= y) => x = n
  OBVIOUS
<1> QED
  BY <1>1 DEF Min

\* The code of each class.
CodeIs(e) ==
  CASE e = "BudgetExceededError" -> "budget_exceeded"
    [] e = "AuthError" -> "auth_failed"
    [] e = "ProviderConfigError" -> "provider_config"
    [] e = "GovernorCrisisError" -> "governor_crisis"
    [] e = "RoundFailedError" -> "round_failed"
    [] e = "Neo4jUnavailableError" -> "graph_unavailable"
    [] e \in GraphErrors \ {"Neo4jUnavailableError"} -> "graph_error"
    [] e \in ConfigErrors -> "inference_config_invalid"
    [] OTHER -> "internal_error"

LEMMA RunCodeIs ==
  ASSUME NEW e \in Classes
  PROVE  RunCode(e) = CodeIs(e)
<1> DEFINE applies == {i \in DOMAIN Described : IsA(e, Described[i][1])}
<1>1. /\ e = "BudgetExceededError" => applies = {1}
      /\ e = "AuthError" => applies = {2}
      /\ e = "ProviderConfigError" => applies = {3}
      /\ e = "GovernorCrisisError" => applies = {4}
      /\ e = "RoundFailedError" => applies = {5}
      /\ e = "Neo4jUnavailableError" => applies = {6, 7}
      /\ e \in GraphErrors \ {"Neo4jUnavailableError"} => applies = {7}
      /\ e = "InferenceConfigIncompleteError" => applies = {8, 9}
      /\ e \in ConfigErrors \ {"InferenceConfigIncompleteError"} => applies = {9}
  BY HasCode DEF GraphErrors, ConfigErrors
<1>2. CodeIs(e) = "internal_error" <=> applies = {}
  BY HasCode DEF CodeIs, GraphErrors, ConfigErrors
<1>3. RunCode(e) = IF applies = {} THEN "internal_error" ELSE Described[Min(applies)][2]
  BY DEF RunCode
<1>4. /\ Described[1][2] = "budget_exceeded" /\ Described[2][2] = "auth_failed"
      /\ Described[3][2] = "provider_config" /\ Described[4][2] = "governor_crisis"
      /\ Described[5][2] = "round_failed" /\ Described[6][2] = "graph_unavailable"
      /\ Described[7][2] = "graph_error" /\ Described[8][2] = "inference_config_invalid"
      /\ Described[9][2] = "inference_config_invalid"
  BY DEF Described
<1> HIDE DEF applies
<1>5. /\ \A i \in Int : applies = {i} => Min(applies) = i
      /\ applies = {6, 7} => Min(applies) = 6
      /\ applies = {8, 9} => Min(applies) = 8
  BY LeastIs
<1> QED
  BY <1>1, <1>2, <1>3, <1>4, <1>5 DEF CodeIs, GraphErrors, ConfigErrors

\* The class of the code and the code, of each class that has one.
LEMMA NearestIs ==
  ASSUME NEW e \in Classes
  PROVE  LET codes == {d \in Range(Described) : IsA(e, d[1])}
             nearest == {d \in codes : \A c \in codes : IsA(d[1], c[1])}
         IN  CodeIs(e) = IF codes = {} THEN "internal_error" ELSE (CHOOSE d \in nearest : TRUE)[2]
<1> DEFINE codes == {d \in Range(Described) : IsA(e, d[1])}
           nearest == {d \in codes : \A c \in codes : IsA(d[1], c[1])}
<1>1. Range(Described) = {Described[i] : i \in 1..9}
  BY HasCode DEF Range
<1>2. /\ Described[1] = <<"BudgetExceededError", "budget_exceeded">> /\ Described[2] = <<"AuthError", "auth_failed">>
      /\ Described[3] = <<"ProviderConfigError", "provider_config">> /\ Described[4] = <<"GovernorCrisisError", "governor_crisis">>
      /\ Described[5] = <<"RoundFailedError", "round_failed">> /\ Described[6] = <<"Neo4jUnavailableError", "graph_unavailable">>
      /\ Described[7] = <<"GraphError", "graph_error">>
      /\ Described[8] = <<"InferenceConfigIncompleteError", "inference_config_invalid">>
      /\ Described[9] = <<"InferenceConfigError", "inference_config_invalid">>
  BY DEF Described
<1>3. codes = {Described[i] : i \in {j \in 1..9 : IsA(e, Described[j][1])}}
  BY <1>1
<1>4. \A d \in codes : d[1] \in Classes
  BY <1>2, <1>3, ClassesNamed DEF Named, GraphErrors, ConfigErrors
<1>5. ASSUME NEW i \in 1..9, \A j \in 1..9 : IsA(e, Described[j][1]) <=> j = i
      PROVE  (CHOOSE d \in nearest : TRUE) = Described[i] /\ codes # {}
  <2>1. codes = {Described[i]}
    BY <1>3, <1>5
  <2>2. IsA(Described[i][1], Described[i][1])
    <3> DEFINE c == Described[i][1]
    <3>1. c \in Classes
      BY <1>4, <2>1
    <3>2. c \in Below(c)
      BY DEF Below, WithDerived
    <3> QED
      BY <3>1, <3>2 DEF IsA, Above
  <2>3. nearest = {Described[i]}
    BY <2>1, <2>2
  <2> HIDE DEF nearest, codes
  <2> QED
    BY <2>1, <2>3
<1>6. ASSUME e = "Neo4jUnavailableError"
      PROVE  (CHOOSE d \in nearest : TRUE) = Described[6] /\ codes # {}
  <2>1. codes = {Described[6], Described[7]}
    BY <1>3, <1>6, HasCode DEF GraphErrors, ConfigErrors
  <2>2. /\ IsA("Neo4jUnavailableError", "Neo4jUnavailableError") /\ IsA("Neo4jUnavailableError", "GraphError")
        /\ ~IsA("GraphError", "Neo4jUnavailableError")
    <3>1. "GraphError" \in Classes /\ "Neo4jUnavailableError" \in Classes \ Parents
      BY ClassesNamed DEF Named, GraphErrors, Parents
    <3> QED
      BY <3>1, IsALeaf, IsAGraphError DEF GraphErrors
  <2>3. nearest = {Described[6]}
    BY <2>1, <2>2, <1>2
  <2> HIDE DEF nearest, codes
  <2> QED
    BY <2>1, <2>3
<1>7. ASSUME e = "InferenceConfigIncompleteError"
      PROVE  (CHOOSE d \in nearest : TRUE) = Described[8] /\ codes # {}
  <2>1. codes = {Described[8], Described[9]}
    BY <1>3, <1>7, HasCode DEF GraphErrors, ConfigErrors
  <2>2. /\ IsA("InferenceConfigIncompleteError", "InferenceConfigIncompleteError")
        /\ IsA("InferenceConfigIncompleteError", "InferenceConfigError")
        /\ ~IsA("InferenceConfigError", "InferenceConfigIncompleteError")
    <3>1. "InferenceConfigError" \in Classes /\ "InferenceConfigIncompleteError" \in Classes \ Parents
      BY ClassesNamed DEF Named, ConfigErrors, Parents
    <3> QED
      BY <3>1, IsALeaf, IsAConfigError DEF ConfigErrors
  <2>3. nearest = {Described[8]}
    BY <2>1, <2>2, <1>2
  <2> HIDE DEF nearest, codes
  <2> QED
    BY <2>1, <2>3
<1>8. CASE e \in {"BudgetExceededError", "AuthError", "ProviderConfigError", "GovernorCrisisError", "RoundFailedError"}
                 \cup (GraphErrors \ {"Neo4jUnavailableError"}) \cup (ConfigErrors \ {"InferenceConfigIncompleteError"})
  <2> DEFINE i == CASE e = "BudgetExceededError" -> 1 [] e = "AuthError" -> 2 [] e = "ProviderConfigError" -> 3
                    [] e = "GovernorCrisisError" -> 4 [] e = "RoundFailedError" -> 5
                    [] e \in GraphErrors -> 7 [] OTHER -> 9
  <2>1. i \in 1..9 /\ \A j \in 1..9 : IsA(e, Described[j][1]) <=> j = i
    BY <1>8, HasCode DEF GraphErrors, ConfigErrors
  <2>2. CodeIs(e) = Described[i][2]
    BY <1>2, <1>8 DEF CodeIs, GraphErrors, ConfigErrors
  <2> HIDE DEF i, codes, nearest
  <2>3. (CHOOSE d \in nearest : TRUE) = Described[i] /\ codes # {}
    BY <2>1, <1>5
  <2> QED
    BY <2>2, <2>3 DEF codes, nearest
<1>9. CASE e \in {"Neo4jUnavailableError", "InferenceConfigIncompleteError"}
  <2>1. CodeIs(e) = IF e = "Neo4jUnavailableError" THEN Described[6][2] ELSE Described[8][2]
    BY <1>2, <1>9 DEF CodeIs, GraphErrors, ConfigErrors
  <2> HIDE DEF codes, nearest
  <2> QED
    BY <1>6, <1>7, <1>9, <2>1 DEF codes, nearest
<1>10. CASE e \notin {"BudgetExceededError", "AuthError", "ProviderConfigError", "GovernorCrisisError", "RoundFailedError"}
                     \cup GraphErrors \cup ConfigErrors
  <2>1. codes = {}
    BY <1>3, <1>10, HasCode DEF GraphErrors, ConfigErrors
  <2>2. CodeIs(e) = "internal_error"
    BY <1>10 DEF CodeIs, GraphErrors, ConfigErrors
  <2> HIDE DEF codes, nearest
  <2> QED
    BY <2>1, <2>2 DEF codes, nearest
<1> QED
  BY <1>8, <1>9, <1>10 DEF GraphErrors, ConfigErrors

\* What answers a request that failed on the configuration or in the graph.
LEMMA StatusIs ==
  ASSUME NEW e \in Classes
  PROVE  /\ e \in ConfigErrors => HttpStatus(e) = 422
         /\ e = "Neo4jUnavailableError" => HttpStatus(e) = 503
         /\ e \in GraphErrors \ {"Neo4jUnavailableError"} => HttpStatus(e) = 500
<1> DEFINE applies == Answered \cap Above[e]
           nearest == {c \in applies : \A d \in applies : IsA(c, d)}
<1>1. Answered \subseteq Classes
  BY ClassesNamed DEF Answered, Conflicts, Named, GraphErrors, ConfigErrors
<1>2. Answered \ {"InferenceConfigError"} \subseteq Classes \ Parents
  BY <1>1 DEF Answered, Conflicts, ManagerFailures, Parents
<1>3. applies = {c \in Answered : IsA(e, c)}
  BY DEF IsA
<1>4. \A c \in Answered : IsA(e, c) <=> IF c = "InferenceConfigError" THEN e \in ConfigErrors ELSE e = c
  BY <1>2, IsALeaf, IsAConfigError
<1>5. HttpStatus(e) =
        CASE nearest = {} -> 500
          [] nearest \subseteq Conflicts /\ nearest # {} -> 409
          [] nearest \subseteq {"InferenceConfigError", "CycleNotReadyError"} /\ nearest # {} -> 422
          [] nearest = {"CycleNotFoundError"} -> 404
          [] OTHER -> 503
  BY DEF HttpStatus
<1>6. ASSUME e \in ConfigErrors PROVE HttpStatus(e) = 422
  <2>1. applies = {"InferenceConfigError"}
    BY <1>3, <1>4, <1>6 DEF ConfigErrors, Answered, Conflicts, ManagerFailures
  <2>2. IsA("InferenceConfigError", "InferenceConfigError")
    BY <1>1, IsAConfigError DEF ConfigErrors, Answered
  <2>3. nearest = {"InferenceConfigError"}
    BY <2>1, <2>2
  <2>4. "InferenceConfigError" \notin Conflicts
    BY DEF Conflicts, ManagerFailures
  <2> HIDE DEF applies, nearest
  <2> QED
    BY <1>5, <2>3, <2>4
<1>7. ASSUME e = "Neo4jUnavailableError" PROVE HttpStatus(e) = 503
  <2>1. applies = {"Neo4jUnavailableError"}
    BY <1>3, <1>4, <1>7 DEF ConfigErrors, Answered, Conflicts, ManagerFailures
  <2>2. IsA("Neo4jUnavailableError", "Neo4jUnavailableError")
    BY <1>1, <1>2, IsALeaf DEF Answered
  <2>3. nearest = {"Neo4jUnavailableError"}
    BY <2>1, <2>2
  <2>4. "Neo4jUnavailableError" \notin Conflicts
    BY DEF Conflicts, ManagerFailures
  <2> HIDE DEF applies, nearest
  <2> QED
    BY <1>5, <2>3, <2>4
<1>8. ASSUME e \in GraphErrors \ {"Neo4jUnavailableError"} PROVE HttpStatus(e) = 500
  <2>1. applies = {}
    BY <1>3, <1>4, <1>8 DEF ConfigErrors, GraphErrors, Answered, Conflicts, ManagerFailures
  <2>2. nearest = {}
    BY <2>1
  <2> HIDE DEF applies, nearest
  <2> QED
    BY <1>5, <2>2
<1> QED
  BY <1>6, <1>7, <1>8

LEMMA HardStopCodes ==
  /\ RunCode("BudgetExceededError") = "budget_exceeded"
  /\ RunCode("AuthError") = "auth_failed"
  /\ RunCode("ProviderConfigError") = "provider_config"
  /\ RunCode("GovernorCrisisError") = "governor_crisis"
<1>1. \A h \in HardStops : RunCode(h) = CodeIs(h)
  BY HardStopsAreLeaves, RunCodeIs
<1>2. ASSUME NEW h \in HardStops
      PROVE  /\ h = "BudgetExceededError" => CodeIs(h) = "budget_exceeded"
             /\ h = "AuthError" => CodeIs(h) = "auth_failed"
             /\ h = "ProviderConfigError" => CodeIs(h) = "provider_config"
             /\ h = "GovernorCrisisError" => CodeIs(h) = "governor_crisis"
  BY DEF CodeIs, GraphErrors, ConfigErrors
<1> QED
  BY <1>1, <1>2 DEF HardStops

LEMMA RoundFailedCode == RunCode("RoundFailedError") = "round_failed"
<1>1. "RoundFailedError" \in Classes
  BY ClassesNamed DEF Named
<1>2. ASSUME NEW e \in Classes, e = "RoundFailedError"
      PROVE  CodeIs(e) = "round_failed"
  BY <1>2 DEF CodeIs, GraphErrors, ConfigErrors
<1> QED
  BY <1>1, <1>2, RunCodeIs

LEMMA CausesAreTold ==
  ASSUME NEW e \in Classes
  PROVE  CauseIsTold(e)
<1> DEFINE codes == {d \in Range(Described) : IsA(e, d[1])}
           nearest == {d \in codes : \A c \in codes : IsA(d[1], c[1])}
           config == RunCode(e) = "inference_config_invalid"
<1>1. RunCode(e) = IF codes = {} THEN "internal_error" ELSE (CHOOSE d \in nearest : TRUE)[2]
  BY NearestIs, RunCodeIs
<1>2. config <=> e \in ConfigErrors
  BY RunCodeIs DEF CodeIs, GraphErrors, ConfigErrors
<1>3. \A h \in HardStops : IsA(e, h) => \A g \in HardStops : RunCode(e) = RunCode(g) <=> g = h
  <2>1. \A h \in HardStops : IsA(e, h) <=> e = h
    BY HardStopsAreLeaves, IsALeaf
  <2>2. \A h, g \in HardStops : RunCode(h) = RunCode(g) <=> g = h
    BY HardStopCodes DEF HardStops
  <2> QED
    BY <2>1, <2>2
<1>4. config <=> JobCode("report", e, "cloud_provider") = "inference_config_invalid"
  <2>1. JobCode("report", e, "cloud_provider") =
          IF IsA(e, "InferenceConfigError") THEN "inference_config_invalid"
          ELSE IF IsA(e, "AdvisoryNotAllowedError") THEN "cloud_provider" ELSE "report_generation_failed"
    <3>1. IsA(e, "AdvisoryNotAllowedError") => ~IsA(e, "InferenceConfigError")
      <4>1. "AdvisoryNotAllowedError" \in Classes \ Parents
        BY ClassesNamed DEF Named, Parents
      <4> QED
        BY <4>1, IsALeaf, IsAConfigError DEF ConfigErrors
    <3> QED
      BY <3>1 DEF JobCode, JobFailureCodes
  <2> QED
    BY <1>2, <2>1, IsAConfigError
<1>5. config => HttpStatus(e) = 422 /\ ExitCode(e) = 2
  BY <1>2, StatusIs, IsAConfigError, NothingIsNoFailure DEF ExitCode
<1>6. IsA(e, "GraphError") => (HttpStatus(e) = 503 <=> RunCode(e) = "graph_unavailable")
  BY StatusIs, IsAGraphError, RunCodeIs DEF CodeIs, GraphErrors
<1>7. \A cause \in {"driver", "auth", "pool", "server"}, write \in BOOLEAN :
        RunCode(GraphFailure(cause, write)) = "graph_unavailable" <=> cause # "server"
  <2> TAKE cause \in {"driver", "auth", "pool", "server"}, write \in BOOLEAN
  <2>1. GraphFailure(cause, write) \in GraphErrors
        /\ (GraphFailure(cause, write) = "Neo4jUnavailableError" <=> cause # "server")
    BY DEF GraphFailure, GraphErrors
  <2>2. \A c \in GraphErrors : RunCode(c) = "graph_unavailable" <=> c = "Neo4jUnavailableError"
    <3>1. ASSUME NEW c \in GraphErrors
          PROVE  CodeIs(c) = "graph_unavailable" <=> c = "Neo4jUnavailableError"
      BY DEF CodeIs, GraphErrors, ConfigErrors
    <3>2. GraphErrors \subseteq Classes
      BY ClassesNamed DEF Named
    <3> QED
      BY <3>1, <3>2, RunCodeIs
  <2> QED
    BY <2>1, <2>2
<1> HIDE DEF codes, nearest, config
<1> QED
  BY <1>1, <1>3, <1>4, <1>5, <1>6, <1>7 DEF CauseIsTold, codes, nearest, config

-----------------------------------------------------------------------------
(* A wave, of any roster, whose calls end in any order.                    *)

LEMMA LeastOf ==
  ASSUME NEW N, N \subseteq Nat, N # {}
  PROVE  Min(N) \in N /\ \A m \in N : Min(N) <= m
<1>1. PICK n \in N : \A m \in N : ~(<<m, n>> \in OpToRel(<, Nat))
  BY NatLessThanWellFounded, WFMin, Zenon
<1>2. ASSUME NEW m \in N, m < n
      PROVE  FALSE
  <2>1. <<m, n>> \in OpToRel(<, Nat)
    BY <1>2 DEF OpToRel
  <2>. QED
    BY <1>1, <2>1
<1>3. \A m \in N : n <= m
  BY <1>2
<1>. QED
  BY <1>3 DEF Min

\* The call of a wave that ended as the i-th.
CallOf(w, i) == [agent |-> w.order[i], outcome |-> w.outcome[w.order[i]]]

\* The places of the hard stops.
StopsOf(w) == {i \in 1..Cardinality(w.roster) : w.outcome[w.order[i]] \in HardStops}

\* The calls that ended: the first k.
EndedAre(w, k) ==
  /\ k \in 0..Cardinality(w.roster)
  /\ Finished(w) = [i \in 1..k |-> CallOf(w, i)]
  /\ StopsOf(w) = {} => k = Cardinality(w.roster)
  /\ StopsOf(w) # {} => Min(StopsOf(w)) <= k
  /\ w.cut = 0 => k = Cardinality(w.roster)

LEMMA FirstCalls ==
  ASSUME NEW w, OneWave(w)
  PROVE  \E k \in Int : EndedAre(w, k)
<1> DEFINE n == Cardinality(w.roster)
           all == [i \in 1..n |-> [agent |-> w.order[i], outcome |-> w.outcome[w.order[i]]]]
           stops == {i \in 1..n : Stops(all[i].outcome)}
           last == Max({Min(stops), n - w.cut})
<1>1. n \in Nat /\ w.cut \in Nat
  BY FS_CardinalityType DEF OneWave
<1>2. stops = StopsOf(w)
  BY OutcomeStops DEF StopsOf
<1>3. Finished(w) = IF stops = {} THEN all ELSE SubSeq(all, 1, last)
  BY DEF Finished
<1>4. CASE stops = {}
  <2>1. EndedAre(w, n)
    <3>1. Finished(w) = all
      BY <1>3, <1>4
    <3>2. all = [i \in 1..n |-> CallOf(w, i)]
      BY DEF CallOf
    <3>3. n \in 0..n
      BY <1>1
    <3>4. StopsOf(w) = {}
      BY <1>2, <1>4
    <3> HIDE DEF all, stops
    <3> QED
      BY <3>1, <3>2, <3>3, <3>4 DEF EndedAre
  <2> QED
    BY <1>1, <2>1
<1>5. CASE stops # {}
  <2> DEFINE first == Min(stops)
  <2>1. first \in stops
    <3>1. stops \subseteq Nat
      BY <1>1
    <3> HIDE DEF stops
    <3> QED
      BY <3>1, <1>5, LeastOf
  <2>2. first \in 1..n
    BY <2>1
  <2> HIDE DEF first
  <2>3. last \in Int /\ first <= last /\ last <= n /\ (w.cut = 0 => last = n)
    <3> DEFINE two == {first, n - w.cut}
    <3>1. \E x \in two : \A y \in two : x >= y
      BY <1>1, <2>2
    <3>2. Max(two) \in two /\ \A y \in two : Max(two) >= y
      <4> HIDE DEF two
      <4> QED
        BY <3>1 DEF Max
    <3>3. last = Max(two)
      BY DEF first
    <3> HIDE DEF last
    <3> QED
      BY <1>1, <2>2, <3>2, <3>3
  <2> HIDE DEF last
  <2>4. SubSeq(all, 1, last) = [i \in 1..last |-> all[i]]
    <3> DEFINE V == {all[i] : i \in 1..n}
               part == SubSeq(all, 1, last)
    <3>1. all \in [1..n -> V]
      OBVIOUS
    <3>2. all \in Seq(V) /\ Len(all) = n
      <4> HIDE DEF all, V
      <4> QED
        BY <1>1, <3>1
    <3>3. 1 \in 1..Len(all) + 1 /\ last \in 0..Len(all)
      BY <1>1, <2>2, <2>3, <3>2
    <3> HIDE DEF all, V
    <3>4. /\ part \in Seq(V)
          /\ Len(part) = IF 1 <= last THEN last - 1 + 1 ELSE 0
          /\ \A i \in 1..last - 1 + 1 : part[i] = all[1 + i - 1]
      BY <3>2, <3>3, SubSeqProperties
    <3> HIDE DEF part
    <3>5. Len(part) = last /\ \A i \in 1..last : part[i] = all[i]
      BY <2>2, <2>3, <3>4
    <3>6. part = [i \in 1..Len(part) |-> part[i]]
      BY <3>4
    <3> QED
      BY <3>5, <3>6 DEF part
  <2>5. EndedAre(w, last)
    <3>1. last \in 0..n
      BY <2>2, <2>3
    <3>2. [i \in 1..last |-> all[i]] = [i \in 1..last |-> CallOf(w, i)]
      BY <2>3, <1>1 DEF CallOf
    <3>3. Min(StopsOf(w)) <= last
      BY <1>2, <2>3 DEF first
    <3>4. Finished(w) = SubSeq(all, 1, last)
      BY <1>3, <1>5
    <3> HIDE DEF all
    <3> QED
      BY <1>2, <1>5, <2>3, <2>4, <3>1, <3>2, <3>3, <3>4 DEF EndedAre
  <2> QED
    BY <2>3, <2>5
<1> QED
  BY <1>4, <1>5

\* What the store and the controller are told of the calls that ended.
LEMMA EndedCalls ==
  ASSUME NEW w, OneWave(w), NEW k \in Int, EndedAre(w, k)
  PROVE  /\ DOMAIN Finished(w) = 1..k
         /\ \A i \in 1..k : /\ Finished(w)[i] = CallOf(w, i)
                            /\ Finished(w)[i].agent = w.order[i] /\ w.order[i] \in w.roster
                            /\ Finished(w)[i].outcome = w.outcome[w.order[i]]
         /\ \A f \in Range(Finished(w)) : f.agent \in w.roster /\ f.outcome = w.outcome[f.agent]
         /\ k = Cardinality(w.roster) => \A a \in w.roster : \E f \in Range(Finished(w)) : f.agent = a
<1> DEFINE finished == Finished(w)
           n == Cardinality(w.roster)
<1>1. n \in Nat /\ k \in 0..n /\ finished = [i \in 1..k |-> CallOf(w, i)]
  BY FS_CardinalityType DEF OneWave, EndedAre
<1>2. w.order \in [1..n -> w.roster] /\ Range(w.order) = w.roster
  BY DEF OneWave
<1> HIDE DEF finished, n
<1>3. DOMAIN finished = 1..k /\ \A i \in 1..k : finished[i] = CallOf(w, i) /\ w.order[i] \in w.roster
  BY <1>1, <1>2
<1>4. \A i \in 1..k : finished[i].agent = w.order[i] /\ finished[i].outcome = w.outcome[w.order[i]]
  BY <1>3 DEF CallOf
<1>5. \A f \in Range(finished) : f.agent \in w.roster /\ f.outcome = w.outcome[f.agent]
  <2>1. \A f \in Range(finished) : \E i \in 1..k : f = finished[i]
    BY <1>3 DEF Range
  <2> QED
    BY <1>3, <1>4, <2>1
<1>6. ASSUME k = n, NEW a \in w.roster
      PROVE  \E f \in Range(finished) : f.agent = a
  <2>1. PICK i \in 1..n : w.order[i] = a
    BY <1>2 DEF Range
  <2>2. finished[i] \in Range(finished) /\ finished[i].agent = a
    BY <1>3, <1>4, <1>6, <2>1 DEF Range
  <2> QED
    BY <2>2
<1> QED
  BY <1>3, <1>4, <1>5, <1>6 DEF finished, n

\* The agents of a wave whose outcome is one of S.
EndedIn(w, S) == {a \in w.roster : w.outcome[a] \in S}

LEMMA StopsFound ==
  ASSUME NEW w, OneWave(w)
  PROVE  StopsOf(w) # {} <=> EndedIn(w, HardStops) # {}
<1> DEFINE n == Cardinality(w.roster)
<1>1. w.order \in [1..n -> w.roster] /\ Range(w.order) = w.roster
  BY DEF OneWave
<1>2. \A a \in w.roster : \E i \in 1..n : w.order[i] = a
  BY <1>1 DEF Range
<1>3. \A i \in 1..n : w.order[i] \in w.roster
  BY <1>1
<1> QED
  BY <1>2, <1>3 DEF StopsOf, EndedIn

\* The first hard stop is raised.
LEMMA StoppedWave ==
  ASSUME NEW w, OneWave(w), StopsOf(w) # {}
  PROVE  LET finished == Finished(w)
             first == Min({i \in DOMAIN finished : finished[i].outcome \in HardStops})
             raised == WaveEnds(w.roster, finished).raised
         IN  /\ raised \in HardStops /\ raised = w.outcome[finished[first].agent]
             /\ \E a \in w.roster : raised = w.outcome[a]
<1> DEFINE finished == Finished(w)
           stops == {i \in DOMAIN finished : Stops(finished[i].outcome)}
           hard == {i \in DOMAIN finished : finished[i].outcome \in HardStops}
           n == Cardinality(w.roster)
           m == Min(StopsOf(w))
<1>1. PICK k \in Int : EndedAre(w, k)
  BY FirstCalls
<1>2. /\ DOMAIN finished = 1..k
      /\ \A i \in 1..k : /\ finished[i].agent = w.order[i] /\ w.order[i] \in w.roster
                         /\ finished[i].outcome = w.outcome[w.order[i]]
  BY <1>1, EndedCalls
<1>3. stops = hard
  BY OutcomeStops
<1>4. n \in Nat
  BY FS_CardinalityType DEF OneWave
<1>5. m \in StopsOf(w)
  <2>1. StopsOf(w) \subseteq Nat
    BY <1>4 DEF StopsOf
  <2> QED
    BY <2>1, LeastOf
<1>6. m \in hard
  <2>1. m <= k /\ m \in 1..n /\ w.outcome[w.order[m]] \in HardStops
    BY <1>1, <1>5 DEF EndedAre, StopsOf
  <2>2. m \in 1..k
    BY <1>4, <2>1
  <2> HIDE DEF m, finished
  <2> QED
    BY <1>2, <2>1, <2>2
<1> DEFINE first == Min(hard)
<1>7. first \in hard
  <2>1. hard \subseteq Nat
    BY <1>2
  <2> HIDE DEF hard, m
  <2> QED
    BY <1>6, <2>1, LeastOf
<1>8. WaveEnds(w.roster, finished).raised = finished[first].outcome
  <2>1. WaveEnds(w.roster, finished) =
          IF stops # {}
          THEN [raised |-> finished[Min(stops)].outcome, results |-> <<>>, told |-> <<>>]
          ELSE [raised |-> Nothing,
                results |-> [a \in w.roster |-> Decision((CHOOSE f \in Range(finished) : f.agent = a).outcome)],
                told |-> WaveEnds(w.roster, finished).told]
    BY DEF WaveEnds
  <2> HIDE DEF finished, stops, hard
  <2> QED
    BY <1>3, <1>6, <2>1
<1>9. finished[first].outcome \in HardStops /\ first \in 1..k
  BY <1>2, <1>7
<1> HIDE DEF first, finished
<1>10. finished[first].outcome = w.outcome[finished[first].agent] /\ finished[first].agent \in w.roster
  BY <1>2, <1>9
<1> QED
  BY <1>8, <1>9, <1>10 DEF first, finished

\* Without a hard stop every agent has the decision that its outcome makes.
LEMMA WholeWave ==
  ASSUME NEW w, OneWave(w), StopsOf(w) = {}
  PROVE  LET r == WaveEnds(w.roster, Finished(w))
             failed == {a \in w.roster : Decision(w.outcome[a]).kind = "inference"}
         IN  /\ r.raised = Nothing
             /\ r.results = [a \in w.roster |-> Decision(w.outcome[a])]
             /\ r.told = IF failed = {} THEN <<>>
                         ELSE <<Cardinality(w.roster) - Cardinality(failed), Cardinality(failed)>>
             /\ Streamed(Finished(w)) = w.roster
<1> DEFINE finished == Finished(w)
           stops == {i \in DOMAIN finished : Stops(finished[i].outcome)}
           results == [a \in w.roster |-> Decision((CHOOSE f \in Range(finished) : f.agent = a).outcome)]
           decisions == [a \in w.roster |-> Decision(w.outcome[a])]
           Failed(s) == {a \in w.roster : s[a].kind = "inference"}
           Told(S) == IF S = {} THEN <<>> ELSE <<Cardinality(w.roster) - Cardinality(S), Cardinality(S)>>
<1>1. PICK k \in Int : EndedAre(w, k)
  BY FirstCalls
<1>2. k = Cardinality(w.roster)
  BY <1>1 DEF EndedAre
<1>3. /\ DOMAIN finished = 1..k
      /\ \A i \in 1..k : finished[i].outcome = w.outcome[w.order[i]]
      /\ \A f \in Range(finished) : f.agent \in w.roster /\ f.outcome = w.outcome[f.agent]
      /\ \A a \in w.roster : \E f \in Range(finished) : f.agent = a
  BY <1>1, <1>2, EndedCalls
<1>4. EndedIn(w, HardStops) = {}
  BY StopsFound
<1>5. \A f \in Range(finished) : ~Stops(f.outcome)
  BY <1>3, <1>4, OutcomeStops DEF EndedIn
<1>6. stops = {}
  BY <1>5 DEF Range
<1>7. results = decisions
  <2>1. ASSUME NEW a \in w.roster
        PROVE  (CHOOSE f \in Range(finished) : f.agent = a).outcome = w.outcome[a]
    <3> HIDE DEF finished
    <3> QED
      BY <1>3
  <2> HIDE DEF finished
  <2> QED
    BY <2>1
<1>8. WaveEnds(w.roster, finished) =
        IF stops # {}
        THEN [raised |-> finished[Min(stops)].outcome, results |-> <<>>, told |-> <<>>]
        ELSE [raised |-> Nothing, results |-> results, told |-> Told(Failed(results))]
  BY DEF WaveEnds
<1>9. Streamed(finished) = w.roster
  <2> HIDE DEF finished
  <2>1. {g \in Range(finished) : ~Stops(g.outcome)} = Range(finished)
    BY <1>5
  <2>2. Streamed(finished) = {f.agent : f \in Range(finished)}
    BY <2>1 DEF Streamed
  <2> QED
    BY <1>3, <2>2
<1>10. WaveEnds(w.roster, finished) = [raised |-> Nothing, results |-> decisions, told |-> Told(Failed(decisions))]
  <2> HIDE DEF finished, stops, results, decisions, Failed, Told
  <2> QED
    BY <1>6, <1>7, <1>8
<1>11. Failed(decisions) = {a \in w.roster : Decision(w.outcome[a]).kind = "inference"}
  OBVIOUS
<1> DEFINE failed == {a \in w.roster : Decision(w.outcome[a]).kind = "inference"}
<1>12. Failed(decisions) = failed
  BY <1>11
<1> HIDE DEF finished, Failed, decisions, failed, Told
<1>13. /\ WaveEnds(w.roster, finished).raised = Nothing
       /\ WaveEnds(w.roster, finished).results = decisions
       /\ WaveEnds(w.roster, finished).told = Told(failed)
  BY <1>10, <1>12
<1> QED
  BY <1>9, <1>13 DEF finished, Told, decisions, failed

LEMMA WavesKeepTheirCause ==
  ASSUME NEW w, OneWave(w)
  PROVE  WaveKeepsItsCause(w)
<1> DEFINE finished == Finished(w)
           Crew == w.roster
           r == WaveEnds(Crew, finished)
           Ended(S) == {a \in Crew : w.outcome[a] \in S}
           replied == Ended({"decided", "unparsed"})
           stopped == \E a \in Crew : w.outcome[a] \in HardStops
           first == Min({i \in DOMAIN finished : finished[i].outcome \in HardStops})
           Codes == {"none", "round_failed"}
<1>1. stopped <=> StopsOf(w) # {}
  BY StopsFound DEF EndedIn
<1>2. stopped => r.raised \in HardStops /\ r.raised = w.outcome[finished[first].agent]
  BY <1>1, StoppedWave
<1>3. HardStops \subseteq Classes /\ Nothing \notin HardStops
  BY HardStopsAreLeaves, NothingIsNoFailure
<1>4. ~stopped => /\ r.raised = Nothing
                  /\ r.results = [a \in Crew |-> Decision(w.outcome[a])]
                  /\ Streamed(finished) = Crew
  BY <1>1, WholeWave
<1>5. r.raised # Nothing <=> stopped
  BY <1>2, <1>3, <1>4
<1>6. \A o : /\ Decision(o).signal = "valid" <=> o = "decided"
             /\ Decision(o).kind = "inference" <=> o \notin {"decided", "unparsed"}
  BY DEF Decision
<1>7. ~stopped => \A a \in Crew : r.results[a].signal = "valid" <=> a \in Ended({"decided"})
  BY <1>4, <1>6
<1>8. ~stopped => r.told = IF replied = Crew THEN <<>>
                           ELSE <<Cardinality(replied), Cardinality(Crew) - Cardinality(replied)>>
  <2> DEFINE failed == {a \in Crew : Decision(w.outcome[a]).kind = "inference"}
  <2>1. ~stopped => r.told = IF failed = {} THEN <<>>
                             ELSE <<Cardinality(Crew) - Cardinality(failed), Cardinality(failed)>>
    BY <1>1, WholeWave
  <2>2. failed = Crew \ replied /\ replied \subseteq Crew
    BY <1>6
  <2>3. IsFiniteSet(Crew)
    BY DEF OneWave
  <2> HIDE DEF failed, replied, r, stopped
  <2>4. /\ Cardinality(failed) = Cardinality(Crew) - Cardinality(replied)
        /\ Cardinality(Crew) \in Nat /\ Cardinality(replied) \in Nat
    <3>1. Crew \cap replied = replied
      BY <2>2
    <3>2. IsFiniteSet(replied)
      BY <2>2, <2>3, FS_Subset
    <3>3. Cardinality(Crew \ replied) = Cardinality(Crew) - Cardinality(Crew \cap replied)
      BY <2>3, FS_Difference
    <3> QED
      BY <2>2, <2>3, <3>1, <3>2, <3>3, FS_CardinalityType
  <2>5. failed = {} <=> replied = Crew
    BY <2>2
  <2>6. Cardinality(Crew) - Cardinality(failed) = Cardinality(replied)
    BY <2>4
  <2> QED
    BY <2>1, <2>4, <2>5, <2>6
<1>9. Rationales(finished) \subseteq Streamed(finished) \cap Ended({"decided"})
  <2>1. PICK k \in Int : EndedAre(w, k)
    BY FirstCalls
  <2>2. \A f \in Range(finished) : f.agent \in Crew /\ f.outcome = w.outcome[f.agent]
    BY <2>1, EndedCalls
  <2>3. ~Stops("decided")
    BY OutcomeStops DEF HardStops
  <2> HIDE DEF finished, Crew
  <2>4. Rationales(finished) \subseteq Streamed(finished)
    BY <2>3 DEF Rationales, Streamed
  <2>5. Rationales(finished) \subseteq Ended({"decided"})
    BY <2>2 DEF Rationales
  <2> QED
    BY <2>4, <2>5
<1>10. ASSUME NEW percent \in {0, 34, 67, 100}
       PROVE  CodeOf(RoundEnds(Crew, finished, percent)) \in Codes <=> ~stopped
  <2> DEFINE e == RoundEnds(Crew, finished, percent)
  <2>1. e = IF r.raised # Nothing THEN r.raised
            ELSE IF Cardinality({a \in DOMAIN r.results : r.results[a].signal = "PARSE_ERROR"}) * 100 > percent * Cardinality(Crew)
                 THEN "RoundFailedError" ELSE Nothing
    BY DEF RoundEnds
  <2> HIDE DEF e, r, stopped
  <2>2. ASSUME stopped
        PROVE  CodeOf(e) \notin Codes
    <3>1. e \in HardStops
      BY <1>2, <1>5, <2>1, <2>2
    <3>2. e # Nothing
      BY <1>3, <3>1
    <3> QED
      BY <3>1, <3>2, HardStopCodes DEF CodeOf, HardStops
  <2>3. ASSUME ~stopped
        PROVE  CodeOf(e) \in Codes
    <3>1. e \in {"RoundFailedError", Nothing}
      BY <1>5, <2>1, <2>3
    <3>2. RunCode("RoundFailedError") = "round_failed"
      BY RoundFailedCode
    <3> QED
      BY <3>1, <3>2 DEF CodeOf
  <2> QED
    BY <2>2, <2>3 DEF e
<1> HIDE DEF finished, Crew, r, Ended, replied, stopped, first
<1> QED
  BY <1>2, <1>5, <1>7, <1>8, <1>4, <1>9, <1>10
     DEF WaveKeepsItsCause, finished, Crew, r, Ended, replied, stopped, first

-----------------------------------------------------------------------------
(* A call, of any number of tries.                                         *)

\* A function of the subsets whose value comes from that of a smaller subset.
Recursive(S, V, pick, base, next) ==
  \E g \in [SUBSET S -> V] : \A s \in SUBSET S : g[s] = IF s = {} THEN base ELSE next[s][g[s \ {pick[s]}]]

LEMMA SubsetRecursion ==
  ASSUME NEW S, IsFiniteSet(S), NEW V, NEW base \in V, NEW next \in [SUBSET S -> [V -> V]],
         NEW pick, \A s \in SUBSET S : s # {} => pick[s] \in s
  PROVE  Recursive(S, V, pick, base, next)
<1> DEFINE Small(n) == {s \in SUBSET S : Cardinality(s) <= n}
           Solves(n, g) == \A s \in Small(n) : g[s] = IF s = {} THEN base ELSE next[s][g[s \ {pick[s]}]]
           Solved(n) == \E g \in [Small(n) -> V] : Solves(n, g)
           N == {n \in Nat : ~Solved(n)}
<1>1. \A s \in SUBSET S : IsFiniteSet(s) /\ Cardinality(s) \in Nat
  BY FS_Subset, FS_CardinalityType
<1>2. \A n \in Nat : \A s \in Small(n + 1) : s # {} => s \ {pick[s]} \in Small(n)
  <2> SUFFICES ASSUME NEW n \in Nat, NEW s \in Small(n + 1), s # {}
               PROVE  s \ {pick[s]} \in Small(n)
    OBVIOUS
  <2>1. s \in SUBSET S /\ Cardinality(s) <= n + 1 /\ Cardinality(s) \in Nat /\ IsFiniteSet(s)
    BY <1>1
  <2> DEFINE x == pick[s]
             u == s \ {x}
  <2>2. x \in s
    BY <2>1
  <2>3. Cardinality(u) = Cardinality(s) - 1
    <3> HIDE DEF x, Small
    <3>1. Cardinality(s \ {x}) = IF x \in s THEN Cardinality(s) - 1 ELSE Cardinality(s)
      BY <2>1, FS_RemoveElement
    <3> QED
      BY <2>2, <3>1
  <2>4. u \in SUBSET S
    BY <2>1
  <2> HIDE DEF u
  <2>5. Cardinality(u) <= n
    BY <2>1, <2>3
  <2>6. u \in Small(n)
    BY <2>4, <2>5
  <2> QED
    BY <2>6 DEF u
<1>3. Small(0) = {{}}
  <2>1. \A s \in Small(0) : s = {}
    <3> SUFFICES ASSUME NEW s \in Small(0)
                 PROVE  s = {}
      OBVIOUS
    <3>1. Cardinality(s) = 0 /\ IsFiniteSet(s)
      BY <1>1
    <3> QED
      BY <3>1, FS_EmptySet
  <2>2. {} \in Small(0)
    BY FS_EmptySet
  <2> QED
    BY <2>1, <2>2
<1>4. Solved(0)
  <2> DEFINE g == [s \in Small(0) |-> base]
  <2>1. g \in [Small(0) -> V] /\ Solves(0, g)
    BY <1>3
  <2> QED
    BY <2>1
<1>5. ASSUME NEW n \in Nat, Solved(n)
      PROVE  Solved(n + 1)
  <2>1. PICK g \in [Small(n) -> V] : Solves(n, g)
    BY <1>5
  <2> DEFINE A == Small(n)
             B == Small(n + 1)
             h == [s \in B |-> IF s = {} THEN base ELSE next[s][g[s \ {pick[s]}]]]
  <2>2. A \subseteq B /\ B \subseteq SUBSET S
    BY <1>1
  <2>3. \A s \in B : s # {} => s \ {pick[s]} \in A
    BY <1>2
  <2>4. \A s \in A : g[s] = IF s = {} THEN base ELSE next[s][g[s \ {pick[s]}]]
    BY <2>1
  <2> HIDE DEF A, B
  <2>5. \A s \in A : h[s] = g[s]
    BY <2>2, <2>4
  <2>6. \A s \in B : h[s] = IF s = {} THEN base ELSE next[s][h[s \ {pick[s]}]]
    <3> SUFFICES ASSUME NEW s \in B
                 PROVE  h[s] = IF s = {} THEN base ELSE next[s][h[s \ {pick[s]}]]
      OBVIOUS
    <3>1. h[s] = IF s = {} THEN base ELSE next[s][g[s \ {pick[s]}]]
      OBVIOUS
    <3> HIDE DEF h
    <3>2. s # {} => h[s \ {pick[s]}] = g[s \ {pick[s]}]
      BY <2>3, <2>5
    <3> QED
      BY <3>1, <3>2
  <2>7. h \in [B -> V]
    <3>1. g \in [A -> V]
      BY DEF A
    <3>2. \A s \in B : (IF s = {} THEN base ELSE next[s][g[s \ {pick[s]}]]) \in V
      BY <2>2, <2>3, <3>1
    <3> QED
      BY <3>2
  <2> HIDE DEF h
  <2>8. h \in [Small(n + 1) -> V] /\ Solves(n + 1, h)
    BY <2>6, <2>7 DEF B
  <2> QED
    BY <2>8
<1>6. \A n \in Nat : Solved(n)
  <2> SUFFICES ASSUME N # {} PROVE FALSE
    OBVIOUS
  <2> HIDE DEF Solved
  <2> DEFINE n == Min(N)
  <2>1. n \in N /\ \A m \in N : n <= m
    <3>1. N \subseteq Nat
      OBVIOUS
    <3> HIDE DEF N
    <3> QED
      BY <3>1, LeastOf
  <2> HIDE DEF n
  <2>2. n # 0
    BY <1>4, <2>1
  <2>3. n - 1 \in Nat /\ n - 1 \notin N
    BY <2>1, <2>2
  <2>4. Solved(n - 1 + 1)
    BY <1>5, <2>3
  <2>5. n - 1 + 1 = n
    BY <2>1
  <2> QED
    BY <2>1, <2>4, <2>5
<1>7. Small(Cardinality(S)) = SUBSET S
  <2>1. \A s \in SUBSET S : Cardinality(s) <= Cardinality(S)
    BY FS_Subset
  <2> QED
    BY <2>1
<1>8. Solved(Cardinality(S))
  <2> HIDE DEF Solved
  <2> QED
    BY <1>1, <1>6
<1> QED
  <2>1. PICK g \in [Small(Cardinality(S)) -> V] : Solves(Cardinality(S), g)
    BY <1>8
  <2> QED
    BY <1>7, <2>1 DEF Recursive

\* What one request comes to, and what is known of a call.
Verdicts == {"done", "retry", "fail", "auth", "config"}
Calls == [result : {"open"} \cup (Verdicts \ {"retry"}), retries : Nat, waits : Seq({"everyone", "alone"})]

LEMMA VerdictIs ==
  ASSUME NEW a
  PROVE  /\ CloudVerdict(a) \in Verdicts
         /\ CloudVerdict(a) = "auth" => a.status \in {401, 403}
         /\ CloudVerdict(a) = "config" => a.status \in {400, 404, 422}
BY DEF CloudVerdict, Classify, Transient, Verdicts

\* What one answer makes of a call.
Receives(c, a, limit, d) ==
  LET v == CloudVerdict(a) IN
  CASE c.result # "open" -> d = c
    [] c.result = "open" /\ v = "retry" /\ c.retries < limit ->
         /\ d.result = "open" /\ d.retries = c.retries + 1
         /\ d.waits = Append(c.waits, IF a.status = 429 THEN "everyone" ELSE "alone")
    [] OTHER -> /\ d.result = IF v = "retry" THEN "fail" ELSE v
                /\ d.retries = c.retries /\ d.waits = c.waits

LEMMA ReceiveIs ==
  ASSUME NEW c \in Calls, NEW a, NEW limit \in Nat
  PROVE  Receive(c, a, limit) \in Calls /\ Receives(c, a, limit, Receive(c, a, limit))
<1> DEFINE v == CloudVerdict(a)
           d == Receive(c, a, limit)
           wait == IF a.status = 429 THEN "everyone" ELSE "alone"
<1>1. v \in Verdicts
  BY VerdictIs
<1>2. Append(c.waits, wait) \in Seq({"everyone", "alone"})
  BY DEF Calls
<1>3. d = IF c.result # "open" THEN c
          ELSE IF v = "retry" /\ c.retries < limit
               THEN [c EXCEPT !.retries = @ + 1, !.waits = Append(@, wait)]
          ELSE IF v = "retry" THEN [c EXCEPT !.result = "fail"] ELSE [c EXCEPT !.result = v]
  BY DEF Receive, Calls
<1> HIDE DEF v, d
<1>4. d \in Calls
  <2> DEFINE W == Seq({"everyone", "alone"})
             Results == {"open"} \cup (Verdicts \ {"retry"})
             more == Append(c.waits, wait)
  <2>1. c \in [result : Results, retries : Nat, waits : W] /\ more \in W
    BY <1>2 DEF Calls
  <2> HIDE DEF W, Results, more
  <2>2. [c EXCEPT !.retries = @ + 1, !.waits = more] \in [result : Results, retries : Nat, waits : W]
    <3> DEFINE b == [c EXCEPT !.retries = @ + 1]
    <3>1. b \in [result : Results, retries : Nat, waits : W]
      BY <2>1
    <3> HIDE DEF b
    <3>2. [b EXCEPT !.waits = more] \in [result : Results, retries : Nat, waits : W]
      BY <2>1, <3>1
    <3> QED
      BY <3>2 DEF b
  <2>3. "fail" \in Results /\ (v # "retry" => v \in Results)
    BY <1>1 DEF Results, Verdicts
  <2>4. \A x \in Results : [c EXCEPT !.result = x] \in [result : Results, retries : Nat, waits : W]
    BY <2>1
  <2>5. d = IF c.result # "open" THEN c
            ELSE IF v = "retry" /\ c.retries < limit
                 THEN [c EXCEPT !.retries = @ + 1, !.waits = more]
            ELSE IF v = "retry" THEN [c EXCEPT !.result = "fail"] ELSE [c EXCEPT !.result = v]
    BY <1>3 DEF more
  <2>6. d \in [result : Results, retries : Nat, waits : W]
    BY <2>1, <2>2, <2>3, <2>4, <2>5
  <2> QED
    BY <2>6 DEF Calls, W, Results
<1> DEFINE more == Append(c.waits, wait)
<1>5. /\ c.result # "open" => d = c
      /\ c.result = "open" /\ v = "retry" /\ c.retries < limit =>
           d.result = "open" /\ d.retries = c.retries + 1 /\ d.waits = more
      /\ c.result = "open" /\ ~(v = "retry" /\ c.retries < limit) =>
           /\ d.result = IF v = "retry" THEN "fail" ELSE v
           /\ d.retries = c.retries /\ d.waits = c.waits
  <2> HIDE DEF more
  <2>1. d = IF c.result # "open" THEN c
            ELSE IF v = "retry" /\ c.retries < limit
                 THEN [c EXCEPT !.retries = @ + 1, !.waits = more]
            ELSE IF v = "retry" THEN [c EXCEPT !.result = "fail"] ELSE [c EXCEPT !.result = v]
    BY <1>3 DEF more
  <2> QED
    BY <2>1 DEF Calls
<1> QED
  BY <1>4, <1>5 DEF v, d, Receives

\* The call, answer by answer.
CallGoes(answers, limit, c) ==
  /\ c \in [0..Len(answers) -> Calls]
  /\ c[0] = NewCall
  /\ \A k \in 1..Len(answers) : c[k] = Receive(c[k - 1], answers[k], limit)
  /\ CloudCall(answers, limit) = c[Len(answers)]

LEMMA GreatestOf ==
  ASSUME NEW n \in Nat, NEW s, s \subseteq 1..n, s # {}
  PROVE  Max(s) \in s /\ \A x \in s : x <= Max(s)
<1> DEFINE N == {n - x : x \in s}
<1>1. N \subseteq Nat /\ N # {}
  <2>1. \A x \in s : n - x \in Nat
    OBVIOUS
  <2> QED
    BY <2>1
<1>2. Min(N) \in N /\ \A m \in N : Min(N) <= m
  <2> HIDE DEF N
  <2> QED
    BY <1>1, LeastOf
<1>3. PICK x \in s : Min(N) = n - x
  BY <1>2
<1>4. \A y \in s : x >= y
  <2> SUFFICES ASSUME NEW y \in s PROVE x >= y
    OBVIOUS
  <2>1. n - x <= n - y
    BY <1>2, <1>3
  <2> QED
    BY <2>1
<1> QED
  BY <1>4 DEF Max

LEMMA CallUnfolds ==
  ASSUME NEW answers, Len(answers) \in Nat, NEW limit \in Nat
  PROVE  \E c : CallGoes(answers, limit, c)
<1> DEFINE n == Len(answers)
           seq == [i \in 1..n |-> i]
           S == DOMAIN seq
           pick == [s \in SUBSET S |-> Max(s)]
           next == [s \in SUBSET S |-> [v \in Calls |-> Receive(v, answers[seq[Max(s)]], limit)]]
           Step(h) == [s \in SUBSET S |-> IF s = {} THEN NewCall
                                          ELSE Receive(h[s \ {Max(s)}], answers[seq[Max(s)]], limit)]
           call == CHOOSE h : h = Step(h)
<1>1. S = 1..n /\ IsFiniteSet(S)
  BY FS_Interval
<1>2. \A s \in SUBSET S : s # {} => Max(s) \in s /\ \A x \in s : x <= Max(s)
  <2> SUFFICES ASSUME NEW s \in SUBSET S, s # {}
               PROVE  Max(s) \in s /\ \A x \in s : x <= Max(s)
    OBVIOUS
  <2>1. s \subseteq 1..n /\ n \in Nat
    BY <1>1
  <2> HIDE DEF S, n
  <2> QED
    BY <2>1, GreatestOf
<1>3. NewCall \in Calls
  BY DEF NewCall, Calls
<1>4. next \in [SUBSET S -> [Calls -> Calls]]
  <2> HIDE DEF S, seq
  <2>1. \A s \in SUBSET S, v \in Calls : Receive(v, answers[seq[Max(s)]], limit) \in Calls
    BY ReceiveIs
  <2> QED
    BY <2>1
<1>5. Recursive(S, Calls, pick, NewCall, next)
  <2>1. \A s \in SUBSET S : s # {} => pick[s] \in s
    BY <1>2
  <2> HIDE DEF S, pick, next
  <2> QED
    BY <1>1, <1>3, <1>4, <2>1, SubsetRecursion
<1>6. PICK g \in [SUBSET S -> Calls] : \A s \in SUBSET S : g[s] = IF s = {} THEN NewCall ELSE next[s][g[s \ {pick[s]}]]
  <2> HIDE DEF S, pick, next
  <2> QED
    BY <1>5 DEF Recursive
<1>7. g = Step(g)
  <2> HIDE DEF S, seq
  <2>1. ASSUME NEW s \in SUBSET S
        PROVE  g[s] = IF s = {} THEN NewCall ELSE Receive(g[s \ {Max(s)}], answers[seq[Max(s)]], limit)
    <3>1. g[s \ {Max(s)}] \in Calls
      OBVIOUS
    <3> QED
      BY <1>6, <3>1
  <2> QED
    BY <2>1
<1>8. call = Step(call)
  <2> HIDE DEF Step
  <2> QED
    BY <1>7
<1> HIDE DEF call
<1>9. CloudCall(answers, limit) = call[S]
  BY DEF CloudCall, FoldLeft, MapThenFoldSet, call
<1> DEFINE c == [k \in 0..n |-> call[1..k]]
<1>10. \A k \in 0..n : 1..k \in SUBSET S
  BY <1>1
<1>11. c[0] = NewCall /\ c[n] = call[S]
  <2>1. 1..0 = {} /\ 0 \in 0..n /\ n \in 0..n
    OBVIOUS
  <2> HIDE DEF S
  <2>2. call[{}] = NewCall
    BY <1>8
  <2> QED
    BY <1>1, <2>1, <2>2
<1>12. ASSUME NEW k \in 1..n
       PROVE  c[k] = Receive(c[k - 1], answers[k], limit)
  <2> DEFINE s == 1..k
  <2>1. s \in SUBSET S /\ s # {} /\ k \in 0..n /\ k - 1 \in 0..n
    <3>1. k \in 0..n /\ k - 1 \in 0..n /\ k \in s
      OBVIOUS
    <3> HIDE DEF S
    <3> QED
      BY <1>10, <3>1
  <2>2. Max(s) = k
    <3>1. Max(s) \in s /\ \A x \in s : x <= Max(s)
      BY <1>2, <2>1
    <3>2. k \in s
      OBVIOUS
    <3> DEFINE m == Max(s)
    <3> HIDE DEF m
    <3>3. m \in 1..k /\ k <= m
      BY <3>1, <3>2 DEF m
    <3> QED
      BY <3>3 DEF m
  <2>3. s \ {k} = 1..(k - 1) /\ seq[k] = k
    OBVIOUS
  <2>4. call[s] = Receive(call[s \ {Max(s)}], answers[seq[Max(s)]], limit)
    <3> HIDE DEF S, s, seq
    <3> QED
      BY <1>8, <2>1
  <2>5. call[s] = Receive(call[1..(k - 1)], answers[k], limit)
    BY <2>2, <2>3, <2>4
  <2> QED
    BY <2>1, <2>5
<1>13. c \in [0..n -> Calls]
  <2> DEFINE Bad == {k \in 0..n : c[k] \notin Calls}
             least == Min(Bad)
  <2>1. c[0] \in Calls
    BY <1>3, <1>11
  <2>2. \A k \in 1..n : c[k - 1] \in Calls => c[k] \in Calls
    <3> HIDE DEF c
    <3> QED
      BY <1>12, ReceiveIs
  <2> HIDE DEF c
  <2>3. ASSUME Bad # {}
        PROVE  FALSE
    <3>1. Bad \subseteq Nat
      OBVIOUS
    <3>2. least \in Bad /\ \A m \in Bad : least <= m
      <4> HIDE DEF Bad
      <4> QED
        BY <3>1, <2>3, LeastOf
    <3> HIDE DEF least
    <3>3. least \in 1..n /\ least - 1 \in 0..n
      BY <2>1, <3>2
    <3>4. least - 1 \notin Bad
      BY <3>2, <3>3
    <3> QED
      BY <2>2, <3>2, <3>3, <3>4
  <2>4. \A k \in 0..n : c[k] \in Calls
    BY <2>3
  <2>5. \A k \in 0..n : call[1..k] \in Calls
    BY <2>4 DEF c
  <2> QED
    BY <2>5 DEF c
<1> QED
  BY <1>1, <1>9, <1>11, <1>12, <1>13 DEF CallGoes

\* A call has been retried after each of its first answers, and waited after each
\* as its answer says; when it ended, the next answer is the one that ended it.
CallAt(answers, limit, c, k) ==
  /\ c.retries \in 0..limit /\ Len(c.waits) = c.retries
  /\ \A i \in 1..c.retries : /\ CloudVerdict(answers[i]) = "retry"
                             /\ c.waits[i] = "everyone" <=> answers[i].status = 429
  /\ c.result = "open" => c.retries = k
  /\ c.result # "open" => /\ c.retries < k
                          /\ IF CloudVerdict(answers[c.retries + 1]) = "retry"
                             THEN c.result = "fail" /\ c.retries = limit
                             ELSE c.result = CloudVerdict(answers[c.retries + 1])

LEMMA CallSoFar ==
  ASSUME NEW answers, Len(answers) \in Nat, NEW limit \in Nat, NEW c, CallGoes(answers, limit, c)
  PROVE  \A k \in 0..Len(answers) : CallAt(answers, limit, c[k], k)
<1> DEFINE n == Len(answers)
           Bad == {k \in 0..n : ~CallAt(answers, limit, c[k], k)}
           least == Min(Bad)
<1>1. CallAt(answers, limit, c[0], 0)
  BY DEF CallGoes, CallAt, NewCall
<1>2. ASSUME NEW k \in 1..n, CallAt(answers, limit, c[k - 1], k - 1)
      PROVE  CallAt(answers, limit, c[k], k)
  <2> DEFINE b == c[k - 1]
             d == c[k]
             a == answers[k]
             v == CloudVerdict(a)
             wait == IF a.status = 429 THEN "everyone" ELSE "alone"
  <2>1. b \in Calls /\ d = Receive(b, a, limit)
    <3>1. k - 1 \in 0..n
      OBVIOUS
    <3> QED
      BY <3>1 DEF CallGoes
  <2> HIDE DEF b, d
  <2>2. Receives(b, a, limit, d)
    <3> HIDE DEF a
    <3> QED
      BY <2>1, ReceiveIs
  <2>3. CallAt(answers, limit, b, k - 1)
    BY <1>2 DEF b
  <2>4. CASE b.result # "open"
    <3>1. d = b
      BY <2>2, <2>4 DEF Receives
    <3>2. CallAt(answers, limit, b, k)
      BY <2>3, <2>4 DEF CallAt
    <3> QED
      BY <3>1, <3>2 DEF d
  <2>5. CASE b.result = "open" /\ v = "retry" /\ b.retries < limit
    <3>1. d.result = "open" /\ d.retries = b.retries + 1 /\ d.waits = Append(b.waits, wait)
      BY <2>2, <2>5 DEF Receives
    <3>2. b.retries = k - 1 /\ Len(b.waits) = k - 1 /\ b.waits \in Seq({"everyone", "alone"})
      BY <2>1, <2>3, <2>5 DEF CallAt, Calls
    <3>3. Len(d.waits) = k /\ d.waits[k] = wait /\ \A i \in 1..k - 1 : d.waits[i] = b.waits[i]
      <4> HIDE DEF wait
      <4> QED
        BY <3>1, <3>2
    <3>4. d.retries = k /\ k \in 0..limit
      BY <2>5, <3>1, <3>2
    <3>5. \A i \in 1..k : /\ CloudVerdict(answers[i]) = "retry"
                          /\ d.waits[i] = "everyone" <=> answers[i].status = 429
      <4>1. \A i \in 1..k - 1 : /\ CloudVerdict(answers[i]) = "retry"
                                /\ b.waits[i] = "everyone" <=> answers[i].status = 429
        BY <2>3, <3>2 DEF CallAt
      <4>2. \A i \in 1..k : i \in 1..k - 1 \/ i = k
        OBVIOUS
      <4>3. wait = "everyone" <=> answers[k].status = 429
        OBVIOUS
      <4> QED
        BY <2>5, <3>3, <4>1, <4>2, <4>3
    <3>6. CallAt(answers, limit, d, k)
      BY <3>1, <3>3, <3>4, <3>5 DEF CallAt
    <3> QED
      BY <3>6 DEF d
  <2>6. CASE b.result = "open" /\ ~(v = "retry" /\ b.retries < limit)
    <3>1. d.result = (IF v = "retry" THEN "fail" ELSE v) /\ d.retries = b.retries /\ d.waits = b.waits
      BY <2>2, <2>6 DEF Receives
    <3>2. b.retries = k - 1 /\ k - 1 + 1 = k
      BY <2>3, <2>6 DEF CallAt
    <3>3. d.result # "open"
      BY <3>1, VerdictIs DEF Verdicts
    <3>4. v = "retry" => b.retries = limit
      BY <2>3, <2>6 DEF CallAt
    <3>5. CallAt(answers, limit, d, k)
      BY <2>3, <3>1, <3>2, <3>3, <3>4 DEF CallAt
    <3> QED
      BY <3>5 DEF d
  <2> QED
    BY <2>4, <2>5, <2>6
<1>3. ASSUME Bad # {}
      PROVE  FALSE
  <2>1. Bad \subseteq Nat
    OBVIOUS
  <2>2. least \in Bad /\ \A m \in Bad : least <= m
    <3> HIDE DEF Bad
    <3> QED
      BY <2>1, <1>3, LeastOf
  <2> HIDE DEF least
  <2>3. least \in 1..n /\ least - 1 \in 0..n
    BY <1>1, <2>2
  <2>4. least - 1 \notin Bad
    BY <2>2, <2>3
  <2> QED
    BY <1>2, <2>2, <2>3, <2>4
<1> QED
  BY <1>3

\* A call that has an answer for each of its tries has ended.
CallEnds(answers, limit, c) ==
  /\ c \in Calls /\ c.result # "open"
  /\ c.retries \in 0..limit /\ Len(c.waits) = c.retries
  /\ \A i \in 1..c.retries : /\ CloudVerdict(answers[i]) = "retry"
                             /\ c.waits[i] = "everyone" <=> answers[i].status = 429
  /\ IF CloudVerdict(answers[c.retries + 1]) = "retry"
     THEN c.result = "fail" /\ c.retries = limit
     ELSE c.result = CloudVerdict(answers[c.retries + 1])

LEMMA CallHasEnded ==
  ASSUME NEW answers, NEW limit \in Nat, Len(answers) \in Nat, limit < Len(answers)
  PROVE  CallEnds(answers, limit, CloudCall(answers, limit))
<1> DEFINE n == Len(answers)
<1>1. PICK c : CallGoes(answers, limit, c)
  BY CallUnfolds
<1> DEFINE d == c[n]
<1>2. d \in Calls /\ CloudCall(answers, limit) = d
  BY <1>1 DEF CallGoes
<1>3. CallAt(answers, limit, d, n)
  BY <1>1, CallSoFar
<1> HIDE DEF d
<1>4. d.result # "open"
  BY <1>3 DEF CallAt
<1>5. CallEnds(answers, limit, d)
  BY <1>2, <1>3, <1>4 DEF CallAt, CallEnds
<1> QED
  BY <1>2, <1>5

LEMMA CallIs ==
  ASSUME NEW answers, NEW limit \in Nat, Len(answers) = limit + 1
  PROVE  LET ended == CloudCall(answers, limit).result
         IN  /\ ended \in {"done", "fail", "auth", "config"}
             /\ (\A i \in 1..limit + 1 : CloudVerdict(answers[i]) = "retry") => ended = "fail"
             /\ ended # "fail" => \E i \in 1..limit + 1 : CloudVerdict(answers[i]) = ended
<1> DEFINE d == CloudCall(answers, limit)
<1>1. CallEnds(answers, limit, d)
  BY CallHasEnded
<1> HIDE DEF d
<1>2. d.result \in {"done", "fail", "auth", "config"}
  BY <1>1 DEF CallEnds, Calls, Verdicts
<1>3. d.retries + 1 \in 1..limit + 1
  BY <1>1 DEF CallEnds
<1>4. d.result # "fail" => \E i \in 1..limit + 1 : CloudVerdict(answers[i]) = d.result
  BY <1>1, <1>3 DEF CallEnds
<1>5. (\A i \in 1..limit + 1 : CloudVerdict(answers[i]) = "retry") => d.result = "fail"
  BY <1>1, <1>3 DEF CallEnds
<1> QED
  BY <1>2, <1>4, <1>5 DEF d

LEMMA VerdictsAre ==
  ASSUME NEW m, OneEndpoint(m), NEW a \in 1..m.agents
  PROVE  /\ VerdictOf(m, a) \in {"done", "fail", "auth", "config"}
         /\ (\A i \in 1..m.retries + 1 : CloudVerdict(m.answers[a][i]) = "retry") => VerdictOf(m, a) = "fail"
         /\ VerdictOf(m, a) # "fail" => \E i \in 1..m.retries + 1 : CloudVerdict(m.answers[a][i]) = VerdictOf(m, a)
<1> DEFINE answers == m.answers[a]
           limit == m.retries
<1>1. limit \in Nat /\ answers \in [1..limit + 1 -> [status : Nat, about : STRING]]
  BY DEF OneEndpoint
<1> HIDE DEF answers, limit
<1>2. Len(answers) = limit + 1
  BY <1>1
<1>3. LET ended == CloudCall(answers, limit).result
      IN  /\ ended \in {"done", "fail", "auth", "config"}
          /\ (\A i \in 1..limit + 1 : CloudVerdict(answers[i]) = "retry") => ended = "fail"
          /\ ended # "fail" => \E i \in 1..limit + 1 : CloudVerdict(answers[i]) = ended
  BY <1>1, <1>2, CallIs
<1> QED
  BY <1>3 DEF VerdictOf, answers, limit

\* The wave on an endpoint is a wave whose calls end in the agents' order.
EndpointWave(m) ==
  [roster |-> 1..m.agents, outcome |-> [a \in 1..m.agents |-> ClassOf(VerdictOf(m, a))],
   order |-> [a \in 1..m.agents |-> a], cut |-> 0]

LEMMA EndpointIsAWave ==
  ASSUME NEW m, OneEndpoint(m)
  PROVE  /\ OneWave(EndpointWave(m))
         /\ Finished(EndpointWave(m)) = [a \in 1..m.agents |-> [agent |-> a, outcome |-> ClassOf(VerdictOf(m, a))]]
         /\ Cardinality(1..m.agents) = m.agents
<1> DEFINE w == EndpointWave(m)
           n == m.agents
           outcome == [a \in 1..n |-> ClassOf(VerdictOf(m, a))]
           order == [a \in 1..n |-> a]
<1>1. n \in Nat /\ IsFiniteSet(1..n) /\ Cardinality(1..n) = n
  <2>1. n \in Nat
    BY DEF OneEndpoint
  <2> HIDE DEF n
  <2> QED
    BY <2>1, FS_Interval
<1>2. w.roster = 1..n /\ w.outcome = outcome /\ w.order = order /\ w.cut = 0
  BY DEF EndpointWave
<1>3. \A r : ClassOf(r) \in {"decided"} \cup Classes
  <2>1. {"AuthError", "ProviderConfigError", "InferenceError"} \subseteq Classes
    BY ClassesNamed DEF Named
  <2> QED
    BY <2>1 DEF ClassOf
<1> HIDE DEF n, w
<1>4. outcome \in [1..n -> {"decided", "unparsed"} \cup Classes]
  BY <1>3
<1>5. /\ order \in [1..n -> 1..n] /\ Range(order) = 1..n
      /\ \A i, j \in DOMAIN order : order[i] = order[j] => i = j
  BY DEF Range
<1>6. OneWave(w)
  <2> HIDE DEF outcome, order
  <2> QED
    BY <1>1, <1>2, <1>4, <1>5 DEF OneWave
<1>7. PICK k \in Int : EndedAre(w, k)
  BY <1>6, FirstCalls
<1>8. Finished(w) = [i \in 1..n |-> CallOf(w, i)]
  <2>1. k = n
    BY <1>1, <1>2, <1>7 DEF EndedAre
  <2> QED
    BY <1>7, <2>1 DEF EndedAre
<1>9. \A a \in 1..n : CallOf(w, a) = [agent |-> a, outcome |-> ClassOf(VerdictOf(m, a))]
  BY <1>2 DEF CallOf
<1> QED
  BY <1>1, <1>6, <1>8, <1>9 DEF w, n

LEMMA RefusalsStop ==
  ASSUME NEW m, OneEndpoint(m)
  PROVE  RefusalStopsTheRun(m)
<1> DEFINE Crew == 1..m.agents
           w == EndpointWave(m)
           finished == [a \in Crew |-> [agent |-> a, outcome |-> ClassOf(VerdictOf(m, a))]]
           e == RoundEnds(Crew, finished, 50)
           r == WaveEnds(Crew, finished)
           Meets(S) == \E a \in Crew : \E i \in 1..m.retries + 1 : m.answers[a][i].status \in S
           refused == \E a \in Crew : VerdictOf(m, a) \in {"auth", "config"}
           failing == {a \in Crew : VerdictOf(m, a) = "fail"}
           failed == {a \in DOMAIN r.results : r.results[a].signal = "PARSE_ERROR"}
<1>1. OneWave(w) /\ Finished(w) = finished /\ Cardinality(Crew) = m.agents /\ m.agents \in Nat
  BY EndpointIsAWave DEF OneEndpoint
<1>2. w.roster = Crew /\ \A a \in Crew : w.outcome[a] = ClassOf(VerdictOf(m, a))
  BY DEF EndpointWave
<1>3. \A a \in Crew : VerdictOf(m, a) \in {"done", "fail", "auth", "config"}
  BY VerdictsAre
<1>4. \A a \in Crew : /\ VerdictOf(m, a) = "auth" => Meets({401, 403})
                      /\ VerdictOf(m, a) = "config" => Meets({400, 404, 422})
  <2> SUFFICES ASSUME NEW a \in Crew, VerdictOf(m, a) # "fail"
               PROVE  /\ VerdictOf(m, a) = "auth" => Meets({401, 403})
                      /\ VerdictOf(m, a) = "config" => Meets({400, 404, 422})
    OBVIOUS
  <2>1. PICK i \in 1..m.retries + 1 : CloudVerdict(m.answers[a][i]) = VerdictOf(m, a)
    BY VerdictsAre
  <2> QED
    BY <2>1, VerdictIs
<1>5. \A a \in Crew : /\ w.outcome[a] \in HardStops <=> VerdictOf(m, a) \in {"auth", "config"}
                      /\ w.outcome[a] = "AuthError" => VerdictOf(m, a) = "auth"
                      /\ w.outcome[a] = "ProviderConfigError" => VerdictOf(m, a) = "config"
                      /\ w.outcome[a] \in {"decided", "InferenceError", "AuthError", "ProviderConfigError"}
                      /\ w.outcome[a] = "decided" <=> VerdictOf(m, a) = "done"
  BY <1>2, <1>3 DEF ClassOf, HardStops
<1>6. StopsOf(w) # {} <=> refused
  BY <1>1, <1>2, <1>5, StopsFound DEF EndedIn
<1>7. e = IF r.raised # Nothing THEN r.raised
          ELSE IF Cardinality(failed) * 100 > 50 * Cardinality(Crew) THEN "RoundFailedError" ELSE Nothing
  BY DEF RoundEnds
<1>8. Nothing \notin HardStops
  BY HardStopsAreLeaves, NothingIsNoFailure
<1>9. ASSUME refused
      PROVE  /\ CodeOf(e) \in {"auth_failed", "provider_config"} /\ e # Nothing
             /\ CodeOf(e) = "auth_failed" => Meets({401, 403})
             /\ CodeOf(e) = "provider_config" => Meets({400, 404, 422})
  <2> HIDE DEF refused, finished, w, Crew, Meets, failed
  <2>1. r.raised \in HardStops /\ \E a \in Crew : r.raised = w.outcome[a]
    BY <1>1, <1>2, <1>6, <1>9, StoppedWave
  <2> HIDE DEF r
  <2>2. e = r.raised /\ e \in {"AuthError", "ProviderConfigError"} /\ e # Nothing
    BY <1>5, <1>7, <1>8, <2>1 DEF HardStops
  <2>3. CodeOf(e) = IF e = "AuthError" THEN "auth_failed" ELSE "provider_config"
    <3> HIDE DEF e
    <3> QED
      BY <2>2, HardStopCodes DEF CodeOf
  <2>4. e = "AuthError" => Meets({401, 403})
    BY <1>4, <1>5, <2>1, <2>2
  <2>5. e = "ProviderConfigError" => Meets({400, 404, 422})
    BY <1>4, <1>5, <2>1, <2>2
  <2> HIDE DEF e
  <2> QED
    BY <2>2, <2>3, <2>4, <2>5
<1>10. ASSUME ~refused
       PROVE  e = IF 2 * Cardinality(failing) > m.agents THEN "RoundFailedError" ELSE Nothing
  <2>1. r.raised = Nothing /\ r.results = [a \in Crew |-> Decision(w.outcome[a])]
    <3> HIDE DEF refused, finished, w, Crew
    <3> QED
      BY <1>1, <1>2, <1>6, <1>10, WholeWave
  <2>2. \A o \in {"decided", "InferenceError", "AuthError", "ProviderConfigError"} :
          Decision(o).signal = "PARSE_ERROR" <=> o # "decided"
    BY DEF Decision
  <2>3. failed = failing
    <3> HIDE DEF w, r
    <3>1. \A a \in Crew : r.results[a].signal = "PARSE_ERROR" <=> VerdictOf(m, a) # "done"
      BY <1>5, <2>1, <2>2
    <3>2. DOMAIN r.results = Crew
      BY <2>1
    <3>3. \A a \in Crew : VerdictOf(m, a) # "done" <=> VerdictOf(m, a) = "fail"
      BY <1>3, <1>10
    <3> QED
      BY <3>1, <3>2, <3>3
  <2>4. Cardinality(failing) \in Nat
    <3>1. IsFiniteSet(Crew)
      BY <1>1, <1>2 DEF OneWave
    <3> HIDE DEF Crew
    <3> QED
      BY <3>1, FS_Subset, FS_CardinalityType
  <2> HIDE DEF failed, failing, r, e, Crew
  <2> QED
    BY <1>1, <1>7, <2>1, <2>3, <2>4
<1>11. Cardinality(failing) \in Nat
  <2>1. IsFiniteSet(Crew)
    BY <1>1, <1>2 DEF OneWave
  <2> HIDE DEF Crew
  <2> QED
    BY <2>1, FS_Subset, FS_CardinalityType
<1>12. ASSUME ~refused
       PROVE  /\ CodeOf(e) = "round_failed" <=> 2 * Cardinality(failing) > m.agents
              /\ e = Nothing <=> 2 * Cardinality(failing) <= m.agents
              /\ CodeOf(e) \in {"none", "round_failed"}
  <2>1. "RoundFailedError" # Nothing
    BY ClassesNamed, NothingIsNoFailure DEF Named
  <2>2. CodeOf("RoundFailedError") = "round_failed" /\ CodeOf(Nothing) = "none"
    BY <2>1, RoundFailedCode DEF CodeOf
  <2> HIDE DEF e, failing, refused
  <2> QED
    BY <1>1, <1>10, <1>11, <1>12, <2>1, <2>2
<1>13. \A a \in Crew : (\A i \in 1..m.retries + 1 : CloudVerdict(m.answers[a][i]) = "retry") => VerdictOf(m, a) = "fail"
  BY VerdictsAre
<1> HIDE DEF Meets, refused, failing, e
<1>14. /\ refused <=> CodeOf(e) \in {"auth_failed", "provider_config"}
       /\ CodeOf(e) = "auth_failed" => Meets({401, 403})
       /\ CodeOf(e) = "provider_config" => Meets({400, 404, 422})
       /\ CodeOf(e) = "round_failed" <=> ~refused /\ 2 * Cardinality(failing) > m.agents
       /\ e = Nothing <=> ~refused /\ 2 * Cardinality(failing) <= m.agents
  BY <1>9, <1>12
<1> QED
  BY <1>13, <1>14 DEF RefusalStopsTheRun, Crew, finished, e, Meets, refused, failing

-----------------------------------------------------------------------------
(* A call, however it is answered, and a decision, whatever is replied.    *)

\* What the last answer of a call says, of the cloud and of a local model.
LEMMA AnswerIs ==
  ASSUME NEW a, a.status \in Answerable
  PROVE  /\ LocalVerdict(a) = "retry" <=> CloudVerdict(a) = "retry" /\ a.status # 2
         /\ LocalVerdict(a) = "raw" <=> a.status = 2
         /\ a.status = 2 => CloudVerdict(a) = "retry"
         /\ LocalVerdict(a) \in {"done", "fail", "retry", "raw"}
         /\ a.about # "unusable" /\ a.status # 2 => (CloudVerdict(a) = "done" <=> LocalVerdict(a) = "done")
<1>1. a.status \in Nat /\ (a.status \in {0, 1, 2, 200} \/ a.status >= 400)
  BY DEF Answerable
<1> DEFINE v == Classify(a.status, a.about)
<1>2. CASE a.status \in {0, 1, 2, 200}
  BY <1>2 DEF CloudVerdict, LocalVerdict
<1>3. CASE a.status >= 400
  <2>1. a.status \notin {0, 1, 2, 200}
    BY <1>1, <1>3
  <2>2. CloudVerdict(a) = IF v = "rate_limited" THEN "retry" ELSE v
    BY <2>1 DEF CloudVerdict
  <2>3. LocalVerdict(a) = IF Permanent(a.status) THEN "fail" ELSE "retry"
    BY <2>1 DEF LocalVerdict
  <2>4. v \in {"rate_limited", "retry"} <=> ~Permanent(a.status)
    BY <1>1, <1>3 DEF Classify, Permanent, Transient
  <2>5. v \in {"auth", "config", "fail", "rate_limited", "retry"}
    BY DEF Classify
  <2> HIDE DEF v
  <2> QED
    BY <2>1, <2>2, <2>3, <2>4, <2>5
<1> QED
  BY <1>1, <1>2, <1>3

LEMMA RefusalIs ==
  ASSUME NEW a, CloudVerdict(a) \in {"auth", "config"}
  PROVE  \/ a.status \in {401, 403}
         \/ a.status \in {400, 404, 422} /\ a.about \notin {"context", "filter"}
BY DEF CloudVerdict, Classify, Transient

\* The first answers of a call that are transient are those it is retried after.
LEMMA TransientsAre ==
  ASSUME NEW answers, NEW limit \in Nat, NEW c, CallEnds(answers, limit, c)
  PROVE  Transients(answers, limit) =
           1..(IF CloudVerdict(answers[c.retries + 1]) = "retry" THEN limit + 1 ELSE c.retries)
<1> DEFINE r == c.retries
           Retried(i) == CloudVerdict(answers[i]) = "retry"
<1>1. r \in 0..limit /\ \A i \in 1..r : Retried(i)
  BY DEF CallEnds
<1>2. Retried(r + 1) => r = limit
  BY DEF CallEnds
<1>3. Transients(answers, limit) = {i \in 1..limit + 1 : \A j \in 1..i : Retried(j)}
  BY DEF Transients
<1> HIDE DEF r, Retried
<1>4. CASE Retried(r + 1)
  <2>1. \A i \in 1..limit + 1 : Retried(i)
    <3>1. \A i \in 1..limit + 1 : i \in 1..r \/ i = r + 1
      BY <1>1, <1>2, <1>4
    <3> QED
      BY <1>1, <1>4, <3>1
  <2>2. {i \in 1..limit + 1 : \A j \in 1..i : Retried(j)} = 1..limit + 1
    BY <2>1
  <2> QED
    BY <1>3, <1>4, <2>2 DEF r, Retried
<1>5. CASE ~Retried(r + 1)
  <2>1. {i \in 1..limit + 1 : \A j \in 1..i : Retried(j)} = 1..r
    <3>1. ASSUME NEW i \in 1..limit + 1, i \notin 1..r
          PROVE  r + 1 \in 1..i
      BY <1>1, <3>1
    <3>2. ASSUME NEW i \in 1..r
          PROVE  i \in 1..limit + 1 /\ \A j \in 1..i : j \in 1..r
      BY <1>1, <3>2
    <3> QED
      BY <1>1, <1>5, <3>1, <3>2
  <2> QED
    BY <1>3, <1>5, <2>1 DEF r, Retried
<1> QED
  BY <1>4, <1>5

\* What the cloud adapter makes of a call.
CloudCallEnds(answers, limit) ==
  LET c == CloudCall(answers, limit)
      first == Cardinality(Transients(answers, limit)) + 1
  IN  /\ c.result = IF first > limit + 1 THEN "fail" ELSE CloudVerdict(answers[first])
      /\ c.retries = Min({first - 1, limit}) /\ Len(c.waits) = c.retries
      /\ \A i \in DOMAIN c.waits : c.waits[i] = "everyone" <=> answers[i].status = 429
      /\ c.result \in {"auth", "config"} =>
           \/ answers[first].status \in {401, 403}
           \/ answers[first].status \in {400, 404, 422} /\ answers[first].about \notin {"context", "filter"}

LEMMA CloudCallsEnd ==
  ASSUME NEW answers, Len(answers) \in Nat, NEW limit \in Nat, limit < Len(answers)
  PROVE  CloudCallEnds(answers, limit)
<1> DEFINE c == CloudCall(answers, limit)
           r == c.retries
           T == Transients(answers, limit)
           first == Cardinality(T) + 1
           v == CloudVerdict(answers[r + 1])
<1>1. CallEnds(answers, limit, c)
  BY CallHasEnded
<1> HIDE DEF c
<1>2. r \in 0..limit /\ Len(c.waits) = r /\ DOMAIN c.waits = 1..r
  BY <1>1 DEF CallEnds, Calls
<1>3. \A i \in 1..r : c.waits[i] = "everyone" <=> answers[i].status = 429
  BY <1>1 DEF CallEnds
<1>4. IF v = "retry" THEN c.result = "fail" /\ r = limit ELSE c.result = v
  BY <1>1 DEF CallEnds
<1>5. T = 1..(IF v = "retry" THEN limit + 1 ELSE r)
  BY <1>1, TransientsAre
<1> HIDE DEF r, T, v
<1>6. first = IF v = "retry" THEN limit + 2 ELSE r + 1
  <2>1. limit + 1 \in Nat /\ r \in Nat
    BY <1>2
  <2>2. Cardinality(1..limit + 1) = limit + 1 /\ Cardinality(1..r) = r
    BY <2>1, FS_Interval
  <2> QED
    BY <1>5, <2>1, <2>2
<1> HIDE DEF first
<1>7. r = Min({first - 1, limit})
  <2>1. {first - 1, limit} \in SUBSET Int /\ r \in {first - 1, limit} /\ \A m \in {first - 1, limit} : r <= m
    BY <1>2, <1>4, <1>6
  <2> QED
    BY <2>1, LeastIs
<1>8. c.result = IF first > limit + 1 THEN "fail" ELSE CloudVerdict(answers[first])
  BY <1>2, <1>4, <1>6 DEF v
<1>9. c.result \in {"auth", "config"} =>
        \/ answers[first].status \in {401, 403}
        \/ answers[first].status \in {400, 404, 422} /\ answers[first].about \notin {"context", "filter"}
  BY <1>8, RefusalIs
<1>10. \A i \in DOMAIN c.waits : c.waits[i] = "everyone" <=> answers[i].status = 429
  BY <1>2, <1>3
<1> QED
  BY <1>2, <1>7, <1>8, <1>9, <1>10 DEF CloudCallEnds, c, r, first, T

\* What the Ollama client makes of it.
LocalCallEnds(answers, tries, l, c) ==
  LET broken == answers[l.retries + 1].status = 2
  IN  /\ l.result \in {"done", "fail", "raw"} /\ l.retries < tries /\ l.retries <= c.retries
      /\ l.result = "raw" <=> broken
      /\ ~broken =>
           /\ l.retries = c.retries
           /\ (\A i \in 1..tries : answers[i].about # "unusable") => (l.result = "done" <=> c.result = "done")

LEMMA LocalCallsEnd ==
  ASSUME NEW answers, OneCall(answers)
  PROVE  LET tries == Len(answers) - 1
         IN  LocalCallEnds(answers, tries, LocalCall(answers, tries), CloudCall(answers, tries - 1))
<1> DEFINE tries == Len(answers) - 1
           l == LocalCall(answers, tries)
           c == CloudCall(answers, tries - 1)
           r == c.retries
           final == {i \in 1..tries : LocalVerdict(answers[i]) # "retry"}
<1>1. tries \in Nat \ {0} /\ tries - 1 \in Nat /\ tries - 1 < Len(answers) /\ Len(answers) \in Nat
  <2> DEFINE n == Len(answers)
  <2>1. n \in Nat \ {0, 1}
    BY DEF OneCall
  <2> HIDE DEF n
  <2>2. n - 1 \in Nat \ {0} /\ n - 1 - 1 \in Nat /\ n - 1 - 1 < n /\ n \in Nat
    BY <2>1
  <2> QED
    BY <2>2 DEF n
<1>2. \A i \in 1..tries : answers[i].status \in Answerable
  <2>1. \A i \in 1..tries : i \in 1..Len(answers)
    BY <1>1
  <2> DEFINE Answers == [status : Answerable, about : STRING]
  <2>2. answers \in Seq(Answers)
    BY DEF OneCall
  <2>3. \A a \in Answers : a.status \in Answerable
    OBVIOUS
  <2> HIDE DEF Answers
  <2>4. \A i \in 1..Len(answers) : answers[i] \in Answers
    BY <2>2, ElementOfSeq
  <2> QED
    BY <2>1, <2>3, <2>4
<1>3. \A i \in 1..tries :
        /\ LocalVerdict(answers[i]) = "retry" <=> CloudVerdict(answers[i]) = "retry" /\ answers[i].status # 2
        /\ LocalVerdict(answers[i]) = "raw" <=> answers[i].status = 2
        /\ answers[i].status = 2 => CloudVerdict(answers[i]) = "retry"
        /\ LocalVerdict(answers[i]) \in {"done", "fail", "retry", "raw"}
        /\ answers[i].about # "unusable" /\ answers[i].status # 2 =>
             (CloudVerdict(answers[i]) = "done" <=> LocalVerdict(answers[i]) = "done")
  BY <1>2, AnswerIs
<1>4. CallEnds(answers, tries - 1, c)
  <2> HIDE DEF tries
  <2> QED
    BY <1>1, CallHasEnded
<1>5. l = IF final = {} THEN [result |-> "fail", retries |-> tries - 1]
          ELSE [result |-> LocalVerdict(answers[Min(final)]), retries |-> Min(final) - 1]
  BY DEF LocalCall
<1> HIDE DEF c, l, tries
<1>6. /\ r \in 0..tries - 1 /\ \A i \in 1..r : CloudVerdict(answers[i]) = "retry"
      /\ IF CloudVerdict(answers[r + 1]) = "retry" THEN c.result = "fail" /\ r = tries - 1
         ELSE c.result = CloudVerdict(answers[r + 1])
  BY <1>4 DEF CallEnds
<1> HIDE DEF r
<1>7. r + 1 \in 1..tries /\ r \in Nat
  BY <1>1, <1>6
<1>8. ASSUME final = {}
      PROVE  LocalCallEnds(answers, tries, l, c)
  <2>1. l.result = "fail" /\ l.retries = tries - 1
    BY <1>5, <1>8
  <2>2. \A i \in 1..tries : LocalVerdict(answers[i]) = "retry"
    BY <1>8
  <2>3. c.result = "fail" /\ r = tries - 1
    BY <1>3, <1>6, <1>7, <2>2
  <2>4. l.retries + 1 = r + 1 /\ l.retries < tries /\ l.retries <= r
    BY <1>1, <2>1, <2>3
  <2>5. answers[l.retries + 1].status # 2
    BY <1>3, <1>7, <2>2, <2>4
  <2> QED
    BY <2>1, <2>3, <2>4, <2>5 DEF LocalCallEnds, r
<1>9. ASSUME final # {}
      PROVE  LocalCallEnds(answers, tries, l, c)
  <2> DEFINE k == Min(final)
  <2>1. k \in final /\ \A i \in final : k <= i
    <3>1. final \subseteq Nat
      OBVIOUS
    <3> HIDE DEF final
    <3> QED
      BY <1>9, <3>1, LeastOf
  <2>2. l = [result |-> LocalVerdict(answers[k]), retries |-> k - 1]
    BY <1>5, <1>9
  <2> HIDE DEF k
  <2>3. k \in 1..tries /\ LocalVerdict(answers[k]) # "retry"
    BY <2>1
  <2>4. \A i \in 1..tries : i < k => LocalVerdict(answers[i]) = "retry"
    <3>1. ASSUME NEW i \in 1..tries, i < k
          PROVE  i \notin final
      BY <2>1, <2>3, <3>1
    <3> QED
      BY <3>1
  <2>5. l.result = LocalVerdict(answers[k]) /\ l.retries = k - 1 /\ l.retries + 1 = k
    BY <2>2, <2>3
  <2>6. k <= r + 1
    <3>1. SUFFICES ASSUME r + 1 < k
                   PROVE  FALSE
      BY <1>7, <2>3
    <3>2. CloudVerdict(answers[r + 1]) = "retry"
      BY <1>3, <1>7, <2>4, <3>1
    <3>3. r = tries - 1
      BY <1>6, <3>2
    <3> QED
      BY <1>1, <2>3, <3>1, <3>3
  <2>7. l.retries < tries /\ l.retries <= r
    BY <1>1, <1>7, <2>3, <2>5, <2>6
  <2>8. l.result \in {"done", "fail", "raw"} /\ (l.result = "raw" <=> answers[k].status = 2)
    BY <1>3, <2>3, <2>5
  <2>9. answers[k].status # 2 =>
          /\ l.retries = r
          /\ answers[k].about # "unusable" => (l.result = "done" <=> c.result = "done")
    <3>1. SUFFICES ASSUME answers[k].status # 2
                   PROVE  /\ l.retries = r
                          /\ answers[k].about # "unusable" => (l.result = "done" <=> c.result = "done")
      OBVIOUS
    <3>2. CloudVerdict(answers[k]) # "retry"
      BY <1>3, <2>3, <3>1
    <3>3. k \notin 1..r
      BY <1>6, <3>2
    <3>4. k = r + 1
      BY <1>7, <2>3, <2>6, <3>3
    <3>5. c.result = CloudVerdict(answers[k])
      BY <1>6, <3>2, <3>4
    <3>6. answers[k].about # "unusable" => (l.result = "done" <=> c.result = "done")
      BY <1>3, <2>3, <2>5, <3>1, <3>5
    <3>7. l.retries = r
      BY <1>7, <2>5, <3>4
    <3> QED
      BY <3>6, <3>7
  <2>10. (\A i \in 1..tries : answers[i].about # "unusable") => answers[k].about # "unusable"
    BY <2>3
  <2> QED
    BY <2>5, <2>7, <2>8, <2>9, <2>10 DEF LocalCallEnds, r
<1>10. LocalCallEnds(answers, tries, l, c)
  BY <1>8, <1>9
<1> QED
  BY <1>10 DEF l, c, tries

LEMMA CallsEnd ==
  ASSUME NEW answers, OneCall(answers)
  PROVE  CallEndsAsAnswered(answers)
<1>1. Len(answers) \in Nat
  BY DEF OneCall
<1>2. ASSUME NEW limit \in 0..Len(answers) - 1
      PROVE  CloudCallEnds(answers, limit)
  <2>1. limit \in Nat /\ limit < Len(answers)
    BY <1>1
  <2> QED
    BY <1>1, <2>1, CloudCallsEnd
<1>3. \A limit \in 0..Len(answers) - 1 :
        LET c == CloudCall(answers, limit)
            first == Cardinality(Transients(answers, limit)) + 1
        IN  /\ c.result = IF first > limit + 1 THEN "fail" ELSE CloudVerdict(answers[first])
            /\ c.retries = Min({first - 1, limit}) /\ Len(c.waits) = c.retries
            /\ \A i \in DOMAIN c.waits : c.waits[i] = "everyone" <=> answers[i].status = 429
            /\ c.result \in {"auth", "config"} =>
                 \/ answers[first].status \in {401, 403}
                 \/ answers[first].status \in {400, 404, 422} /\ answers[first].about \notin {"context", "filter"}
  BY <1>2, Zenon DEF CloudCallEnds
<1>4. LET tries == Len(answers) - 1
          l == LocalCall(answers, tries)
          c == CloudCall(answers, tries - 1)
          broken == answers[l.retries + 1].status = 2
      IN  /\ l.result \in {"done", "fail", "raw"} /\ l.retries < tries /\ l.retries <= c.retries
          /\ l.result = "raw" <=> broken
          /\ ~broken =>
               /\ l.retries = c.retries
               /\ (\A i \in 1..tries : answers[i].about # "unusable") => (l.result = "done" <=> c.result = "done")
  BY LocalCallsEnd, Zenon DEF LocalCallEnds
<1> QED
  BY <1>3, <1>4, Zenon DEF CallEndsAsAnswered

LEMMA MarksAgree ==
  ASSUME NEW reply
  PROVE  FailureMarksAgree(reply)
<1>1. ParseDecision(reply) \in {1, 2, 3}
  BY DEF ParseDecision
<1>2. ASSUME NEW signal \in {"buy", "PARSE_ERROR"}, NEW said \in {"none", "timeout"}, NEW finish \in {"stop", "length"}
      PROVE  LET m == Marks(ParseDecision(reply), [signal |-> signal, kind |-> said], finish) IN
             /\ m.kind # "none" <=> m.signal = "PARSE_ERROR"
             /\ m.tier = 3 <=> m.signal = "PARSE_ERROR"
             /\ m.kind = "truncated" => finish = "length"
             /\ m.kind \in {"none", "parse", "truncated"}
  <2> DEFINE tier == ParseDecision(reply)
  <2> HIDE DEF tier
  <2>1. tier \in {1, 2, 3}
    BY <1>1 DEF tier
  <2>2. LET m == Marks(tier, [signal |-> signal, kind |-> said], finish) IN
        /\ m.kind # "none" <=> m.signal = "PARSE_ERROR"
        /\ m.tier = 3 <=> m.signal = "PARSE_ERROR"
        /\ m.kind = "truncated" => finish = "length"
        /\ m.kind \in {"none", "parse", "truncated"}
    BY <2>1 DEF Marks
  <2> QED
    BY <2>2 DEF tier
<1> QED
  BY <1>2 DEF FailureMarksAgree

-----------------------------------------------------------------------------
\* However often an endpoint is asked and whatever it answers each time, a call
\* has the result of its first answer that is not transient, and from a local
\* model that of the first connection to break in mid-call (retry.py:76,
\* ollama_client.py:63, 231); whatever is replied, a failed decision is marked as one
\* and a valid one is not (parsing.py:28); every class of failure has one code,
\* the same from every way it is told (errors.py:383, services/jobs.py:48); and
\* in a wave of any roster, in whatever order its calls end, a hard stop is what
\* the run ends with and no other failure is taken for one
\* (batch_dispatcher.py:117).
THEOREM WhatFailedIsTold ==
  ASSUME Given("call") => OneCall(input),
         Given("class") => input[1] \in Classes,
         Given("wave") => OneWave(input),
         Given("endpoint") => OneEndpoint(input)
  PROVE  FailuresKeepTheirCause
BY CallsEnd, MarksAgree, CausesAreTold, WavesKeepTheirCause, RefusalsStop DEF FailuresKeepTheirCause

-----------------------------------------------------------------------------
(* Replies and interviews. *)

\* The states of a fold over 1..n, one after the other.
Runs(n, V, base, next, c) ==
  /\ c \in [0..n -> V] /\ c[0] = base
  /\ \A k \in 1..n : c[k] = next[k][c[k - 1]]

\* What is folded, and a function of the subsets that does.
FoldParts(n, V, base, next) == n \in Nat /\ base \in V /\ next \in [1..n -> [V -> V]]
Folds(n, V, base, next, g) ==
  \A s \in SUBSET (1..n) :
    IF s = {} THEN g[s] = base
    ELSE g[s \ {Max(s)}] \in V => g[s] = next[Max(s)][g[s \ {Max(s)}]]

FoldOf(n, V, base, next, g) ==
  /\ g \in [SUBSET (1..n) -> V]
  /\ \A s \in SUBSET (1..n) : g[s] = IF s = {} THEN base ELSE next[Max(s)][g[s \ {Max(s)}]]

LEMMA FoldExists ==
  ASSUME NEW n, NEW V, NEW base, NEW next, FoldParts(n, V, base, next)
  PROVE  \E g : FoldOf(n, V, base, next, g)
<1> DEFINE S == 1..n
           pick == [s \in SUBSET S |-> Max(s)]
           step == [s \in SUBSET S |-> IF s = {} THEN [v \in V |-> v] ELSE next[Max(s)]]
<1> USE DEF FoldParts
<1>1. IsFiniteSet(S)
  BY FS_Interval
<1>2. \A s \in SUBSET S : s # {} => Max(s) \in s
  <2> SUFFICES ASSUME NEW s \in SUBSET S, s # {}
               PROVE  Max(s) \in s
    OBVIOUS
  <2>1. s \subseteq 1..n
    OBVIOUS
  <2> HIDE DEF S
  <2> QED
    BY <2>1, GreatestOf
<1>3. \A s \in SUBSET S : s # {} => pick[s] \in s
  BY <1>2
<1>4. step \in [SUBSET S -> [V -> V]]
  <2> SUFFICES ASSUME NEW s \in SUBSET S
               PROVE  (IF s = {} THEN [v \in V |-> v] ELSE next[Max(s)]) \in [V -> V]
    OBVIOUS
  <2> DEFINE m == Max(s)
  <2>1. s # {} => m \in 1..n
    BY <1>2
  <2> HIDE DEF m
  <2>2. s # {} => next[m] \in [V -> V]
    BY <2>1
  <2> QED
    BY <2>2 DEF m
<1>5. Recursive(S, V, pick, base, step)
  <2> HIDE DEF S, pick, step
  <2> QED
    BY <1>1, <1>3, <1>4, SubsetRecursion
<1>6. PICK g \in [SUBSET S -> V] : \A s \in SUBSET S : g[s] = IF s = {} THEN base ELSE step[s][g[s \ {pick[s]}]]
  <2> HIDE DEF S, pick, step
  <2> QED
    BY <1>5 DEF Recursive
<1>7. \A s \in SUBSET S : g[s] = IF s = {} THEN base ELSE next[Max(s)][g[s \ {Max(s)}]]
  <2> HIDE DEF S
  <2> QED
    BY <1>6
<1> QED
  BY <1>6, <1>7 DEF FoldOf

\* The fold itself, taken off one element after the other.
LEMMA FoldRuns ==
  ASSUME NEW n, NEW V, NEW base, NEW next, FoldParts(n, V, base, next), NEW g, Folds(n, V, base, next, g)
  PROVE  \E c : Runs(n, V, base, next, c) /\ c[n] = g[1..n]
<1> DEFINE c == [k \in 0..n |-> g[1..k]]
           Bad == {k \in 0..n : c[k] \notin V}
           least == Min(Bad)
<1> USE DEF FoldParts, Folds
<1>1. c[0] = base
  <2>1. 1..0 = {} /\ 1..0 \in SUBSET (1..n) /\ 0 \in 0..n
    OBVIOUS
  <2> QED
    BY <2>1
<1>2. ASSUME NEW k \in 1..n, c[k - 1] \in V
      PROVE  c[k] = next[k][c[k - 1]]
  <2> DEFINE s == 1..k
             m == Max(s)
  <2>1. s \in SUBSET (1..n) /\ k \in s /\ k \in 0..n /\ k - 1 \in 0..n /\ k \in Nat
    OBVIOUS
  <2>2. s \ {k} = 1..(k - 1)
    OBVIOUS
  <2>3. m = k
    <3>1. m \in s /\ \A x \in s : x <= m
      <4>1. s \subseteq 1..k /\ s # {}
        BY <2>1
      <4> HIDE DEF s
      <4> QED
        BY <2>1, <4>1, GreatestOf
    <3> HIDE DEF m
    <3>2. m \in 1..k /\ k <= m
      BY <3>1
    <3> QED
      BY <3>2
  <2> HIDE DEF s, m
  <2>4. c[k] = g[s] /\ c[k - 1] = g[s \ {k}]
    BY <2>1, <2>2 DEF s
  <2> HIDE DEF c
  <2>5. g[s \ {m}] \in V => g[s] = next[m][g[s \ {m}]]
    <3>1. s # {}
      BY <2>1
    <3> QED
      BY <2>1, <3>1 DEF m
  <2> QED
    BY <1>2, <2>3, <2>4, <2>5
<1>3. ASSUME NEW k \in 1..n, c[k - 1] \in V
      PROVE  c[k] \in V
  <2> HIDE DEF c
  <2> QED
    BY <1>2, <1>3
<1>4. Bad = {}
  <2> SUFFICES ASSUME Bad # {}
               PROVE  FALSE
    OBVIOUS
  <2> HIDE DEF c
  <2>1. Bad \subseteq Nat
    OBVIOUS
  <2>2. least \in Bad /\ \A m \in Bad : least <= m
    <3> HIDE DEF Bad
    <3> QED
      BY <2>1, LeastOf
  <2> HIDE DEF least
  <2>3. least \in 1..n /\ least - 1 \in 0..n
    BY <1>1, <2>2
  <2>4. least - 1 \notin Bad
    BY <2>2, <2>3
  <2> QED
    BY <1>3, <2>2, <2>3, <2>4
<1>5. c \in [0..n -> V]
  BY <1>4
<1>6. c[n] = g[1..n]
  OBVIOUS
<1> HIDE DEF c
<1>7. \A k \in 1..n : c[k] = next[k][c[k - 1]]
  BY <1>2, <1>5
<1> QED
  BY <1>1, <1>5, <1>6, <1>7 DEF Runs

-----------------------------------------------------------------------------
LEMMA OneMore ==
  ASSUME NEW s, IsFiniteSet(s), NEW x, x \notin s
  PROVE  /\ IsFiniteSet(s \cup {x}) /\ Cardinality(s \cup {x}) = Cardinality(s) + 1 /\ Cardinality(s) \in Nat
         /\ Cardinality(s \cup {x}) % 2 = 1 <=> Cardinality(s) % 2 = 0
<1> DEFINE n == Cardinality(s)
<1>1. IsFiniteSet(s \cup {x}) /\ Cardinality(s \cup {x}) = n + 1 /\ n \in Nat
  BY FS_AddElement, FS_CardinalityType
<1> HIDE DEF n
<1>2. (n + 1) % 2 = 1 <=> n % 2 = 0
  BY <1>1
<1> QED
  BY <1>1, <1>2 DEF n

\* Which characters are escaped, which are quoted, and how deep one is in braces.
Escaped(o, i) == Cardinality(EscapesBefore(o, i)) % 2 = 1
Depth(o, i) == Cardinality(Braces(o, "open", i)) - Cardinality(Braces(o, "close", i))

LEMMA BeforeFinite ==
  ASSUME NEW i \in Nat \ {0}, NEW s, s \subseteq 1..i - 1
  PROVE  /\ IsFiniteSet(s) /\ Cardinality(s) \in Nat
         /\ Cardinality(s) % 2 = 0 \/ Cardinality(s) % 2 = 1
<1> DEFINE S == 1..i - 1
           k == Cardinality(s)
<1>1. IsFiniteSet(S)
  <2>1. i - 1 \in Int /\ 1 \in Int
    OBVIOUS
  <2> QED
    BY <2>1, FS_Interval
<1>2. s \in SUBSET S
  OBVIOUS
<1> HIDE DEF S
<1>3. IsFiniteSet(s) /\ k \in Nat
  BY <1>1, <1>2, FS_Subset, FS_CardinalityType
<1> HIDE DEF k
<1>4. k \in Nat => k % 2 = 0 \/ k % 2 = 1
  OBVIOUS
<1> QED
  BY <1>3, <1>4 DEF k

LEMMA EscapedNext ==
  ASSUME NEW o, NEW i \in Nat \ {0}
  PROVE  Escaped(o, i + 1) <=> o[i] = "escape" /\ ~Escaped(o, i)
<1> DEFINE E == EscapesBefore(o, i)
           F == EscapesBefore(o, i + 1)
<1>1. E \subseteq 1..i - 1 /\ i \notin E
  BY DEF EscapesBefore
<1>2. IsFiniteSet(E) /\ (Cardinality(E) % 2 = 0 \/ Cardinality(E) % 2 = 1)
  <2> HIDE DEF E
  <2> QED
    BY <1>1, BeforeFinite
<1>3. CASE o[i] = "escape"
  <2>1. F = E \cup {i}
    <3>1. \A j \in 1..i : (\A m \in j..i : o[m] = "escape") <=> (j = i \/ (j \in 1..i - 1 /\ \A m \in j..i - 1 : o[m] = "escape"))
      BY <1>3
    <3>2. F = {j \in 1..i : \A m \in j..i : o[m] = "escape"}
      BY DEF EscapesBefore
    <3> QED
      BY <3>1, <3>2 DEF EscapesBefore
  <2> HIDE DEF E, F
  <2>2. Cardinality(F) % 2 = 1 <=> Cardinality(E) % 2 = 0
    BY <1>1, <1>2, <2>1, OneMore
  <2> QED
    BY <1>2, <1>3, <2>2 DEF Escaped, E, F
<1>4. CASE o[i] # "escape"
  <2>1. F = {}
    <3> SUFFICES ASSUME NEW j \in F
                 PROVE  FALSE
      OBVIOUS
    <3>1. j \in 1..i /\ i \in j..i + 1 - 1
      BY DEF EscapesBefore
    <3> QED
      BY <1>4, <3>1 DEF EscapesBefore
  <2>2. Cardinality(F) = 0
    BY <2>1, FS_EmptySet
  <2> HIDE DEF F
  <2>3. Cardinality(F) % 2 # 1
    BY <2>2
  <2> QED
    BY <1>4, <2>3 DEF Escaped, F
<1> QED
  BY <1>3, <1>4

LEMMA QuotedNext ==
  ASSUME NEW o, NEW i \in Nat \ {0}
  PROVE  Quoted(o, i + 1) <=> IF o[i] = "quote" /\ ~Escaped(o, i) THEN ~Quoted(o, i) ELSE Quoted(o, i)
<1> DEFINE D == Delimiters(o, i)
           F == Delimiters(o, i + 1)
<1>1. D \subseteq 1..i - 1 /\ i \notin D
  BY DEF Delimiters
<1>2. IsFiniteSet(D) /\ (Cardinality(D) % 2 = 0 \/ Cardinality(D) % 2 = 1)
  <2> HIDE DEF D
  <2> QED
    BY <1>1, BeforeFinite
<1>3. Escaped(o, i) <=> ~(Cardinality(EscapesBefore(o, i)) % 2 = 0)
  <2> DEFINE E == EscapesBefore(o, i)
  <2>1. E \subseteq 1..i - 1
    BY DEF EscapesBefore
  <2>2. Cardinality(E) % 2 = 0 \/ Cardinality(E) % 2 = 1
    <3> HIDE DEF E
    <3> QED
      BY <2>1, BeforeFinite
  <2> HIDE DEF E
  <2>3. Escaped(o, i) <=> Cardinality(E) % 2 = 1
    BY DEF Escaped, E
  <2>4. Escaped(o, i) <=> ~(Cardinality(E) % 2 = 0)
    BY <2>2, <2>3
  <2> QED
    BY <2>4 DEF E
<1>4. F = IF o[i] = "quote" /\ ~Escaped(o, i) THEN D \cup {i} ELSE D
  <2>1. F = {j \in 1..i : o[j] = "quote" /\ Cardinality(EscapesBefore(o, j)) % 2 = 0}
    BY DEF Delimiters
  <2>2. 1..i = (1..i - 1) \cup {i}
    OBVIOUS
  <2> QED
    BY <1>3, <2>1, <2>2 DEF Delimiters
<1> HIDE DEF D, F
<1>5. Cardinality(D \cup {i}) % 2 = 1 <=> Cardinality(D) % 2 = 0
  BY <1>1, <1>2, OneMore
<1>6. Quoted(o, i) <=> Cardinality(D) % 2 = 1
  BY DEF Quoted, D
<1>7. Quoted(o, i + 1) <=> Cardinality(F) % 2 = 1
  BY DEF Quoted, F
<1> QED
  BY <1>2, <1>4, <1>5, <1>6, <1>7

LEMMA BracesNext ==
  ASSUME NEW o, NEW brace, NEW i \in Nat \ {0}
  PROVE  /\ Cardinality(Braces(o, brace, i - 1)) \in Nat /\ Cardinality(Braces(o, brace, i)) \in Nat
         /\ Cardinality(Braces(o, brace, i)) = Cardinality(Braces(o, brace, i - 1))
                                               + IF o[i] = brace /\ ~Quoted(o, i) THEN 1 ELSE 0
<1> DEFINE B == Braces(o, brace, i - 1)
           C == Braces(o, brace, i)
<1>1. B \subseteq 1..i - 1 /\ i \notin B
  BY DEF Braces
<1>2. IsFiniteSet(B) /\ Cardinality(B) \in Nat
  <2> HIDE DEF B
  <2> QED
    BY <1>1, BeforeFinite
<1>3. C = IF o[i] = brace /\ ~Quoted(o, i) THEN B \cup {i} ELSE B
  <2>1. 1..i = (1..i - 1) \cup {i}
    OBVIOUS
  <2> QED
    BY <2>1 DEF Braces
<1> HIDE DEF B, C
<1>4. Cardinality(B \cup {i}) = Cardinality(B) + 1
  BY <1>1, <1>2, OneMore
<1>5. Cardinality(C) = Cardinality(B) + IF o[i] = brace /\ ~Quoted(o, i) THEN 1 ELSE 0
  BY <1>2, <1>3, <1>4
<1>6. Cardinality(C) \in Nat
  BY <1>2, <1>5
<1> QED
  BY <1>2, <1>5, <1>6 DEF B, C

-----------------------------------------------------------------------------
\* The scan of an object, after its first k characters.
ScanStates == [depth : Int, quoted : BOOLEAN, escaped : BOOLEAN, end : Nat]
ScanAt(o, k) == [depth |-> Depth(o, k), quoted |-> Quoted(o, k + 1),
                 escaped |-> Quoted(o, k + 1) /\ Escaped(o, k + 1), end |-> 0]

LEMMA ScanIs ==
  ASSUME NEW text, NEW i \in Nat, NEW s \in ScanStates
  PROVE  Scan(s, text, i) \in ScanStates
<1>1. s.depth \in Int /\ s.depth + 1 \in Int /\ s.depth - 1 \in Int
  BY DEF ScanStates
<1>2. CASE s.end # 0
  BY <1>2 DEF Scan
<1>3. CASE s.end = 0 /\ s.quoted
  BY <1>3 DEF Scan, ScanStates
<1>4. CASE s.end = 0 /\ ~s.quoted
  BY <1>1, <1>4 DEF Scan, ScanStates
<1> QED
  BY <1>2, <1>3, <1>4

\* An escape that is not in a string is none, in an object.
LEMMA EscapesAreQuoted ==
  ASSUME NEW o, Len(o) \in Nat, IsObject(o), NEW k \in 1..Len(o), ~Quoted(o, k)
  PROVE  ~Escaped(o, k)
<1>1. CASE k = 1
  <2>1. EscapesBefore(o, 1) = {}
    BY DEF EscapesBefore
  <2>2. Cardinality(EscapesBefore(o, 1)) = 0
    BY <2>1, FS_EmptySet
  <2> QED
    BY <1>1, <2>2 DEF Escaped
<1>2. CASE k # 1
  <2> DEFINE i == k - 1
  <2>1. i \in Nat \ {0} /\ i \in 1..Len(o) /\ k = i + 1
    BY <1>2
  <2> HIDE DEF i
  <2>2. Escaped(o, k) <=> o[i] = "escape" /\ ~Escaped(o, i)
    BY <2>1, EscapedNext
  <2>3. Quoted(o, k) <=> IF o[i] = "quote" /\ ~Escaped(o, i) THEN ~Quoted(o, i) ELSE Quoted(o, i)
    BY <2>1, QuotedNext
  <2>4. o[i] = "escape" => Quoted(o, i)
    BY <2>1 DEF IsObject
  <2> QED
    BY <2>2, <2>3, <2>4
<1> QED
  BY <1>1, <1>2

LEMMA DepthNext ==
  ASSUME NEW o, NEW k \in Nat \ {0}
  PROVE  /\ Depth(o, k - 1) \in Int
         /\ Depth(o, k) = IF ~Quoted(o, k) /\ o[k] = "open" THEN Depth(o, k - 1) + 1
                          ELSE IF ~Quoted(o, k) /\ o[k] = "close" THEN Depth(o, k - 1) - 1
                          ELSE Depth(o, k - 1)
<1> DEFINE a == Cardinality(Braces(o, "open", k - 1))
           b == Cardinality(Braces(o, "close", k - 1))
           c == Cardinality(Braces(o, "open", k))
           d == Cardinality(Braces(o, "close", k))
<1>1. /\ a \in Nat /\ c \in Nat /\ c = a + IF o[k] = "open" /\ ~Quoted(o, k) THEN 1 ELSE 0
      /\ b \in Nat /\ d \in Nat /\ d = b + IF o[k] = "close" /\ ~Quoted(o, k) THEN 1 ELSE 0
  BY BracesNext
<1>2. Depth(o, k) = c - d /\ Depth(o, k - 1) = a - b
  BY DEF Depth
<1> DEFINE more == o[k] = "open" /\ ~Quoted(o, k)
           less == o[k] = "close" /\ ~Quoted(o, k)
<1>3. ~(more /\ less)
  OBVIOUS
<1>4. /\ a \in Nat /\ c \in Nat /\ (more => c = a + 1) /\ (~more => c = a)
      /\ b \in Nat /\ d \in Nat /\ (less => d = b + 1) /\ (~less => d = b)
  <2> HIDE DEF a, b, c, d
  <2>1. more \/ ~more
    OBVIOUS
  <2>2. CASE more
    BY <1>1, <2>2
  <2>3. CASE less
    BY <1>1, <2>3
  <2>4. CASE ~more /\ ~less
    BY <1>1, <2>4
  <2> QED
    BY <1>3, <2>2, <2>3, <2>4
<1> HIDE DEF a, b, c, d
<1>5. (more => c - d = a - b + 1) /\ (less => c - d = a - b - 1) /\ (~more /\ ~less => c - d = a - b) /\ a - b \in Int
  <2> HIDE DEF more, less
  <2> QED
    BY <1>3, <1>4
<1> QED
  BY <1>2, <1>5

\* One character further in the object: the last one ends it, and no other does.
LEMMA ScanNext ==
  ASSUME NEW o, Len(o) \in Nat, IsObject(o), NEW k \in 1..Len(o), o[k] \in Letters,
         NEW text, NEW i \in Nat \ {0}, text[i] = o[k]
  PROVE  /\ k < Len(o) => Scan(ScanAt(o, k - 1), text, i) = ScanAt(o, k)
         /\ k = Len(o) => Scan(ScanAt(o, k - 1), text, i).end = i /\ o[k] = "close"
<1> DEFINE q == Quoted(o, k)
           e == Escaped(o, k)
           d == Depth(o, k - 1)
           s == [depth |-> d, quoted |-> q, escaped |-> q /\ e, end |-> 0]
<1>1. ScanAt(o, k - 1) = s
  BY DEF ScanAt
<1>2. k \in Nat \ {0} /\ d \in Int
  BY DepthNext
<1>3. q \in BOOLEAN /\ e \in BOOLEAN
  BY DEF Quoted, Escaped
<1>4. ~q => ~e
  BY EscapesAreQuoted
<1>5. o[k] = "escape" => q
  BY DEF IsObject
<1>6. Escaped(o, k + 1) <=> o[k] = "escape" /\ ~e
  BY <1>2, EscapedNext
<1>7. Quoted(o, k + 1) <=> IF o[k] = "quote" /\ ~e THEN ~q ELSE q
  BY <1>2, QuotedNext
<1>8. Depth(o, k) = IF ~q /\ o[k] = "open" THEN d + 1 ELSE IF ~q /\ o[k] = "close" THEN d - 1 ELSE d
  BY <1>2, DepthNext
<1>9. (k < Len(o) => Depth(o, k) > 0) /\ (k = Len(o) => Depth(o, k) = 0)
  <2> DEFINE a(n) == Cardinality(Braces(o, "open", n))
             b(n) == Cardinality(Braces(o, "close", n))
  <2>1. \A n \in Nat \ {0} : a(n) \in Nat /\ b(n) \in Nat
    BY BracesNext
  <2>2. k < Len(o) => a(k) > b(k)
    BY DEF IsObject
  <2>3. k = Len(o) => a(k) = b(k)
    BY DEF IsObject
  <2>4. Depth(o, k) = a(k) - b(k)
    BY DEF Depth
  <2> HIDE DEF a, b
  <2> QED
    BY <1>2, <2>1, <2>2, <2>3, <2>4
<1>10. k = Len(o) => d = 1 /\ ~q /\ o[k] = "close"
  <2>1. k > 1 => d > 0
    <3> SUFFICES ASSUME k > 1
                 PROVE  d > 0
      OBVIOUS
    <3> DEFINE j == k - 1
               a == Cardinality(Braces(o, "open", j))
               b == Cardinality(Braces(o, "close", j))
    <3>1. j \in 1..Len(o) - 1 /\ j \in Nat \ {0}
      OBVIOUS
    <3>2. a > b
      BY <3>1 DEF IsObject
    <3>3. d = a - b
      BY DEF Depth
    <3>4. a \in Nat /\ b \in Nat
      BY <3>1, BracesNext
    <3> HIDE DEF a, b, d
    <3> QED
      BY <3>2, <3>3, <3>4
  <2>2. Len(o) >= 2
    BY DEF IsObject
  <2> HIDE DEF d, q
  <2> QED
    BY <1>2, <1>8, <1>9, <2>1, <2>2
<1> DEFINE p == Quoted(o, k + 1)
           f == Escaped(o, k + 1)
           next == [depth |-> Depth(o, k), quoted |-> p, escaped |-> p /\ f, end |-> 0]
<1>12. p \in BOOLEAN /\ f \in BOOLEAN /\ o[k] \in {"open", "close", "quote", "escape", "other"}
  BY DEF Quoted, Escaped, Letters
<1>13. ASSUME q
       PROVE  /\ k < Len(o) => Scan(s, text, i) = next
              /\ k = Len(o) => Scan(s, text, i).end = i /\ o[k] = "close"
  <2> HIDE DEF q, e, d, p, f
  <2>1. Scan(s, text, i) = [s EXCEPT !.escaped = ~s.escaped /\ o[k] = "escape",
                                     !.quoted = s.escaped \/ o[k] # "quote"]
    BY <1>13 DEF Scan
  <2> DEFINE quoted == e \/ o[k] # "quote"
             escaped == ~e /\ o[k] = "escape"
  <2>2. Scan(s, text, i) = [depth |-> d, quoted |-> quoted, escaped |-> escaped, end |-> 0]
    BY <1>3, <1>13, <2>1
  <2>3. p = quoted /\ (p /\ f) = escaped
    BY <1>3, <1>6, <1>7, <1>12, <1>13 DEF p, f
  <2>4. k < Len(o) /\ Depth(o, k) = d
    BY <1>8, <1>10, <1>13
  <2> HIDE DEF quoted, escaped
  <2> QED
    BY <2>2, <2>3, <2>4
<1>14. ASSUME ~q
       PROVE  /\ k < Len(o) => Scan(s, text, i) = next
              /\ k = Len(o) => Scan(s, text, i).end = i /\ o[k] = "close"
  <2> HIDE DEF q, e, d, p, f
  <2> DEFINE r == [depth |-> d, quoted |-> FALSE, escaped |-> FALSE, end |-> 0]
  <2>1. s = r
    BY <1>3, <1>4, <1>14
  <2> HIDE DEF s
  <2>2. o[k] # "escape"
    BY <1>5, <1>14
  <2>3. (o[k] = "quote" => p = TRUE) /\ (o[k] # "quote" => p = FALSE) /\ (p /\ f) = FALSE
    BY <1>3, <1>4, <1>6, <1>7, <1>12, <1>14 DEF p, f
  <2> DEFINE State(depth, quoted, end) == [depth |-> depth, quoted |-> quoted, escaped |-> FALSE, end |-> end]
  <2>8. /\ o[k] = "quote" => next = State(Depth(o, k), TRUE, 0)
        /\ o[k] # "quote" => next = State(Depth(o, k), FALSE, 0)
    <3>1. ASSUME p = FALSE
          PROVE  next = State(Depth(o, k), FALSE, 0)
      BY <2>3, <3>1, Zenon
    <3>2. ASSUME p = TRUE
          PROVE  next = State(Depth(o, k), TRUE, 0)
      BY <2>3, <3>2, Zenon
    <3> QED
      BY <2>3, <3>1, <3>2
  <2> HIDE DEF next, r, State
  <2>4. CASE o[k] = "quote"
    <3>1. Scan(r, text, i) = State(d, TRUE, 0)
      BY <2>4 DEF Scan, State, r
    <3>2. Depth(o, k) = d /\ k < Len(o)
      BY <1>8, <1>10, <1>14, <2>4
    <3> QED
      BY <2>1, <2>4, <2>8, <3>1, <3>2
  <2>5. CASE o[k] = "open"
    <3>1. Scan(r, text, i) = State(d + 1, FALSE, 0)
      BY <2>5 DEF Scan, State, r
    <3>2. Depth(o, k) = d + 1 /\ k < Len(o)
      BY <1>8, <1>10, <1>14, <2>5
    <3> QED
      BY <2>1, <2>5, <2>8, <3>1, <3>2
  <2>6. CASE o[k] = "close"
    <3>1. Scan(r, text, i) = State(d - 1, FALSE, IF d = 1 THEN i ELSE 0)
      BY <2>6 DEF Scan, State, r
    <3>2. Depth(o, k) = d - 1
      BY <1>8, <1>14, <2>6
    <3>3. (k < Len(o) => d # 1) /\ (k = Len(o) => d = 1)
      BY <1>2, <1>9, <1>10, <2>6, <3>2
    <3> QED
      <4>1. State(d - 1, FALSE, i).end = i
        BY DEF State
      <4> QED
        BY <2>1, <2>6, <2>8, <3>1, <3>2, <3>3, <4>1
  <2>7. CASE o[k] = "other"
    <3>1. Scan(r, text, i) = State(d, FALSE, 0)
      BY <2>7 DEF Scan, State, r
    <3>2. Depth(o, k) = d /\ k < Len(o)
      BY <1>8, <1>10, <1>14, <2>7
    <3> QED
      BY <2>1, <2>7, <2>8, <3>1, <3>2
  <2> QED
    BY <1>12, <2>2, <2>4, <2>5, <2>6, <2>7
<1>15. ScanAt(o, k) = next
  BY DEF ScanAt
<1> HIDE DEF q, e, d, p, f, next, s
<1> QED
  BY <1>1, <1>13, <1>14, <1>15

LEMMA ScanBegins ==
  ASSUME NEW o
  PROVE  ScanAt(o, 0) = ScanStart
<1>1. Cardinality({}) = 0 /\ 0 % 2 = 0
  BY FS_EmptySet
<1>2. /\ Braces(o, "open", 0) = {} /\ Braces(o, "close", 0) = {}
      /\ Delimiters(o, 1) = {}
  BY DEF Braces, Delimiters
<1>3. Depth(o, 0) = 0
  BY <1>1, <1>2 DEF Depth
<1>4. ~Quoted(o, 1)
  BY <1>1, <1>2 DEF Quoted
<1>5. Quoted(o, 1) = FALSE /\ (Quoted(o, 1) /\ Escaped(o, 1)) = FALSE
  BY <1>4
<1>6. 0 + 1 = 1
  OBVIOUS
<1> QED
  BY <1>3, <1>5, <1>6, Zenon DEF ScanAt, ScanStart

\* The scan of a text that goes on with an object ends at the end of that.
LEMMA ObjectEnds ==
  ASSUME NEW o \in Seq(Letters), IsObject(o), NEW text, Len(text) \in Nat, NEW from \in Nat \ {0},
         from + Len(o) - 1 <= Len(text),
         \A k \in 1..Len(o) : text[from + k - 1] = o[k]
  PROVE  ObjectEnd(text, from) = from + Len(o) - 1
<1> DEFINE n == Len(text) - from + 1
           V == ScanStates
           seq == [k \in 1..n |-> from + k - 1]
           next == [k \in 1..n |-> [v \in V |-> Scan(v, text, from + k - 1)]]
           Step(h) == [s \in SUBSET (1..n) |-> IF s = {} THEN ScanStart ELSE Scan(h[s \ {Max(s)}], text, seq[Max(s)])]
           call == CHOOSE h : h = Step(h)
           At(k) == from + k - 1
<1>1. Len(o) \in Nat \ {0} /\ n \in Nat /\ Len(o) <= n
  BY DEF IsObject
<1>2. ScanStart \in V
  BY DEF ScanStart, ScanStates
<1>3. next \in [1..n -> [V -> V]]
  <2> SUFFICES ASSUME NEW k \in 1..n, NEW v \in V
               PROVE  Scan(v, text, from + k - 1) \in V
    OBVIOUS
  <2>1. from + k - 1 \in Nat
    BY <1>1
  <2> QED
    BY <2>1, ScanIs
<1>0. FoldParts(n, V, ScanStart, next)
  BY <1>1, <1>2, <1>3 DEF FoldParts
<1>4. \A s \in SUBSET (1..n) : s # {} => Max(s) \in 1..n
  <2> HIDE DEF n
  <2>1. \A s \in SUBSET (1..n) : s # {} => Max(s) \in s
    BY <1>1, GreatestOf
  <2> QED
    BY <2>1
<1>5. \A s \in SUBSET (1..n), v \in V : s # {} => next[Max(s)][v] = Scan(v, text, seq[Max(s)])
  <2> HIDE DEF n
  <2> QED
    BY <1>4
<1>6. PICK g : FoldOf(n, V, ScanStart, next, g)
  <2> HIDE DEF n, V, next
  <2> QED
    BY ONLY <1>0, FoldExists
<1>7. g = Step(g)
  <2> HIDE DEF n, V, next, seq
  <2>1. ASSUME NEW s \in SUBSET (1..n)
        PROVE  g[s] = IF s = {} THEN ScanStart ELSE Scan(g[s \ {Max(s)}], text, seq[Max(s)])
    <3>1. g[s \ {Max(s)}] \in V
      BY <1>6 DEF FoldOf
    <3> QED
      BY <1>5, <1>6, <3>1 DEF FoldOf
  <2> QED
    BY <1>6, <2>1 DEF FoldOf
<1>8. call = Step(call)
  <2> HIDE DEF Step
  <2> QED
    BY <1>7
<1>9. ObjectEnd(text, from) = call[1..n].end
  <2>1. DOMAIN seq = 1..n
    OBVIOUS
  <2> QED
    BY <2>1 DEF ObjectEnd, FoldLeft, MapThenFoldSet
<1> HIDE DEF call
<1>10. Folds(n, V, ScanStart, next, call)
  <2> HIDE DEF n, V, next, seq
  <2> QED
    BY <1>5, <1>8 DEF Folds
<1>11. PICK c : Runs(n, V, ScanStart, next, c) /\ c[n] = call[1..n]
  <2> HIDE DEF n, V, next, seq, Step
  <2> QED
    BY ONLY <1>0, <1>10, FoldRuns
<1>12. /\ c \in [0..n -> V] /\ c[0] = ScanStart
       /\ \A k \in 1..n : c[k] = Scan(c[k - 1], text, from + k - 1)
  <2>1. /\ c \in [0..n -> V] /\ c[0] = ScanStart
        /\ \A k \in 1..n : c[k] = next[k][c[k - 1]]
    <3> HIDE DEF n, V, next
    <3> QED
      BY <1>11 DEF Runs
  <2>2. \A k \in 1..n : c[k - 1] \in V
    <3> HIDE DEF V, n, next
    <3> QED
      BY <1>1, <2>1
  <2>3. \A k \in 1..n, v \in V : next[k][v] = Scan(v, text, from + k - 1)
    <3> HIDE DEF V, n
    <3> QED
      OBVIOUS
  <2> HIDE DEF next, V, n
  <2> QED
    BY <2>1, <2>2, <2>3
<1> HIDE DEF next, seq, Step, V
<1>13. \A k \in 1..Len(o) : At(k) \in Nat \ {0} /\ text[At(k)] = o[k] /\ o[k] \in Letters
  BY <1>1
<1>14. \A k \in 1..n : c[k] = Scan(c[k - 1], text, At(k))
  BY <1>12
<1>15. At(Len(o)) = from + Len(o) - 1
  OBVIOUS
<1> HIDE DEF At
<1>16. \A k \in 0..Len(o) - 1 : c[k] = ScanAt(o, k)
  <2> DEFINE Bad == {k \in 0..Len(o) - 1 : c[k] # ScanAt(o, k)}
             least == Min(Bad)
  <2> SUFFICES ASSUME Bad # {}
               PROVE  FALSE
    OBVIOUS
  <2>1. Bad \subseteq Nat
    OBVIOUS
  <2>2. least \in Bad /\ \A k \in Bad : least <= k
    <3> HIDE DEF Bad
    <3> QED
      BY <2>1, LeastOf
  <2> HIDE DEF least
  <2>3. c[0] = ScanAt(o, 0)
    BY <1>12, ScanBegins
  <2>4. least \in 1..Len(o) - 1 /\ least - 1 \in 0..Len(o) - 1
    BY <1>1, <2>2, <2>3
  <2>5. c[least - 1] = ScanAt(o, least - 1)
    <3>1. least - 1 \notin Bad
      BY <2>2, <2>4
    <3> QED
      BY <2>4, <3>1
  <2>6. c[least] = Scan(c[least - 1], text, At(least))
    BY <1>1, <1>14, <2>4
  <2>7. Scan(ScanAt(o, least - 1), text, At(least)) = ScanAt(o, least)
    <3>1. At(least) \in Nat \ {0} /\ text[At(least)] = o[least] /\ o[least] \in Letters
      BY <1>13, <2>4
    <3>2. least \in 1..Len(o) /\ least < Len(o)
      BY <2>4
    <3>3. least < Len(o) => Scan(ScanAt(o, least - 1), text, At(least)) = ScanAt(o, least)
      BY <1>1, <3>1, <3>2, ScanNext
    <3> QED
      BY <3>2, <3>3
  <2> QED
    BY <2>2, <2>5, <2>6, <2>7
<1>17. c[Len(o)].end = from + Len(o) - 1
  <2> DEFINE k == Len(o)
  <2>1. At(k) \in Nat \ {0} /\ text[At(k)] = o[k] /\ o[k] \in Letters
    BY <1>1, <1>13
  <2>2. k \in 1..Len(o) /\ k - 1 \in 0..Len(o) - 1 /\ k \in 1..n
    BY <1>1
  <2>3. c[k] = Scan(c[k - 1], text, At(k)) /\ c[k - 1] = ScanAt(o, k - 1)
    BY <1>16, <1>14, <2>2
  <2>4. Scan(ScanAt(o, k - 1), text, At(k)).end = At(k)
    BY <1>1, <2>1, <2>2, ScanNext
  <2> QED
    BY <1>15, <2>3, <2>4
<1>18. \A k \in Len(o)..n : c[k].end = from + Len(o) - 1
  <2> DEFINE Bad == {k \in Len(o)..n : c[k].end # from + Len(o) - 1}
             least == Min(Bad)
  <2> SUFFICES ASSUME Bad # {}
               PROVE  FALSE
    OBVIOUS
  <2>1. Bad \subseteq Nat
    BY <1>1
  <2>2. least \in Bad /\ \A k \in Bad : least <= k
    <3> HIDE DEF Bad
    <3> QED
      BY <2>1, LeastOf
  <2> HIDE DEF least
  <2>3. least \in 1..n /\ least - 1 \in Len(o)..n
    BY <1>1, <1>17, <2>2
  <2>4. c[least - 1].end = from + Len(o) - 1
    <3>1. least - 1 \notin Bad
      BY <1>1, <2>2, <2>3
    <3> QED
      BY <2>3, <3>1
  <2>5. c[least] = Scan(c[least - 1], text, At(least))
    BY <1>14, <2>3
  <2>6. c[least] = c[least - 1]
    <3>1. c[least - 1].end # 0
      BY <1>1, <2>4
    <3> QED
      BY <2>5, <3>1 DEF Scan
  <2> QED
    BY <2>2, <2>4, <2>6
<1>19. n \in Len(o)..n
  BY <1>1
<1>20. c[n] = call[1..n]
  BY <1>11
<1> HIDE DEF n, V, next, seq, Step
<1> QED
  BY <1>9, <1>18, <1>19, <1>20

\* The last character of an object is the brace that closes it.
LEMMA ObjectIsClosed ==
  ASSUME NEW o \in Seq(Letters), IsObject(o)
  PROVE  o[Len(o)] = "close"
<1> DEFINE k == Len(o)
<1>1. k \in Nat \ {0} /\ k \in 1..Len(o) /\ o[k] \in Letters /\ Len(o) \in Nat
  BY DEF IsObject
<1>2. k = Len(o) => Scan(ScanAt(o, k - 1), o, k).end = k /\ o[k] = "close"
  <2> HIDE DEF k
  <2> QED
    BY <1>1, ScanNext
<1> QED
  BY <1>2

LEMMA TextIs ==
  ASSUME NEW b \in Seq(Letters), NEW o \in Seq(Letters), NEW a \in Seq(Letters)
  PROVE  LET text == b \o o \o a IN
         /\ text \in Seq(Letters) /\ Len(text) = Len(b) + Len(o) + Len(a)
         /\ \A i \in 1..Len(b) : text[i] = b[i]
         /\ \A k \in 1..Len(o) : text[Len(b) + 1 + k - 1] = o[k]
<1> DEFINE bo == b \o o
           text == bo \o a
<1>1. /\ bo \in Seq(Letters) /\ Len(bo) = Len(b) + Len(o)
      /\ \A i \in 1..Len(bo) : bo[i] = IF i <= Len(b) THEN b[i] ELSE o[i - Len(b)]
  BY ConcatProperties
<1>2. /\ text \in Seq(Letters) /\ Len(text) = Len(bo) + Len(a)
      /\ \A i \in 1..Len(bo) + Len(a) : text[i] = IF i <= Len(bo) THEN bo[i] ELSE a[i - Len(bo)]
  <2>1. bo \in Seq(Letters) /\ a \in Seq(Letters)
    BY <1>1
  <2> HIDE DEF bo
  <2> QED
    BY ONLY <2>1, ConcatProperties
<1>3. Len(b) \in Nat /\ Len(o) \in Nat /\ Len(a) \in Nat
  BY LenProperties
<1> HIDE DEF bo, text
<1>4. \A i \in 1..Len(b) : text[i] = b[i]
  BY <1>1, <1>2, <1>3
<1>5. ASSUME NEW k \in 1..Len(o)
      PROVE  text[Len(b) + 1 + k - 1] = o[k]
  <2> DEFINE i == Len(b) + 1 + k - 1
  <2>1. i \in 1..Len(bo) /\ i \in 1..Len(bo) + Len(a) /\ ~(i <= Len(b)) /\ i - Len(b) = k
    BY <1>1, <1>2, <1>3
  <2> HIDE DEF i
  <2>2. text[i] = o[k]
    BY <1>1, <1>2, <2>1
  <2> QED
    BY <2>2 DEF i
<1> QED
  BY <1>1, <1>2, <1>3, <1>4, <1>5 DEF bo, text

LEMMA ObjectsAreFound ==
  ASSUME NEW m, OneText(m)
  PROVE  ObjectIsFound(m)
<1> DEFINE b == m.before
           o == m.object
           a == m.after
           text == b \o o \o a
           from == Len(b) + 1
           end == Len(b) + Len(o)
           later == {i \in Closing(text) : i > from}
           last == Max(later)
           rest == IF later = {} \/ last = end THEN <<>> ELSE <<<<from, last>>>>
           found == JsonObjects(text)
<1>1. /\ b \in Seq(Letters) /\ o \in Seq(Letters) /\ a \in Seq(Letters)
      /\ IsObject(o) /\ \A i \in 1..Len(b) : b[i] # "open"
  BY DEF OneText
<1> HIDE DEF b, o, a
<1>2. /\ text \in Seq(Letters) /\ Len(text) = Len(b) + Len(o) + Len(a)
      /\ \A i \in 1..Len(b) : text[i] = b[i]
      /\ \A k \in 1..Len(o) : text[from + k - 1] = o[k]
  BY <1>1, TextIs
<1>3. Len(b) \in Nat /\ Len(o) \in Nat /\ Len(a) \in Nat /\ Len(o) >= 2 /\ o[1] = "open"
  BY <1>1 DEF IsObject
<1> HIDE DEF text
<1>4. Len(text) \in Nat /\ DOMAIN text = 1..Len(text)
  BY <1>2
<1>5. from \in Opening(text) /\ \A i \in Opening(text) : from <= i
  <2>1. text[from] = "open" /\ from \in 1..Len(text)
    <3>1. 1 \in 1..Len(o) /\ from + 1 - 1 = from
      BY <1>3
    <3> QED
      BY <1>2, <1>3, <3>1
  <2>2. \A i \in 1..Len(text) : text[i] = "open" => from <= i
    <3> SUFFICES ASSUME NEW i \in 1..Len(text), text[i] = "open", ~(from <= i)
                 PROVE  FALSE
      BY <1>3
    <3>1. i \in 1..Len(b)
      BY <1>3, <1>4
    <3> QED
      BY <1>1, <1>2, <3>1
  <2> HIDE DEF from
  <2> QED
    BY <1>4, <2>1, <2>2 DEF Opening
<1>6. Min(Opening(text)) = from
  <2> DEFINE N == Opening(text)
  <2>1. N \subseteq Nat /\ N # {}
    BY <1>4, <1>5 DEF Opening
  <2> HIDE DEF N
  <2>2. Min(N) \in N /\ \A n \in N : Min(N) <= n
    BY <2>1, LeastOf
  <2> DEFINE least == Min(N)
  <2> HIDE DEF least
  <2>3. least \in Nat /\ least <= from /\ from <= least
    BY <1>5, <2>1, <2>2 DEF least, N
  <2>4. least = from
    BY <1>3, <2>3
  <2> QED
    BY <2>4 DEF least, N
<1>7. ObjectEnd(text, from) = end
  <2>1. from \in Nat \ {0} /\ from + Len(o) - 1 <= Len(text) /\ from + Len(o) - 1 = end
    BY <1>2, <1>3
  <2> HIDE DEF from, end
  <2> QED
    BY <1>1, <1>2, <1>4, <2>1, ObjectEnds
<1>8. text[from] = "open" /\ text[end] = "close" /\ end \in Nat \ {0}
  <2>1. from + Len(o) - 1 = end /\ Len(o) \in 1..Len(o)
    BY <1>3
  <2>2. o[Len(o)] = "close"
    BY <1>1, ObjectIsClosed
  <2>3. text[end] = "close"
    <3>1. text[from + Len(o) - 1] = o[Len(o)]
      BY <1>2, <2>1
    <3> QED
      BY <2>1, <2>2, <3>1
  <2>4. text[from] = "open"
    BY <1>5 DEF Opening
  <2> QED
    BY <1>3, <2>3, <2>4
<1>9. later # {} => text[last] = "close"
  <2> SUFFICES ASSUME later # {}
               PROVE  text[last] = "close"
    OBVIOUS
  <2> DEFINE n == Len(text)
  <2>1. later \subseteq 1..n
    BY <1>4 DEF Closing
  <2>2. \A i \in later : text[i] = "close"
    BY DEF Closing
  <2>3. n \in Nat
    BY <1>4
  <2> HIDE DEF later, n
  <2>4. Max(later) \in later
    BY <2>1, <2>3, GreatestOf
  <2> QED
    BY <2>2, <2>4
<1>10. found = <<<<from, end>>>> \o rest
  <2>1. Opening(text) # {} /\ end # 0
    BY <1>5, <1>8
  <2> HIDE DEF from, end
  <2> QED
    BY <1>6, <1>7, <2>1 DEF JsonObjects
<1> HIDE DEF from, end, found, later, last
<1>11. /\ found[1] = <<from, end>> /\ Len(found) \in 1..2
       /\ \A i \in DOMAIN found : found[i] = <<from, end>> \/ (later # {} /\ found[i] = <<from, last>>)
  <2> DEFINE p == <<from, end>>
             q == <<from, last>>
             Pairs == {p, q}
  <2> SUFFICES /\ found[1] = p /\ Len(found) \in 1..2
               /\ \A i \in DOMAIN found : found[i] = p \/ (later # {} /\ found[i] = q)
    OBVIOUS
  <2>1. found = <<p>> \o rest /\ (rest = <<>> \/ (later # {} /\ rest = <<q>>))
    BY <1>10
  <2> HIDE DEF p, q, rest
  <2>2. <<p>> \in Seq(Pairs) /\ rest \in Seq(Pairs)
    <3>1. p \in Pairs /\ q \in Pairs
      OBVIOUS
    <3> HIDE DEF Pairs
    <3>2. <<p>> \in Seq(Pairs) /\ <<q>> \in Seq(Pairs) /\ <<>> \in Seq(Pairs)
      BY <3>1
    <3>3. CASE rest = <<>>
      BY <3>2, <3>3
    <3>4. CASE rest = <<q>>
      BY <3>2, <3>4
    <3> QED
      BY <2>1, <3>3, <3>4
  <2>3. Len(<<p>>) = 1 /\ <<p>>[1] = p
    OBVIOUS
  <2>4. Len(rest) = 0 \/ (later # {} /\ Len(rest) = 1 /\ rest[1] = q)
    BY <2>1
  <2>5. /\ found \in Seq(Pairs) /\ Len(found) = Len(<<p>>) + Len(rest)
        /\ \A i \in 1..Len(<<p>>) + Len(rest) :
             found[i] = IF i <= Len(<<p>>) THEN <<p>>[i] ELSE rest[i - Len(<<p>>)]
    <3> HIDE DEF Pairs
    <3> QED
      BY <2>1, <2>2, ConcatProperties
  <2>6. DOMAIN found = 1..Len(found)
    BY <2>5
  <2> QED
    BY <2>3, <2>4, <2>5, <2>6
<1>12. \A i \in DOMAIN found : text[found[i][1]] = "open" /\ text[found[i][2]] = "close"
  BY <1>8, <1>9, <1>11
<1>13. ObjectIsFound(m) <=> /\ found[1] = <<from, end>> /\ Len(found) \in 1..2
                            /\ \A i \in DOMAIN found : text[found[i][1]] = "open" /\ text[found[i][2]] = "close"
  BY DEF ObjectIsFound, found, text, from, end, b, o, a
<1> QED
  BY <1>11, <1>12, <1>13

-----------------------------------------------------------------------------
\* The error that is kept is that of wrong fields, if there was one.
LEMMA WrongFieldsAreKept ==
  ASSUME NEW first \in Validity3, NEW texts \in Seq(Validity3)
  PROVE  ErrorKept(first, texts) = "fields" <=> (first = "fields" \/ \E i \in 1..Len(texts) : texts[i] = "fields")
<1> DEFINE n == Len(texts)
           V == Validity3
           Kept(b, t) == IF t = "fields" \/ b # "fields" THEN t ELSE b
           next == [k \in 1..n |-> [v \in V |-> Kept(v, texts[k])]]
           Step(h) == [s \in SUBSET (1..n) |-> IF s = {} THEN first ELSE Kept(h[s \ {Max(s)}], texts[Max(s)])]
           call == CHOOSE h : h = Step(h)
<1>1. n \in Nat /\ DOMAIN texts = 1..n /\ \A k \in 1..n : texts[k] \in V
  OBVIOUS
<1>2. FoldParts(n, V, first, next)
  BY <1>1 DEF FoldParts
<1>3. \A s \in SUBSET (1..n) : s # {} => Max(s) \in 1..n
  <2> HIDE DEF n
  <2>1. \A s \in SUBSET (1..n) : s # {} => Max(s) \in s
    BY <1>1, GreatestOf
  <2> QED
    BY <2>1
<1>4. \A s \in SUBSET (1..n), v \in V : s # {} => next[Max(s)][v] = Kept(v, texts[Max(s)])
  <2> HIDE DEF n, V, Kept
  <2> QED
    BY <1>3
<1>5. PICK g : FoldOf(n, V, first, next, g)
  <2> HIDE DEF n, V, next
  <2> QED
    BY ONLY <1>2, FoldExists
<1>6. g = Step(g)
  <2> HIDE DEF n, V, next, Kept
  <2>1. ASSUME NEW s \in SUBSET (1..n)
        PROVE  g[s] = IF s = {} THEN first ELSE Kept(g[s \ {Max(s)}], texts[Max(s)])
    <3>1. g[s \ {Max(s)}] \in V
      BY <1>5 DEF FoldOf
    <3> QED
      BY <1>4, <1>5, <3>1 DEF FoldOf
  <2> QED
    BY <1>5, <2>1 DEF FoldOf
<1>7. call = Step(call)
  <2> HIDE DEF Step
  <2> QED
    BY <1>6
<1>8. ErrorKept(first, texts) = call[1..n]
  BY <1>1 DEF ErrorKept, FoldLeft, MapThenFoldSet
<1> HIDE DEF call
<1>9. Folds(n, V, first, next, call)
  <2> HIDE DEF n, V, next, Kept
  <2> QED
    BY <1>4, <1>7 DEF Folds
<1>10. PICK c : Runs(n, V, first, next, c) /\ c[n] = call[1..n]
  <2> HIDE DEF n, V, next, Step
  <2> QED
    BY ONLY <1>2, <1>9, FoldRuns
<1>11. c[0] = first /\ \A k \in 1..n : c[k] = Kept(c[k - 1], texts[k])
  <2>1. c \in [0..n -> V] /\ c[0] = first /\ \A k \in 1..n : c[k] = next[k][c[k - 1]]
    <3> HIDE DEF n, V, next
    <3> QED
      BY <1>10 DEF Runs
  <2>2. \A k \in 1..n : c[k - 1] \in V
    <3> HIDE DEF V, n, next
    <3> QED
      BY <1>1, <2>1
  <2>3. \A k \in 1..n, v \in V : next[k][v] = Kept(v, texts[k])
    <3> HIDE DEF V, n, Kept
    <3> QED
      OBVIOUS
  <2> HIDE DEF next, V, n, Kept
  <2> QED
    BY <2>1, <2>2, <2>3
<1> DEFINE Right(k) == c[k] = "fields" <=> (first = "fields" \/ \E i \in 1..k : texts[i] = "fields")
           Bad == {k \in 0..n : ~Right(k)}
           least == Min(Bad)
<1>12. ASSUME Bad # {}
       PROVE  FALSE
  <2> HIDE DEF n
  <2>1. Bad \subseteq Nat
    OBVIOUS
  <2>2. least \in Bad /\ \A k \in Bad : least <= k
    <3> HIDE DEF Bad
    <3> QED
      BY <1>12, <2>1, LeastOf
  <2> HIDE DEF least
  <2>3. Right(0)
    BY <1>11
  <2>4. least \in 1..n /\ least - 1 \in 0..n
    BY <1>1, <2>2, <2>3
  <2>5. Right(least - 1)
    <3>1. least - 1 \notin Bad
      BY <2>2, <2>4
    <3> QED
      BY <2>4, <3>1
  <2>6. 1..least = (1..least - 1) \cup {least}
    BY <2>4
  <2>7. c[least] = "fields" <=> (c[least - 1] = "fields" \/ texts[least] = "fields")
    BY <1>11, <2>4
  <2>8. Right(least)
    BY <2>5, <2>6, <2>7
  <2> QED
    BY <2>2, <2>8
<1>13. Right(n)
  BY <1>1, <1>12
<1> QED
  BY <1>8, <1>10, <1>13

LEMMA TextsAre ==
  ASSUME NEW r, OneReply(r)
  PROVE  /\ Texts(r) \in Seq(Validity3)
         /\ NoGood(Texts(r)) <=> /\ Cleaned(r) # "good" /\ NoGood(IF r.fenced THEN r.inBody ELSE r.inWhole)
                                 /\ r.fenced => NoGood(r.inWhole)
<1> DEFINE V == Validity3
           a == <<Cleaned(r)>>
           b == IF r.fenced THEN r.inBody ELSE r.inWhole
           c == IF r.fenced THEN r.inWhole ELSE <<>>
           ab == a \o b
           abc == ab \o c
<1>1. Cleaned(r) \in V /\ r.fenced \in BOOLEAN /\ r.inBody \in Seq(V) /\ r.inWhole \in Seq(V)
  BY DEF OneReply, Cleaned
<1>2. a \in Seq(V) /\ Len(a) = 1 /\ a[1] = Cleaned(r)
  <2> HIDE DEF V
  <2> QED
    BY <1>1
<1>3. b \in Seq(V) /\ c \in Seq(V)
  <2> HIDE DEF V
  <2>1. <<>> \in Seq(V)
    OBVIOUS
  <2> QED
    BY <1>1, <2>1
<1>4. Texts(r) = abc
  BY DEF Texts
<1>5. NoGood(c) <=> (r.fenced => NoGood(r.inWhole))
  BY <1>1 DEF NoGood
<1> HIDE DEF V, a, b, c
<1>6. /\ ab \in Seq(V) /\ Len(ab) = Len(a) + Len(b)
      /\ \A i \in 1..Len(a) + Len(b) : ab[i] = IF i <= Len(a) THEN a[i] ELSE b[i - Len(a)]
  BY <1>2, <1>3, ConcatProperties
<1> HIDE DEF ab
<1>7. /\ abc \in Seq(V) /\ Len(abc) = Len(ab) + Len(c)
      /\ \A i \in 1..Len(ab) + Len(c) : abc[i] = IF i <= Len(ab) THEN ab[i] ELSE c[i - Len(ab)]
  <2>1. ab \in Seq(V) /\ c \in Seq(V)
    BY <1>3, <1>6
  <2> QED
    BY ONLY <2>1, ConcatProperties
<1> HIDE DEF abc
<1>8. /\ Len(b) \in Nat /\ DOMAIN b = 1..Len(b) /\ Len(c) \in Nat /\ DOMAIN c = 1..Len(c)
      /\ DOMAIN abc = 1..1 + Len(b) + Len(c) /\ Len(ab) = 1 + Len(b)
  BY <1>2, <1>3, <1>6, <1>7
<1>9. abc[1] = Cleaned(r) /\ 1 \in DOMAIN abc
  BY <1>2, <1>6, <1>7, <1>8
<1>10. \A i \in DOMAIN b : abc[i + 1] = b[i] /\ i + 1 \in DOMAIN abc
  BY <1>2, <1>6, <1>7, <1>8
<1>11. \A i \in DOMAIN c : abc[i + 1 + Len(b)] = c[i] /\ i + 1 + Len(b) \in DOMAIN abc
  BY <1>7, <1>8
<1>12. \A i \in DOMAIN abc : \/ i = 1
                             \/ \E j \in DOMAIN b : i = j + 1
                             \/ \E j \in DOMAIN c : i = j + 1 + Len(b)
  <2> SUFFICES ASSUME NEW i \in DOMAIN abc
               PROVE  \/ i = 1
                      \/ \E j \in DOMAIN b : i = j + 1
                      \/ \E j \in DOMAIN c : i = j + 1 + Len(b)
    OBVIOUS
  <2>1. CASE i <= 1
    BY <1>8, <2>1
  <2>2. CASE i > 1 /\ i <= 1 + Len(b)
    <3>1. i - 1 \in DOMAIN b /\ i = i - 1 + 1
      BY <1>8, <2>2
    <3> QED
      BY <3>1
  <2>3. CASE i > 1 + Len(b)
    <3>1. i - 1 - Len(b) \in DOMAIN c /\ i = i - 1 - Len(b) + 1 + Len(b)
      BY <1>8, <2>3
    <3> QED
      BY <3>1
  <2> QED
    BY <1>8, <2>1, <2>2, <2>3
<1>13. NoGood(abc) <=> Cleaned(r) # "good" /\ NoGood(b) /\ NoGood(c)
  <2>1. ASSUME NoGood(abc)
        PROVE  Cleaned(r) # "good" /\ NoGood(b) /\ NoGood(c)
    BY <1>9, <1>10, <1>11, <2>1 DEF NoGood
  <2>2. ASSUME Cleaned(r) # "good", NoGood(b), NoGood(c)
        PROVE  NoGood(abc)
    <3> SUFFICES ASSUME NEW i \in DOMAIN abc
                 PROVE  abc[i] # "good"
      BY DEF NoGood
    <3> QED
      BY <1>9, <1>10, <1>11, <1>12, <2>2 DEF NoGood
  <2> QED
    BY <2>1, <2>2
<1> QED
  BY <1>4, <1>5, <1>7, <1>13 DEF V, b

LEMMA RepliesAgree ==
  ASSUME NEW r, OneReply(r)
  PROVE  TiersAgree(r) /\ ParseDecision(r) \in 1..3
<1> DEFINE parsed == ParseStructured(r)
           best == ErrorKept(r.whole, Texts(r))
           fields == "fields" \in {r.whole} \cup Range(Texts(r))
           all == IF r.fenced THEN r.inBody ELSE r.inWhole
<1>1. r.whole \in Validity3 /\ r.fenced \in BOOLEAN
  BY DEF OneReply
<1>2. NoGood(Texts(r)) <=> Cleaned(r) # "good" /\ NoGood(all) /\ (r.fenced => NoGood(r.inWhole))
  BY TextsAre
<1>3. best = "fields" <=> fields
  <2> DEFINE t == Texts(r)
  <2>1. t \in Seq(Validity3) /\ Range(t) = {t[i] : i \in DOMAIN t}
    BY TextsAre DEF Range
  <2> HIDE DEF t
  <2>2. DOMAIN t = 1..Len(t)
    BY <2>1
  <2>3. ErrorKept(r.whole, t) = "fields" <=> (r.whole = "fields" \/ \E i \in 1..Len(t) : t[i] = "fields")
    BY <1>1, <2>1, WrongFieldsAreKept
  <2>4. "fields" \in {r.whole} \cup Range(t) <=> (r.whole = "fields" \/ \E i \in 1..Len(t) : t[i] = "fields")
    BY <2>1, <2>2
  <2> QED
    BY <2>3, <2>4 DEF t
<1> HIDE DEF all, best, fields
<1>4. ParseDecision(r) = IF r.whole = "good" THEN 1 ELSE IF NoGood(Texts(r)) THEN 3 ELSE 2
  BY <1>2 DEF ParseDecision, all
<1>5. parsed = IF r.whole = "good" THEN [tier |-> 1, error |-> "none"]
               ELSE IF ~NoGood(Texts(r)) THEN [tier |-> 2, error |-> "none"]
               ELSE [tier |-> 3, error |-> IF best = "fields" THEN "fields"
                                           ELSE IF r.inWhole = <<>> THEN "no object" ELSE "json"]
  BY DEF ParseStructured, best
<1> HIDE DEF parsed
<1>6. /\ parsed.tier = IF r.whole = "good" THEN 1 ELSE IF NoGood(Texts(r)) THEN 3 ELSE 2
      /\ parsed.tier = 3 <=> parsed.error # "none"
      /\ parsed.error = "fields" <=> parsed.tier = 3 /\ best = "fields"
  <2>1. CASE r.whole = "good"
    BY <1>5, <2>1
  <2>2. CASE r.whole # "good" /\ ~NoGood(Texts(r))
    BY <1>5, <2>2
  <2>3. CASE r.whole # "good" /\ NoGood(Texts(r))
    BY <1>5, <2>3
  <2> QED
    BY <2>1, <2>2, <2>3
<1>7. TiersAgree(r) <=> /\ parsed.tier = ParseDecision(r)
                        /\ parsed.tier = 3 <=> parsed.error # "none"
                        /\ (parsed.tier = 3 /\ fields) <=> parsed.error = "fields"
  BY DEF TiersAgree, parsed, fields
<1> QED
  BY <1>3, <1>4, <1>6, <1>7

LEMMA FirstGoodReply ==
  ASSUME NEW replies, SomeTries(replies)
  PROVE  FirstGoodReplyCounts(replies)
<1> SUFFICES ASSUME NEW limit \in 0..Len(replies) - 1
             PROVE  LET done == ChatStructured(replies, limit) IN
                    /\ done.calls \in 1..limit + 1
                    /\ done.tier = ParseDecision(replies[done.calls])
                    /\ \A i \in 1..done.calls - 1 : ParseDecision(replies[i]) = 3
                    /\ done.tier = 3 => done.calls = limit + 1
  BY DEF FirstGoodReplyCounts
<1> DEFINE attempts == limit + 1
           parsed == [i \in 1..attempts |-> ParseStructured(replies[i])]
           good == {i \in 1..attempts : parsed[i].tier < 3}
           calls == IF good = {} THEN attempts ELSE Min(good)
<1>1. Len(replies) \in Nat /\ attempts \in Nat \ {0} /\ attempts <= Len(replies)
  BY DEF SomeTries
<1>2. \A i \in 1..attempts : parsed[i].tier = ParseDecision(replies[i]) /\ ParseDecision(replies[i]) \in 1..3
  <2> SUFFICES ASSUME NEW i \in 1..attempts
               PROVE  parsed[i].tier = ParseDecision(replies[i]) /\ ParseDecision(replies[i]) \in 1..3
    OBVIOUS
  <2>1. i \in 1..Len(replies)
    BY <1>1
  <2>2. OneReply(replies[i])
    BY <2>1 DEF SomeTries
  <2>3. TiersAgree(replies[i]) /\ ParseDecision(replies[i]) \in 1..3
    BY <2>2, RepliesAgree
  <2>4. parsed[i] = ParseStructured(replies[i])
    OBVIOUS
  <2> HIDE DEF parsed
  <2> QED
    BY <2>3, <2>4 DEF TiersAgree
<1>3. LET done == ChatStructured(replies, limit) IN done.calls = calls /\ done.tier = parsed[calls].tier
  BY DEF ChatStructured
<1> HIDE DEF parsed, attempts
<1>4. good # {} => calls \in good /\ \A i \in good : calls <= i
  <2>1. good \subseteq Nat
    BY <1>1
  <2> HIDE DEF good
  <2> QED
    BY <2>1, LeastOf
<1>5. good = {} => calls = attempts
  OBVIOUS
<1> HIDE DEF calls
<1>6. calls \in 1..attempts
  BY <1>1, <1>4, <1>5
<1>7. \A i \in 1..calls - 1 : ParseDecision(replies[i]) = 3
  <2> SUFFICES ASSUME NEW i \in 1..calls - 1
               PROVE  ParseDecision(replies[i]) = 3
    OBVIOUS
  <2>1. i \in 1..attempts /\ ~(calls <= i)
    BY <1>1, <1>6
  <2>2. i \notin good
    BY <1>4, <2>1
  <2> QED
    BY <1>2, <2>1, <2>2
<1>8. parsed[calls].tier = 3 => calls = attempts
  BY <1>4, <1>5
<1> QED
  BY <1>2, <1>3, <1>6, <1>7, <1>8 DEF attempts

-----------------------------------------------------------------------------
\* An interview's state, all that is known of it, and the trim of its window:
\* only the oldest are forgotten, and only by a summary that is full.
Interviews == [history : Seq(Nat), summary : Seq(Nat)]
Known(s) == s.summary \o s.history

LEMMA SliceIs ==
  ASSUME NEW s \in Seq(Nat), NEW from \in 1..Len(s) + 1, NEW to \in 0..Len(s), from <= to + 1
  PROVE  /\ SubSeq(s, from, to) \in Seq(Nat) /\ Len(SubSeq(s, from, to)) = to - from + 1
         /\ \A i \in 1..to - from + 1 : SubSeq(s, from, to)[i] = s[from + i - 1]
<1>1. Len(s) \in Nat /\ \A i \in 1..Len(s) : s[i] \in Nat
  OBVIOUS
<1> DEFINE n == to - from + 1
           t == [i \in 1..n |-> s[from + i - 1]]
<1>2. n \in Nat /\ SubSeq(s, from, to) = t
  BY <1>1
<1>3. t \in Seq(Nat) /\ Len(t) = n
  <2>1. \A i \in 1..n : s[from + i - 1] \in Nat
    BY <1>1
  <2> HIDE DEF n
  <2>2. t \in [1..n -> Nat] /\ n \in Nat
    BY <1>2, <2>1
  <2> HIDE DEF t
  <2> QED
    BY <2>2
<1> QED
  BY <1>2, <1>3

LEMMA JoinIs ==
  ASSUME NEW s \in Seq(Nat), NEW t \in Seq(Nat)
  PROVE  /\ s \o t \in Seq(Nat) /\ Len(s \o t) = Len(s) + Len(t)
         /\ \A i \in 1..Len(s) : (s \o t)[i] = s[i]
         /\ \A i \in 1..Len(t) : (s \o t)[Len(s) + i] = t[i]
<1> DEFINE st == s \o t
<1>1. /\ st \in Seq(Nat) /\ Len(st) = Len(s) + Len(t)
      /\ \A i \in 1..Len(s) + Len(t) : st[i] = IF i <= Len(s) THEN s[i] ELSE t[i - Len(s)]
  BY ConcatProperties
<1>2. Len(s) \in Nat /\ Len(t) \in Nat
  OBVIOUS
<1> HIDE DEF st
<1>3. \A i \in 1..Len(s) : st[i] = s[i]
  BY <1>1, <1>2
<1>4. \A i \in 1..Len(t) : st[Len(s) + i] = t[i]
  <2> SUFFICES ASSUME NEW i \in 1..Len(t)
               PROVE  st[Len(s) + i] = t[i]
    OBVIOUS
  <2> DEFINE j == Len(s) + i
  <2>1. j \in 1..Len(s) + Len(t) /\ ~(j <= Len(s)) /\ j - Len(s) = i
    BY <1>2
  <2> HIDE DEF j
  <2>2. st[j] = t[i]
    BY <1>1, <2>1
  <2> QED
    BY <2>2 DEF j
<1> QED
  BY <1>1, <1>3, <1>4 DEF st

\* The newest of a sequence are what is left of it without some first ones.
LEMMA NewestIs ==
  ASSUME NEW s \in Seq(Nat), NEW n \in Nat
  PROVE  \E drop \in 0..Len(s) :
           /\ Newest(s, n) \in Seq(Nat) /\ Len(Newest(s, n)) = Len(s) - drop
           /\ \A i \in 1..Len(s) - drop : Newest(s, n)[i] = s[drop + i]
           /\ drop = 0 \/ Len(s) - drop = n
           /\ Len(s) >= n => Len(s) - drop = n
<1> DEFINE size == Len(s)
<1>1. size \in Nat
  OBVIOUS
<1>2. CASE size <= n
  <2>1. Newest(s, n) = s
    BY <1>2 DEF Newest
  <2>2. /\ 0 \in 0..size /\ size = size - 0 /\ \A i \in 1..size - 0 : s[i] = s[0 + i]
        /\ size >= n => size - 0 = n
    BY <1>1, <1>2
  <2>3. /\ s \in Seq(Nat) /\ Len(s) = Len(s) - 0 /\ \A i \in 1..Len(s) - 0 : s[i] = s[0 + i]
        /\ 0 = 0 \/ Len(s) - 0 = n
        /\ Len(s) >= n => Len(s) - 0 = n
    BY <2>2
  <2> QED
    BY <2>1, <2>2, <2>3, Zenon
<1>3. CASE ~(size <= n)
  <2> DEFINE drop == size - n
             from == size - n + 1
  <2>1. Newest(s, n) = SubSeq(s, from, size)
    BY <1>3 DEF Newest
  <2>2. /\ drop \in 0..size /\ from \in 1..size + 1 /\ size \in 0..size /\ from <= size + 1
        /\ size - from + 1 = n /\ size - drop = n /\ from = drop + 1
    BY <1>1, <1>3
  <2> HIDE DEF drop, from
  <2>3. /\ SubSeq(s, from, size) \in Seq(Nat) /\ Len(SubSeq(s, from, size)) = n
        /\ \A i \in 1..n : SubSeq(s, from, size)[i] = s[from + i - 1]
    <3>1. from \in 1..Len(s) + 1 /\ size \in 0..Len(s) /\ size - from + 1 = n
      BY <2>2
    <3> HIDE DEF size
    <3>2. /\ SubSeq(s, from, size) \in Seq(Nat) /\ Len(SubSeq(s, from, size)) = size - from + 1
          /\ \A i \in 1..size - from + 1 : SubSeq(s, from, size)[i] = s[from + i - 1]
      BY <2>2, <3>1, SliceIs
    <3> QED
      BY <3>1, <3>2
  <2>4. \A i \in 1..n : from + i - 1 = drop + i
    BY <1>1, <2>2
  <2> QED
    BY <2>1, <2>2, <2>3, <2>4
<1> QED
  BY <1>2, <1>3

Forgets(s, t, drop) ==
  /\ drop \in 0..Len(Known(s)) /\ Len(Known(t)) = Len(Known(s)) - drop
  /\ \A i \in 1..Len(Known(t)) : Known(t)[i] = Known(s)[drop + i]

LEMMA TrimForgets ==
  ASSUME NEW s \in Interviews, NEW ok, NEW window \in Nat, NEW block \in 1..window + 1, NEW capacity \in Nat
  PROVE  LET t == Trim(s, ok, window, block, capacity) IN
         /\ t \in Interviews
         /\ Len(t.history) = IF Len(s.history) <= window \/ ~ok THEN Len(s.history) ELSE Len(s.history) - block
         /\ Len(s.summary) >= capacity => Len(t.summary) >= capacity
         /\ \E drop : Forgets(s, t, drop) /\ (drop # 0 => Len(t.summary) >= capacity)
<1> DEFINE t == Trim(s, ok, window, block, capacity)
           h == s.history
           u == s.summary
<1>1. h \in Seq(Nat) /\ u \in Seq(Nat) /\ Len(h) \in Nat /\ Len(u) \in Nat
  BY DEF Interviews
<1>2. CASE Len(h) <= window \/ ~ok
  <2>1. t = s
    BY <1>2 DEF Trim
  <2> HIDE DEF t, h, u
  <2>2. Len(Known(s)) \in Nat /\ Known(s) \in Seq(Nat)
    <3>1. u \o h \in Seq(Nat)
      BY <1>1, JoinIs
    <3>2. Known(s) \in Seq(Nat)
      BY <3>1 DEF Known, u, h
    <3> QED
      BY <3>2
  <2>3. Forgets(s, s, 0)
    BY <2>2 DEF Forgets
  <2> QED
    BY <1>2, <2>1, <2>3 DEF t, h, u
<1>3. CASE ~(Len(h) <= window \/ ~ok)
  <2> DEFINE front == SubSeq(h, 1, block)
             back == SubSeq(h, block + 1, Len(h))
             grown == u \o front
             new == Newest(grown, capacity)
             rest == Len(h) - block
  <2>1. t = [history |-> back, summary |-> new]
    BY <1>3 DEF Trim
  <2>2. block \in Nat \ {0} /\ block <= Len(h) /\ rest \in Nat
    BY <1>1, <1>3
  <2>3. front \in Seq(Nat) /\ Len(front) = block /\ \A i \in 1..block : front[i] = h[i]
    <3>1. /\ 1 \in 1..Len(h) + 1 /\ block \in 0..Len(h) /\ 1 <= block + 1 /\ block - 1 + 1 = block
          /\ \A i \in 1..block : 1 + i - 1 = i
      BY <1>1, <2>2
    <3>2. /\ front \in Seq(Nat) /\ Len(front) = block - 1 + 1
          /\ \A i \in 1..block - 1 + 1 : front[i] = h[1 + i - 1]
      BY <1>1, <3>1, SliceIs
    <3> QED
      BY <3>1, <3>2
  <2>4. back \in Seq(Nat) /\ Len(back) = rest /\ \A i \in 1..rest : back[i] = h[block + i]
    <3> DEFINE from == block + 1
               to == Len(h)
    <3>1. /\ from \in 1..Len(h) + 1 /\ to \in 0..Len(h) /\ from <= to + 1 /\ to - from + 1 = rest
          /\ \A i \in 1..rest : from + i - 1 = block + i
      BY <1>1, <2>2
    <3>2. back = SubSeq(h, from, to)
      OBVIOUS
    <3> HIDE DEF from, to, back, rest
    <3>3. /\ SubSeq(h, from, to) \in Seq(Nat) /\ Len(SubSeq(h, from, to)) = to - from + 1
          /\ \A i \in 1..to - from + 1 : SubSeq(h, from, to)[i] = h[from + i - 1]
      BY <1>1, <3>1, SliceIs
    <3> QED
      BY <3>1, <3>2, <3>3
  <2> HIDE DEF front, back, t, h, u
  <2>5. /\ grown \in Seq(Nat) /\ Len(grown) = Len(u) + Len(front)
        /\ \A i \in 1..Len(u) : grown[i] = u[i]
        /\ \A i \in 1..Len(front) : grown[Len(u) + i] = front[i]
    BY <1>1, <2>3, JoinIs
  <2> HIDE DEF grown
  <2>6. PICK drop \in 0..Len(grown) :
           /\ new \in Seq(Nat) /\ Len(new) = Len(grown) - drop
           /\ \A i \in 1..Len(grown) - drop : new[i] = grown[drop + i]
           /\ drop = 0 \/ Len(grown) - drop = capacity
           /\ Len(grown) >= capacity => Len(grown) - drop = capacity
    BY <2>5, NewestIs
  <2> HIDE DEF new
  <2> DEFINE all == u \o h
             kept == new \o back
  <2>7. /\ all \in Seq(Nat) /\ Len(all) = Len(u) + Len(h)
        /\ \A i \in 1..Len(u) : all[i] = u[i]
        /\ \A i \in 1..Len(h) : all[Len(u) + i] = h[i]
    BY <1>1, JoinIs
  <2>8. /\ kept \in Seq(Nat) /\ Len(kept) = Len(new) + Len(back)
        /\ \A i \in 1..Len(new) : kept[i] = new[i]
        /\ \A i \in 1..Len(back) : kept[Len(new) + i] = back[i]
    BY <2>4, <2>6, JoinIs
  <2> DEFINE lu == Len(u)
             lh == Len(h)
             lg == Len(grown)
             ln == Len(new)
  <2>9. /\ lu \in Nat /\ lh \in Nat /\ lg = lu + block /\ block \in Nat \ {0} /\ rest \in Nat /\ lh = block + rest
        /\ ln = lg - drop /\ drop \in 0..lg /\ Len(all) = lu + lh /\ Len(kept) = ln + rest
        /\ drop = 0 \/ ln = capacity
        /\ lg >= capacity => ln = capacity
    BY <1>1, <2>2, <2>3, <2>4, <2>5, <2>6, <2>7, <2>8
  <2>10. /\ \A i \in 1..lu : grown[i] = all[i]
         /\ \A i \in 1..block : grown[lu + i] = all[lu + i]
         /\ \A i \in 1..ln : kept[i] = grown[drop + i]
         /\ \A i \in 1..rest : kept[ln + i] = h[block + i]
         /\ \A i \in 1..lh : all[lu + i] = h[i]
    <3>1. \A i \in 1..block : i \in 1..Len(h) /\ i \in 1..Len(front)
      BY <2>3, <2>9
    <3>2. Len(h) = lh /\ Len(u) = lu /\ Len(front) = block /\ Len(new) = ln /\ Len(back) = rest /\ Len(grown) - drop = ln
      BY <2>3, <2>4, <2>6
    <3> HIDE DEF rest, all, kept, lu, lh, lg, ln
    <3>3. \A i \in 1..lu : grown[i] = all[i]
      BY <2>5, <2>7, <3>2
    <3>4. \A i \in 1..block : grown[lu + i] = all[lu + i]
      <4>1. \A i \in 1..block : grown[lu + i] = front[i]
        BY <2>5, <3>2
      <4>2. \A i \in 1..block : all[lu + i] = h[i]
        BY <2>7, <3>1, <3>2
      <4> QED
        BY <2>3, <4>1, <4>2
    <3>5. \A i \in 1..ln : kept[i] = grown[drop + i]
      BY <2>6, <2>8, <3>2
    <3>6. \A i \in 1..rest : kept[ln + i] = h[block + i]
      BY <2>4, <2>8, <3>2
    <3>7. \A i \in 1..lh : all[lu + i] = h[i]
      BY <2>7, <3>2
    <3> QED
      BY <3>3, <3>4, <3>5, <3>6, <3>7
  <2> HIDE DEF all, kept, lu, lh, lg, ln, rest
  <2>11. drop \in 0..Len(all) /\ Len(kept) = Len(all) - drop /\ \A i \in 1..Len(kept) : kept[i] = all[drop + i]
    <3>1. drop \in 0..Len(all) /\ Len(kept) = Len(all) - drop
      BY <2>9
    <3>2. \A i \in 1..lg : grown[i] = all[i]
      <4> SUFFICES ASSUME NEW i \in 1..lg, ~(i <= lu)
                   PROVE  grown[i] = all[i]
        BY <2>9, <2>10
      <4> DEFINE j == i - lu
      <4>1. j \in 1..block /\ lu + j = i
        BY <2>9
      <4> QED
        BY <2>10, <4>1
    <3>3. ASSUME NEW i \in 1..Len(kept)
          PROVE  kept[i] = all[drop + i]
      <4>1. CASE i <= ln
        <5>1. i \in 1..ln /\ drop + i \in 1..lg
          BY <2>9, <4>1
        <5> QED
          BY <2>10, <3>2, <5>1
      <4>2. CASE ~(i <= ln)
        <5> DEFINE j == i - ln
                   k == block + j
        <5>1. j \in 1..rest /\ ln + j = i /\ k \in 1..lh /\ lu + k = drop + i
          BY <2>9, <4>2
        <5>2. kept[ln + j] = h[k] /\ all[lu + k] = h[k]
          BY <2>10, <5>1
        <5> HIDE DEF j, k
        <5> QED
          BY <5>1, <5>2
      <4> QED
        BY <4>1, <4>2
    <3> QED
      BY <3>1, <3>3
  <2>12. Known(s) = all /\ Known(t) = kept
    BY <2>1 DEF Known, all, kept, h, u
  <2>13. Forgets(s, t, drop)
    BY <2>11, <2>12 DEF Forgets
  <2>14. (drop # 0 => ln >= capacity) /\ (lu >= capacity => ln >= capacity)
    BY <2>9
  <2>15. t.history = back /\ t.summary = new /\ t \in Interviews
    BY <2>1, <2>4, <2>6 DEF Interviews
  <2>16. /\ t \in Interviews /\ Len(t.history) = Len(h) - block
         /\ Len(u) >= capacity => Len(t.summary) >= capacity
         /\ \E d : Forgets(s, t, d) /\ (d # 0 => Len(t.summary) >= capacity)
    BY <2>4, <2>13, <2>14, <2>15 DEF lu, ln, rest
  <2> QED
    BY <1>3, <2>16 DEF t, h, u
<1> QED
  BY <1>2, <1>3

\* One more turn: an answered one is known as the newest, until the trim.
Added(s, n) == [s EXCEPT !.history = Append(@, n)]

LEMMA AddedIs ==
  ASSUME NEW s \in Interviews, NEW n \in Nat
  PROVE  /\ Added(s, n) \in Interviews /\ Added(s, n).summary = s.summary
         /\ Len(Added(s, n).history) = Len(s.history) + 1
         /\ Len(Known(Added(s, n))) = Len(Known(s)) + 1 /\ Len(Known(s)) \in Nat
         /\ \A i \in 1..Len(Known(s)) : Known(Added(s, n))[i] = Known(s)[i]
         /\ Known(Added(s, n))[Len(Known(s)) + 1] = n
<1> DEFINE h == s.history
           u == s.summary
           g == Append(h, n)
<1>1. h \in Seq(Nat) /\ u \in Seq(Nat) /\ s \in [history : Seq(Nat), summary : Seq(Nat)]
  BY DEF Interviews
<1>2. Added(s, n) = [s EXCEPT !.history = g]
  BY DEF Added
<1> HIDE DEF u
<1>3. g \in Seq(Nat) /\ Len(g) = Len(h) + 1 /\ (\A i \in 1..Len(h) : g[i] = h[i]) /\ g[Len(h) + 1] = n
  <2> HIDE DEF h
  <2> QED
    BY <1>1, AppendProperties
<1> HIDE DEF g
<1>4. Added(s, n).history = g /\ Added(s, n).summary = u /\ Added(s, n) \in Interviews
  BY <1>1, <1>2, <1>3 DEF Interviews, u
<1> HIDE DEF h
<1> DEFINE uh == u \o h
           ug == u \o g
<1>5. /\ uh \in Seq(Nat) /\ Len(uh) = Len(u) + Len(h)
      /\ \A i \in 1..Len(u) : uh[i] = u[i]
      /\ \A i \in 1..Len(h) : uh[Len(u) + i] = h[i]
  BY <1>1, JoinIs
<1>6. /\ ug \in Seq(Nat) /\ Len(ug) = Len(u) + Len(g)
      /\ \A i \in 1..Len(u) : ug[i] = u[i]
      /\ \A i \in 1..Len(g) : ug[Len(u) + i] = g[i]
  BY <1>1, <1>3, JoinIs
<1>7. Known(s) = uh /\ Known(Added(s, n)) = ug
  BY <1>4 DEF Known, u, h
<1> HIDE DEF uh, ug
<1> DEFINE a == Len(u)
           b == Len(h)
<1>8. a \in Nat /\ b \in Nat /\ Len(uh) = a + b /\ Len(ug) = a + b + 1 /\ Len(g) = b + 1
  BY <1>1, <1>3, <1>5, <1>6
<1>9. /\ \A i \in 1..a : ug[i] = uh[i]
      /\ \A i \in 1..b : ug[a + i] = uh[a + i]
      /\ ug[a + (b + 1)] = n
  <2> HIDE DEF a, b
  <2>1. Len(u) = a /\ Len(h) = b
    BY DEF a, b
  <2>2. \A i \in 1..a : ug[i] = uh[i]
    BY <1>5, <1>6, <2>1
  <2>3. \A i \in 1..b : i \in 1..Len(g)
    BY <1>8
  <2>4. \A i \in 1..b : ug[a + i] = uh[a + i]
    BY <1>3, <1>5, <1>6, <2>1, <2>3
  <2>5. b + 1 \in 1..Len(g) /\ g[b + 1] = n
    BY <1>3, <1>8, <2>1
  <2>6. ug[a + (b + 1)] = n
    BY <1>6, <2>1, <2>5
  <2> QED
    BY <2>2, <2>4, <2>6
<1> HIDE DEF a, b
<1>10. \A i \in 1..a + b : ug[i] = uh[i]
  <2> SUFFICES ASSUME NEW i \in 1..a + b
               PROVE  ug[i] = uh[i]
    OBVIOUS
  <2>1. CASE i <= a
    BY <1>8, <1>9, <2>1
  <2>2. CASE ~(i <= a)
    <3> DEFINE j == i - a
    <3>1. j \in 1..b /\ a + j = i
      BY <1>8, <2>2
    <3> QED
      BY <1>9, <3>1
  <2> QED
    BY <2>1, <2>2
<1>11. ug[a + b + 1] = n
  <2>1. a + b + 1 = a + (b + 1)
    BY <1>8
  <2> QED
    BY <1>9, <2>1
<1>12. Len(s.history) = b /\ Len(Added(s, n).history) = b + 1 /\ Added(s, n).summary = s.summary
  BY <1>4, <1>8 DEF b, h, u
<1> QED
  BY <1>4, <1>7, <1>8, <1>10, <1>11, <1>12

AnsweredIn(m, k) == {n \in 1..k : m.turns[n].answered}
FailedIn(m, k) == {n \in 1..k : m.turns[n].answered /\ ~m.turns[n].summarised}

\* What is known after k turns.
KnownAt(m, k, s) ==
  /\ s \in Interviews
  /\ \A i \in 1..Len(Known(s)) : Known(s)[i] \in AnsweredIn(m, k)
  /\ \A i, j \in 1..Len(Known(s)) : i < j => Known(s)[i] < Known(s)[j]
  /\ \A n \in AnsweredIn(m, k) :
       \/ \E i \in 1..Len(Known(s)) : Known(s)[i] = n
       \/ Len(s.summary) >= m.capacity /\ \A i \in 1..Len(Known(s)) : n < Known(s)[i]
  /\ Len(s.history) <= m.window + Cardinality(FailedIn(m, k))

\* Forgetting the oldest leaves what is known in order, and the newest.
LEMMA ForgettingKeeps ==
  ASSUME NEW A, A \subseteq Nat, NEW s, NEW t, NEW capacity, NEW drop, Forgets(s, t, drop), Len(Known(s)) \in Nat,
         \A i \in 1..Len(Known(s)) : Known(s)[i] \in A,
         \A i, j \in 1..Len(Known(s)) : i < j => Known(s)[i] < Known(s)[j],
         \A n \in A : \/ \E i \in 1..Len(Known(s)) : Known(s)[i] = n
                      \/ Len(s.summary) >= capacity /\ \A i \in 1..Len(Known(s)) : n < Known(s)[i],
         drop # 0 => Len(t.summary) >= capacity, Len(s.summary) >= capacity => Len(t.summary) >= capacity
  PROVE  /\ \A i \in 1..Len(Known(t)) : Known(t)[i] \in A
         /\ \A i, j \in 1..Len(Known(t)) : i < j => Known(t)[i] < Known(t)[j]
         /\ \A n \in A : \/ \E i \in 1..Len(Known(t)) : Known(t)[i] = n
                         \/ Len(t.summary) >= capacity /\ \A i \in 1..Len(Known(t)) : n < Known(t)[i]
<1> DEFINE x == Known(s)
           y == Known(t)
           a == Len(x)
           b == Len(y)
           full == Len(t.summary) >= capacity
<1>1. /\ a \in Nat /\ drop \in 0..a /\ b = a - drop
      /\ \A i \in 1..b : y[i] = x[drop + i]
  BY DEF Forgets
<1>2. /\ \A i \in 1..a : x[i] \in A
      /\ \A i, j \in 1..a : i < j => x[i] < x[j]
      /\ \A n \in A : (\E i \in 1..a : x[i] = n) \/ (full /\ \A i \in 1..a : n < x[i])
      /\ drop # 0 => full
  OBVIOUS
<1> HIDE DEF x, y, a, b, full
<1>3. \A i \in 1..b : drop + i \in 1..a
  BY <1>1
<1>4. \A i \in 1..b : y[i] \in A
  BY <1>1, <1>2, <1>3
<1>5. \A i, j \in 1..b : i < j => y[i] < y[j]
  <2> SUFFICES ASSUME NEW i \in 1..b, NEW j \in 1..b, i < j
               PROVE  y[i] < y[j]
    OBVIOUS
  <2>1. drop + i \in 1..a /\ drop + j \in 1..a /\ drop + i < drop + j
    BY <1>1, <1>3
  <2>2. x[drop + i] < x[drop + j]
    BY <1>2, <2>1
  <2> QED
    BY <1>1, <2>2
<1>6. ASSUME NEW n \in A
      PROVE  (\E i \in 1..b : y[i] = n) \/ (full /\ \A i \in 1..b : n < y[i])
  <2>1. CASE full /\ \A i \in 1..a : n < x[i]
    BY <1>1, <1>3, <2>1
  <2>2. CASE \E i \in 1..a : x[i] = n
    <3>1. PICK i \in 1..a : x[i] = n
      BY <2>2
    <3>2. CASE i > drop
      <4> DEFINE j == i - drop
      <4>1. j \in 1..b /\ drop + j = i
        BY <1>1, <3>2
      <4> HIDE DEF j
      <4>2. y[j] = n
        BY <1>1, <3>1, <4>1
      <4> QED
        BY <4>1, <4>2
    <3>3. CASE ~(i > drop)
      <4>1. full
        BY <1>1, <1>2, <3>3
      <4>2. ASSUME NEW j \in 1..b
            PROVE  n < y[j]
        <5>1. drop + j \in 1..a /\ i < drop + j
          BY <1>1, <1>3, <3>3
        <5>2. x[i] < x[drop + j]
          BY <1>2, <5>1
        <5> QED
          BY <1>1, <3>1, <5>2
      <4> QED
        BY <4>1, <4>2
    <3> QED
      BY <3>2, <3>3
  <2> QED
    BY <1>2, <2>1, <2>2
<1> QED
  BY <1>4, <1>5, <1>6 DEF x, y, a, b, full

LEMMA TurnKeeps ==
  ASSUME NEW m, OneInterview(m), NEW k \in 1..Len(m.turns), NEW s, KnownAt(m, k - 1, s)
  PROVE  KnownAt(m, k, Ask(s, k, m.turns[k], m.window, m.block, m.capacity))
<1> DEFINE turn == m.turns[k]
           t == Ask(s, k, turn, m.window, m.block, m.capacity)
           A == AnsweredIn(m, k)
           B == AnsweredIn(m, k - 1)
           F == FailedIn(m, k)
           G == FailedIn(m, k - 1)
<1>1. /\ k \in Nat \ {0} /\ turn.answered \in BOOLEAN /\ turn.summarised \in BOOLEAN
      /\ m.window \in Nat /\ m.block \in 1..m.window + 1 /\ m.capacity \in Nat
  <2> DEFINE T == [answered : BOOLEAN, summarised : BOOLEAN]
  <2>1. m.turns \in Seq(T)
    BY DEF OneInterview
  <2> HIDE DEF T
  <2>2. m.turns[k] \in T
    BY <2>1
  <2> QED
    BY <2>2 DEF T, OneInterview
<1>2. 1..k = (1..k - 1) \cup {k} /\ k \notin 1..k - 1
  BY <1>1
<1>3. /\ A = IF turn.answered THEN B \cup {k} ELSE B
      /\ F = IF turn.answered /\ ~turn.summarised THEN G \cup {k} ELSE G
  BY <1>2 DEF AnsweredIn, FailedIn
<1>4. B \subseteq 1..k - 1 /\ G \subseteq 1..k - 1
  BY DEF AnsweredIn, FailedIn
<1>5. /\ Cardinality(G) \in Nat /\ Cardinality(F) \in Nat
      /\ Cardinality(F) = Cardinality(G) + IF turn.answered /\ ~turn.summarised THEN 1 ELSE 0
  <2>1. IsFiniteSet(G) /\ Cardinality(G) \in Nat
    <3> HIDE DEF G
    <3> QED
      BY <1>1, <1>4, BeforeFinite
  <2>2. k \notin G
    BY <1>2, <1>4
  <2> HIDE DEF F, G
  <2>3. Cardinality(G \cup {k}) = Cardinality(G) + 1
    BY <2>1, <2>2, OneMore
  <2> QED
    BY <1>3, <2>1, <2>3
<1>6. /\ s \in Interviews
      /\ \A i \in 1..Len(Known(s)) : Known(s)[i] \in B
      /\ \A i, j \in 1..Len(Known(s)) : i < j => Known(s)[i] < Known(s)[j]
      /\ \A n \in B : \/ \E i \in 1..Len(Known(s)) : Known(s)[i] = n
                      \/ Len(s.summary) >= m.capacity /\ \A i \in 1..Len(Known(s)) : n < Known(s)[i]
      /\ Len(s.history) <= m.window + Cardinality(G)
  BY DEF KnownAt
<1>7. Len(s.history) \in Nat /\ Len(s.summary) \in Nat
  BY <1>6 DEF Interviews
<1>8. CASE ~turn.answered
  <2>1. t = s
    BY <1>8 DEF Ask
  <2>2. A = B /\ Cardinality(F) = Cardinality(G)
    BY <1>3, <1>5, <1>8
  <2> HIDE DEF t, A, B, F, G
  <2>3. KnownAt(m, k, t) <=>
          /\ t \in Interviews
          /\ \A i \in 1..Len(Known(t)) : Known(t)[i] \in A
          /\ \A i, j \in 1..Len(Known(t)) : i < j => Known(t)[i] < Known(t)[j]
          /\ \A n \in A : \/ \E i \in 1..Len(Known(t)) : Known(t)[i] = n
                          \/ Len(t.summary) >= m.capacity /\ \A i \in 1..Len(Known(t)) : n < Known(t)[i]
          /\ Len(t.history) <= m.window + Cardinality(F)
    BY DEF KnownAt, A, F
  <2>4. KnownAt(m, k, t)
    BY <1>6, <2>1, <2>2, <2>3
  <2> QED
    BY <2>4 DEF t
<1>9. CASE turn.answered
  <2> DEFINE r == Added(s, k)
             x == Known(s)
             y == Known(r)
             a == Len(x)
  <2>1. t = Trim(r, turn.summarised, m.window, m.block, m.capacity)
    BY <1>9 DEF Ask, Added
  <2>2. /\ r \in Interviews /\ r.summary = s.summary /\ Len(r.history) = Len(s.history) + 1
        /\ Len(y) = a + 1 /\ a \in Nat
        /\ \A i \in 1..a : y[i] = x[i]
        /\ y[a + 1] = k
    BY <1>1, <1>6, AddedIs
  <2> DEFINE u == Trim(r, turn.summarised, m.window, m.block, m.capacity)
  <2>3. /\ u \in Interviews
        /\ Len(u.history) = IF Len(r.history) <= m.window \/ ~turn.summarised THEN Len(r.history) ELSE Len(r.history) - m.block
        /\ Len(r.summary) >= m.capacity => Len(u.summary) >= m.capacity
        /\ \E drop : Forgets(r, u, drop) /\ (drop # 0 => Len(u.summary) >= m.capacity)
    <3> DEFINE ok == turn.summarised
               window == m.window
               block == m.block
               capacity == m.capacity
    <3>1. window \in Nat /\ block \in 1..window + 1 /\ capacity \in Nat
      BY <1>1
    <3> HIDE DEF r, ok, window, block, capacity, turn
    <3>2. LET v == Trim(r, ok, window, block, capacity) IN
          /\ v \in Interviews
          /\ Len(v.history) = IF Len(r.history) <= window \/ ~ok THEN Len(r.history) ELSE Len(r.history) - block
          /\ Len(r.summary) >= capacity => Len(v.summary) >= capacity
          /\ \E drop : Forgets(r, v, drop) /\ (drop # 0 => Len(v.summary) >= capacity)
      BY <2>2, <3>1, TrimForgets
    <3> QED
      BY <3>2 DEF ok, window, block, capacity
  <2>4. t = u
    BY <2>1
  <2> HIDE DEF t, u, r, A, B, F, G, turn
  <2>5. A = B \cup {k} /\ A \subseteq Nat /\ B \subseteq Nat /\ \A n \in B : n < k
    BY <1>1, <1>3, <1>4, <1>9
  <2>6. /\ \A i \in 1..Len(y) : y[i] \in A
        /\ \A i, j \in 1..Len(y) : i < j => y[i] < y[j]
        /\ \A n \in A : \/ \E i \in 1..Len(y) : y[i] = n
                        \/ Len(r.summary) >= m.capacity /\ \A i \in 1..Len(y) : n < y[i]
    <3> DEFINE full == Len(s.summary) >= m.capacity
    <3>1. /\ \A i \in 1..a : x[i] \in B
          /\ \A i, j \in 1..a : i < j => x[i] < x[j]
          /\ \A n \in B : (\E i \in 1..a : x[i] = n) \/ (full /\ \A i \in 1..a : n < x[i])
      BY <1>6
    <3> HIDE DEF x, y, a, full
    <3>2. Len(y) = a + 1 /\ a \in Nat /\ (\A i \in 1..a : y[i] = x[i]) /\ y[a + 1] = k
      BY <2>2 DEF x, y, a
    <3>3. \A i \in 1..a + 1 : i \in 1..a \/ i = a + 1
      BY <3>2
    <3>4. \A i \in 1..a + 1 : y[i] \in A
      BY <2>5, <3>1, <3>2, <3>3
    <3>5. \A i, j \in 1..a + 1 : i < j => y[i] < y[j]
      <4> SUFFICES ASSUME NEW i \in 1..a + 1, NEW j \in 1..a + 1, i < j
                   PROVE  y[i] < y[j]
        OBVIOUS
      <4>1. i \in 1..a
        BY <3>2
      <4>2. CASE j \in 1..a
        BY <3>1, <3>2, <4>1, <4>2
      <4>3. CASE j = a + 1
        BY <2>5, <3>1, <3>2, <4>1, <4>3
      <4> QED
        BY <3>3, <4>2, <4>3
    <3>6. \A n \in A : (\E i \in 1..a + 1 : y[i] = n) \/ (full /\ \A i \in 1..a + 1 : n < y[i])
      <4> SUFFICES ASSUME NEW n \in A
                   PROVE  (\E i \in 1..a + 1 : y[i] = n) \/ (full /\ \A i \in 1..a + 1 : n < y[i])
        OBVIOUS
      <4>1. CASE n = k
        <5>1. a + 1 \in 1..a + 1
          BY <3>2
        <5> QED
          BY <3>2, <4>1, <5>1
      <4>2. CASE \E i \in 1..a : x[i] = n
        <5>1. \A i \in 1..a : i \in 1..a + 1
          BY <3>2
        <5> QED
          BY <3>2, <4>2, <5>1
      <4>3. CASE n \in B /\ full /\ \A i \in 1..a : n < x[i]
        BY <2>5, <3>2, <3>3, <4>3
      <4> QED
        BY <2>5, <3>1, <4>1, <4>2, <4>3
    <3> QED
      BY <2>2, <3>2, <3>4, <3>5, <3>6 DEF full
  <2>7. PICK drop : Forgets(r, u, drop) /\ (drop # 0 => Len(u.summary) >= m.capacity)
    BY <2>3
  <2>8. /\ \A i \in 1..Len(Known(u)) : Known(u)[i] \in A
        /\ \A i, j \in 1..Len(Known(u)) : i < j => Known(u)[i] < Known(u)[j]
        /\ \A n \in A : \/ \E i \in 1..Len(Known(u)) : Known(u)[i] = n
                        \/ Len(u.summary) >= m.capacity /\ \A i \in 1..Len(Known(u)) : n < Known(u)[i]
    <3> DEFINE capacity == m.capacity
    <3>1. Len(Known(r)) \in Nat
      BY <2>2
    <3>2. /\ \A i \in 1..Len(Known(r)) : Known(r)[i] \in A
          /\ \A i, j \in 1..Len(Known(r)) : i < j => Known(r)[i] < Known(r)[j]
          /\ \A n \in A : \/ \E i \in 1..Len(Known(r)) : Known(r)[i] = n
                          \/ Len(r.summary) >= capacity /\ \A i \in 1..Len(Known(r)) : n < Known(r)[i]
      BY <2>6
    <3>3. (drop # 0 => Len(u.summary) >= capacity) /\ (Len(r.summary) >= capacity => Len(u.summary) >= capacity)
      BY <2>3, <2>7
    <3> HIDE DEF capacity
    <3>4. /\ \A i \in 1..Len(Known(u)) : Known(u)[i] \in A
          /\ \A i, j \in 1..Len(Known(u)) : i < j => Known(u)[i] < Known(u)[j]
          /\ \A n \in A : \/ \E i \in 1..Len(Known(u)) : Known(u)[i] = n
                          \/ Len(u.summary) >= capacity /\ \A i \in 1..Len(Known(u)) : n < Known(u)[i]
      BY ONLY <2>5, <2>7, <3>1, <3>2, <3>3, ForgettingKeeps
    <3> QED
      BY <3>4 DEF capacity
  <2>9. Len(u.history) <= m.window + Cardinality(F)
    <3> DEFINE before == Len(s.history)
               added == Len(r.history)
               after == Len(u.history)
               f == Cardinality(F)
               g == Cardinality(G)
               w == m.window
    <3>1. before \in Nat /\ before <= w + g /\ added = before + 1 /\ f \in Nat /\ g \in Nat /\ w \in Nat
      BY <1>1, <1>5, <1>6, <1>7, <2>2
    <3>2. CASE turn.summarised
      <4>1. f = g /\ after = IF added <= w THEN added ELSE added - m.block
        BY <1>5, <2>3, <3>2
      <4> HIDE DEF before, added, after, f, g, w
      <4>2. m.block \in Nat \ {0}
        BY <1>1
      <4>3. after <= w + f
        BY <3>1, <4>1, <4>2
      <4> QED
        BY <4>3 DEF after, f, w
    <3>3. CASE ~turn.summarised
      <4>1. f = g + 1 /\ after = added
        BY <1>5, <1>9, <2>3, <3>3
      <4> HIDE DEF before, added, after, f, g, w
      <4>2. after <= w + f
        BY <3>1, <4>1
      <4> QED
        BY <4>2 DEF after, f, w
    <3> QED
      BY <3>2, <3>3
  <2>10. KnownAt(m, k, u)
    BY <2>3, <2>8, <2>9 DEF KnownAt, A, F
  <2> QED
    BY <2>4, <2>10 DEF t, turn
<1> QED
  BY <1>1, <1>8, <1>9

LEMMA AskIs ==
  ASSUME NEW s \in Interviews, NEW n \in Nat, NEW turn,
         NEW window \in Nat, NEW block \in 1..window + 1, NEW capacity \in Nat
  PROVE  Ask(s, n, turn, window, block, capacity) \in Interviews
<1>1. CASE ~turn.answered
  BY <1>1 DEF Ask
<1>2. CASE turn.answered
  <2> DEFINE r == Added(s, n)
             ok == turn.summarised
  <2>1. r \in Interviews
    BY AddedIs
  <2>2. Ask(s, n, turn, window, block, capacity) = Trim(r, ok, window, block, capacity)
    BY <1>2 DEF Ask, Added
  <2> HIDE DEF r, ok
  <2>3. Trim(r, ok, window, block, capacity) \in Interviews
    BY <2>1, TrimForgets
  <2> QED
    BY <2>2, <2>3
<1> QED
  BY <1>1, <1>2

LEMMA ConversationKeeps ==
  ASSUME NEW m, OneInterview(m)
  PROVE  KnownAt(m, Len(m.turns), Conversation(m.turns, m.window, m.block, m.capacity))
<1> DEFINE n == Len(m.turns)
           V == Interviews
           seq == [k \in 1..n |-> k]
           One(s, k) == Ask(s, k, m.turns[k], m.window, m.block, m.capacity)
           next == [k \in 1..n |-> [v \in V |-> One(v, k)]]
           Step(h) == [s \in SUBSET (1..n) |-> IF s = {} THEN NewInterview ELSE One(h[s \ {Max(s)}], seq[Max(s)])]
           call == CHOOSE h : h = Step(h)
<1>1. n \in Nat /\ m.window \in Nat /\ m.block \in 1..m.window + 1 /\ m.capacity \in Nat
  BY DEF OneInterview
<1>2. FoldParts(n, V, NewInterview, next)
  <2>1. NewInterview \in V
    BY DEF NewInterview, Interviews
  <2>2. ASSUME NEW k \in 1..n, NEW v \in V
        PROVE  One(v, k) \in V
    <3> DEFINE turn == m.turns[k]
               window == m.window
               block == m.block
               capacity == m.capacity
    <3>1. window \in Nat /\ block \in 1..window + 1 /\ capacity \in Nat /\ k \in Nat
      BY <1>1
    <3> HIDE DEF turn, window, block, capacity
    <3>2. Ask(v, k, turn, window, block, capacity) \in Interviews
      BY <3>1, AskIs
    <3> QED
      BY <3>2 DEF turn, window, block, capacity
  <2> HIDE DEF V, One, n
  <2>3. next \in [1..n -> [V -> V]]
    BY <2>2
  <2> HIDE DEF next
  <2> QED
    BY <1>1, <2>1, <2>3 DEF FoldParts
<1>3. \A s \in SUBSET (1..n) : s # {} => Max(s) \in 1..n
  <2> HIDE DEF n
  <2>1. \A s \in SUBSET (1..n) : s # {} => Max(s) \in s
    BY <1>1, GreatestOf
  <2> QED
    BY <2>1
<1>4. \A s \in SUBSET (1..n), v \in V : s # {} => next[Max(s)][v] = One(v, seq[Max(s)])
  <2> HIDE DEF n, V, One
  <2> QED
    BY <1>3
<1>5. PICK g : FoldOf(n, V, NewInterview, next, g)
  <2> HIDE DEF n, V, next
  <2> QED
    BY ONLY <1>2, FoldExists
<1>6. g = Step(g)
  <2> HIDE DEF n, V, next, seq, One
  <2>1. ASSUME NEW s \in SUBSET (1..n)
        PROVE  g[s] = IF s = {} THEN NewInterview ELSE One(g[s \ {Max(s)}], seq[Max(s)])
    <3>1. g[s \ {Max(s)}] \in V
      BY <1>5 DEF FoldOf
    <3> QED
      BY <1>4, <1>5, <3>1 DEF FoldOf
  <2> QED
    BY <1>5, <2>1 DEF FoldOf
<1>7. call = Step(call)
  <2> HIDE DEF Step
  <2> QED
    BY <1>6
<1>8. Conversation(m.turns, m.window, m.block, m.capacity) = call[1..n]
  <2>1. DOMAIN seq = 1..n
    OBVIOUS
  <2> QED
    BY <2>1 DEF Conversation, FoldLeft, MapThenFoldSet
<1> HIDE DEF call
<1>9. Folds(n, V, NewInterview, next, call)
  <2> HIDE DEF n, V, next, seq, One
  <2> QED
    BY <1>4, <1>7 DEF Folds
<1>10. PICK c : Runs(n, V, NewInterview, next, c) /\ c[n] = call[1..n]
  <2> HIDE DEF n, V, next, Step
  <2> QED
    BY ONLY <1>2, <1>9, FoldRuns
<1>11. c[0] = NewInterview /\ \A k \in 1..n : c[k] = One(c[k - 1], k)
  <2>1. c \in [0..n -> V] /\ c[0] = NewInterview /\ \A k \in 1..n : c[k] = next[k][c[k - 1]]
    <3> HIDE DEF n, V, next
    <3> QED
      BY <1>10 DEF Runs
  <2>2. \A k \in 1..n : c[k - 1] \in V
    <3> HIDE DEF V, n, next
    <3> QED
      BY <1>1, <2>1
  <2>3. \A k \in 1..n, v \in V : next[k][v] = One(v, k)
    <3> HIDE DEF V, n, One
    <3> QED
      OBVIOUS
  <2> HIDE DEF next, V, n, One
  <2> QED
    BY <2>1, <2>2, <2>3
<1>12. KnownAt(m, 0, c[0])
  <2>1. Known(NewInterview) = <<>>
    BY DEF Known, NewInterview
  <2>2. NewInterview \in Interviews /\ NewInterview.history = <<>>
    BY DEF NewInterview, Interviews
  <2>3. AnsweredIn(m, 0) = {} /\ FailedIn(m, 0) = {}
    BY DEF AnsweredIn, FailedIn
  <2>4. Cardinality({}) = 0
    BY FS_EmptySet
  <2>5. Len(NewInterview.history) <= m.window + Cardinality(FailedIn(m, 0))
    <3> DEFINE told == Len(NewInterview.history)
               lost == Cardinality(FailedIn(m, 0))
               window == m.window
    <3>1. told = 0
      BY ONLY <2>2
    <3>2. lost = 0
      BY ONLY <2>3, <2>4
    <3>3. window \in Nat
      BY <1>1
    <3> HIDE DEF told, lost, window
    <3>4. told <= window + lost
      BY ONLY <3>1, <3>2, <3>3
    <3> QED
      BY <3>4 DEF told, lost, window
  <2>6. Len(Known(NewInterview)) = 0
    BY <2>1
  <2> QED
    BY <1>11, <2>2, <2>3, <2>5, <2>6 DEF KnownAt
<1>13. \A k \in 1..n : KnownAt(m, k - 1, c[k - 1]) => KnownAt(m, k, c[k])
  BY <1>11, TurnKeeps
<1> HIDE DEF n
<1>14. \A k \in 0..n : KnownAt(m, k, c[k])
  <2> DEFINE Right(k) == KnownAt(m, k, c[k])
             Bad == {k \in 0..n : ~Right(k)}
             least == Min(Bad)
  <2> SUFFICES ASSUME Bad # {}
               PROVE  FALSE
    OBVIOUS
  <2>1. Bad \subseteq Nat
    OBVIOUS
  <2>2. least \in Bad /\ \A k \in Bad : least <= k
    <3> HIDE DEF Bad
    <3> QED
      BY <2>1, LeastOf
  <2> HIDE DEF least
  <2>3. Right(0) /\ \A k \in 1..n : Right(k - 1) => Right(k)
    BY <1>12, <1>13
  <2> HIDE DEF Right
  <2>4. least \in 1..n /\ least - 1 \in 0..n
    BY <1>1, <2>2, <2>3
  <2>5. least - 1 \notin Bad
    BY <2>2, <2>4
  <2> QED
    BY <2>2, <2>3, <2>4, <2>5
<1> QED
  BY <1>1, <1>8, <1>10, <1>14 DEF n

LEMMA InterviewKeeps ==
  ASSUME NEW m, OneInterview(m)
  PROVE  ExchangesAreKept(m)
<1> DEFINE s == Conversation(m.turns, m.window, m.block, m.capacity)
           known == s.summary \o s.history
           answered == {n \in DOMAIN m.turns : m.turns[n].answered}
           failed == {n \in answered : ~m.turns[n].summarised}
<1>1. KnownAt(m, Len(m.turns), s)
  BY ConversationKeeps
<1>2. DOMAIN m.turns = 1..Len(m.turns)
  BY DEF OneInterview
<1>3. answered = AnsweredIn(m, Len(m.turns)) /\ failed = FailedIn(m, Len(m.turns))
  BY <1>2 DEF AnsweredIn, FailedIn
<1> HIDE DEF s
<1>4. known = Known(s) /\ s \in Interviews
  BY <1>1 DEF Known, KnownAt
<1>5. known \in Seq(Nat) /\ DOMAIN known = 1..Len(known) /\ Range(known) = {known[i] : i \in DOMAIN known}
  <2>1. s.summary \in Seq(Nat) /\ s.history \in Seq(Nat)
    BY <1>4 DEF Interviews
  <2>2. known \in Seq(Nat)
    BY <2>1, JoinIs
  <2> HIDE DEF known
  <2> QED
    BY <2>2 DEF Range
<1> HIDE DEF known, answered, failed
<1>6. /\ \A i \in DOMAIN known : known[i] \in answered
      /\ \A i, j \in DOMAIN known : i < j => known[i] < known[j]
      /\ \A n \in answered : \/ \E i \in DOMAIN known : known[i] = n
                             \/ Len(s.summary) >= m.capacity /\ \A i \in DOMAIN known : n < known[i]
      /\ Len(s.history) <= m.window + Cardinality(failed)
  BY <1>1, <1>3, <1>4, <1>5 DEF KnownAt
<1>7. /\ Range(known) \subseteq answered
      /\ \A i, j \in DOMAIN known : i < j => known[i] < known[j]
      /\ \A n \in answered \ Range(known) : Len(s.summary) >= m.capacity /\ \A i \in DOMAIN known : n < known[i]
      /\ Len(s.history) <= m.window + Cardinality(failed)
  BY <1>5, <1>6
<1> QED
  BY <1>7 DEF ExchangesAreKept, s, known, answered, failed

-----------------------------------------------------------------------------
\* Whatever is said around an object in a reply, with braces and quotes in its
\* strings, it is found first and whole (structured.py:64); whatever a reply is,
\* both parsers give it the same tier (parsing.py:45); chat_structured ends with
\* the first reply of any number that is understood (structured.py:134); and an
\* interview of any length, with any window and block, keeps the newest answered
\* exchanges in their order, and all of them while its summary has room
\* (interview.py:283).
THEOREM AnswersAreRemembered ==
  ASSUME Given("quotes") => OneText(input),
         Given("reply") => OneReply(input),
         Given("replies") => SomeTries(input),
         Given("interview") => OneInterview(input)
  PROVE  AnswersAreKept
BY ObjectsAreFound, RepliesAgree, FirstGoodReply, InterviewKeeps
   DEF AnswersAreKept, RepliesAreUnderstood, InterviewRemembers

=============================================================================
