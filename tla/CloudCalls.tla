------------------------------ MODULE CloudCalls ------------------------------
(***************************************************************************)
(* The worker calls of a run to an OpenAI-compatible endpoint: the permits *)
(* of the controller, the budget meter around the provider                 *)
(* (inference/budget.py) and the provider's own loop of retries, schema    *)
(* downgrade and seed fallback (inference/openai_provider.py).             *)
(*                                                                         *)
(* One provider serves all callers.  What one call learns about the        *)
(* endpoint is kept in the provider's two flags, while the requests that   *)
(* are under way were built before.                                        *)
(***************************************************************************)
EXTENDS Integers, FiniteSets

CONSTANTS
  Callers,      \* personas of a wave
  MaxInFlight,  \* ProviderLimits.max_in_flight
  MaxRetries,   \* ProviderLimits.max_retries
  Cap,          \* spend_cap_usd, in units of cost
  MaxCost,      \* what one answer may cost
  MaxCalls      \* bound: calls of one persona

ASSUME CloudAssumption ==
  /\ IsFiniteSet(Callers)
  /\ MaxInFlight \in Nat \ {0}
  /\ MaxRetries \in Nat
  /\ Cap \in Nat /\ MaxCost \in Nat \ {0}
  /\ MaxCalls \in Nat

\* What an endpoint may or may not accept.
Features == {"key", "model", "schema", "object", "seed"}

\* No call makes more requests: two rounds of tries and one downgrade.
MaxRequests == 2 * (MaxRetries + 1) + 1

VARIABLES
  accepts,    \* what this endpoint accepts
  noStrict,   \* OpenAICompatProvider._no_strict
  sendSeed,   \* OpenAICompatProvider._send_seed
  spent,      \* BudgetMeter._total
  charged,    \* what the vendor charged for the answers that arrived
  at,         \* where each caller is
  body,       \* the request it sends: response_format and seed
  retries,    \* the retries of its current loop
  requests,   \* the requests of its call so far
  result,     \* how its last call ended
  made        \* the calls it has made

provider == <<noStrict, sendSeed>>
money == <<spent, charged>>
vars == <<accepts, provider, money, at, body, retries, requests, result, made>>

InFlight == {c \in Callers : at[c] # "idle"}

\* A caller without a call.
NoBody == [format |-> "schema", seed |-> FALSE]

-----------------------------------------------------------------------------
Init ==
  /\ accepts \in SUBSET Features
  /\ noStrict = FALSE /\ sendSeed = TRUE
  /\ spent = 0 /\ charged = 0
  /\ at = [c \in Callers |-> "idle"]
  /\ body = [c \in Callers |-> NoBody]
  /\ retries = [c \in Callers |-> 0] /\ requests = [c \in Callers |-> 0]
  /\ result = [c \in Callers |-> "none"] /\ made = [c \in Callers |-> 0]

\* client.post: one more request is under way.
Post(c) ==
  /\ at' = [at EXCEPT ![c] = "posting"]
  /\ requests' = [requests EXCEPT ![c] = IF @ > MaxRequests THEN @ ELSE @ + 1]

\* The call returns or raises, its locals go, and its permit goes back.
Ends(c, how) ==
  /\ at' = [at EXCEPT ![c] = "idle"]
  /\ result' = [result EXCEPT ![c] = how]
  /\ body' = [body EXCEPT ![c] = NoBody]
  /\ retries' = [retries EXCEPT ![c] = 0]
  /\ requests' = [requests EXCEPT ![c] = 0]

\* A caller gets its permit; BudgetTrackingProvider.chat asks the meter; chat
\* builds the body from the flags as they are now.
Begin(c, seeded) ==
  /\ at[c] = "idle" /\ made[c] < MaxCalls
  /\ Cardinality(InFlight) < MaxInFlight
  /\ made' = [made EXCEPT ![c] = @ + 1]
  /\ IF spent >= Cap
     THEN Ends(c, "budget")
     ELSE /\ at' = [at EXCEPT ![c] = "posting"]
          /\ requests' = [requests EXCEPT ![c] = 1]
          /\ body' = [body EXCEPT ![c] = [format |-> IF noStrict THEN "object" ELSE "schema",
                                          seed |-> seeded /\ sendSeed]]
          /\ UNCHANGED <<retries, result>>
  /\ UNCHANGED <<accepts, provider, money>>

-----------------------------------------------------------------------------
(* Answers. *)

\* The parts of a request that this endpoint refuses.
Refusable(b) ==
  ({b.format} \cup (IF b.seed THEN {"seed"} ELSE {})) \ accepts

Served(c) ==
  /\ at[c] = "posting"
  /\ {"key", "model"} \subseteq accepts
  /\ Refusable(body[c]) = {}

\* A 200 that can be used.
Succeeds(c, cost) ==
  /\ Served(c)
  /\ charged' = charged + cost
  /\ spent' = spent + cost
  /\ Ends(c, "ok")
  /\ UNCHANGED <<accepts, provider, made>>

\* Bug: an answer that cannot be used is not booked.
UnusableUnbooked(c, cost) ==
  /\ Served(c)
  /\ charged' = charged + cost
  /\ Ends(c, "error")
  /\ UNCHANGED <<accepts, provider, spent, made>>

\* A 200 that cannot be used: the error carries the tokens to the meter.
Unusable(c, cost) ==
  /\ Served(c)
  /\ charged' = charged + cost
  /\ spent' = spent + cost
  /\ Ends(c, "error")
  /\ UNCHANGED <<accepts, provider, made>>

\* 408, 409, 429, 5xx and connection errors.
Busy(c) ==
  /\ at[c] = "posting"
  /\ IF retries[c] < MaxRetries
     THEN /\ at' = [at EXCEPT ![c] = "pausing"]
          /\ UNCHANGED <<body, retries, requests, result>>
     ELSE Ends(c, "error")
  /\ UNCHANGED <<accepts, provider, money, made>>

\* Bug: a retry waits for a permit besides the one its caller holds.
ResumeWithPermit(c) ==
  /\ at[c] = "pausing"
  /\ Cardinality(InFlight) < MaxInFlight
  /\ retries' = [retries EXCEPT ![c] = @ + 1]
  /\ Post(c)
  /\ UNCHANGED <<accepts, provider, money, body, result, made>>

\* The wait before a retry is over.
Resume(c) ==
  /\ at[c] = "pausing"
  /\ retries' = [retries EXCEPT ![c] = @ + 1]
  /\ Post(c)
  /\ UNCHANGED <<accepts, provider, money, body, result, made>>

\* A timeout, or a status that concerns this prompt alone.
Fails(c) ==
  /\ at[c] = "posting"
  /\ Ends(c, "error")
  /\ UNCHANGED <<accepts, provider, money, made>>

\* 401 and 403; 400, 404 and 422 for the wrong model or URL.
Misconfigured(c) ==
  /\ at[c] = "posting"
  /\ \/ "key" \notin accepts /\ Ends(c, "auth")
     \/ "model" \notin accepts /\ Ends(c, "config")
  /\ UNCHANGED <<accepts, provider, money, made>>

\* Bug: the error about the seed is raised like any other.
RaisePlainly(c, how, names) ==
  /\ Ends(c, how)
  /\ UNCHANGED sendSeed

\* _post_seeded: an error that names the seed is answered by one more round of
\* tries without it; any other error leaves the call.
Raise(c, how, names) ==
  IF body[c].seed /\ "seed" \in names
  THEN /\ sendSeed' = FALSE
       /\ body' = [body EXCEPT ![c].seed = FALSE]
       /\ retries' = [retries EXCEPT ![c] = 0]
       /\ Post(c)
       /\ UNCHANGED result
  ELSE /\ Ends(c, how)
       /\ UNCHANGED sendSeed

\* The schema is given up for json_object, for this call and all that follow.
Downgrade(c) ==
  /\ noStrict' = TRUE
  /\ body' = [body EXCEPT ![c].format = "object"]
  /\ Post(c)
  /\ UNCHANGED <<sendSeed, retries, result>>

\* A refusal with the parts that its text names.  Only a 400 is looked at for
\* the response format, and only the provider's flag says whether it is new.
Refused(c, status, names) ==
  /\ at[c] = "posting" /\ "key" \in accepts
  /\ names \subseteq Refusable(body[c]) /\ names # {}
  /\ IF status = 400 /\ body[c].format \in names
     THEN IF noStrict
          THEN Raise(c, "schema", names) /\ UNCHANGED noStrict
          ELSE Downgrade(c)
     ELSE Raise(c, "config", names) /\ UNCHANGED noStrict
  /\ UNCHANGED <<accepts, money, made>>

\* A Stop, or a sibling's hard stop.
Cancel(c) ==
  /\ at[c] # "idle"
  /\ Ends(c, "cancelled")
  /\ UNCHANGED <<accepts, provider, money, made>>

-----------------------------------------------------------------------------
Answer(c) ==
  \/ \E cost \in 0..MaxCost : Succeeds(c, cost) \/ Unusable(c, cost)
  \/ Busy(c) \/ Fails(c) \/ Misconfigured(c)
  \/ \E status \in {400, 422} : \E names \in SUBSET {"schema", "object", "seed"} :
       Refused(c, status, names)

Next ==
  \E c \in Callers :
    \/ \E seeded \in BOOLEAN : Begin(c, seeded)
    \/ Answer(c) \/ Resume(c) \/ Cancel(c)

Spec == Init /\ [][Next]_vars

\* Every request is answered or times out, and every pause ends.
FairSpec == Spec /\ \A c \in Callers : WF_vars(Answer(c)) /\ WF_vars(Resume(c))

-----------------------------------------------------------------------------
(* Properties. *)

TypeOK ==
  /\ accepts \in SUBSET Features
  /\ noStrict \in BOOLEAN /\ sendSeed \in BOOLEAN
  /\ spent \in Nat /\ charged \in Nat
  /\ at \in [Callers -> {"idle", "posting", "pausing"}]
  /\ body \in [Callers -> [format : {"schema", "object"}, seed : BOOLEAN]]
  /\ retries \in [Callers -> 0..MaxRetries]
  /\ requests \in [Callers -> Nat]
  /\ result \in [Callers -> {"none", "ok", "error", "schema", "config", "auth",
                             "budget", "cancelled"}]
  /\ made \in [Callers -> 0..MaxCalls]

\* What the vendor charges for its answers passes the cap by less than
\* max_in_flight calls, whatever is retried or unusable (budget.py:408).
CapHolds == charged < Cap + MaxInFlight * MaxCost

\* One downgrade, one seed fallback, and max_retries in each round of tries: no
\* answers of the endpoint make a call send more (openai_provider.py:329).
RequestsBounded == \A c \in Callers : requests[c] <= MaxRequests

\* An endpoint that only refuses the seed never stops a run; it degrades to
\* "unseeded" (openai_provider.py:284).
SeedNeverStopsRun ==
  Features \ {"seed"} \subseteq accepts => \A c \in Callers : result[c] # "config"

\* What an endpoint refuses costs a bounded number of requests and, if it can be
\* left out, never the run (openai_provider.py:277-290, :329-401).
RefusalsAreBounded == RequestsBounded /\ SeedNeverStopsRun

\* Every call ends, whatever the endpoint answers.
EveryCallEnds == \A c \in Callers : at[c] # "idle" ~> at[c] = "idle"

\* openai_provider.py:339: a 400 naming the schema "downgrades once to
\* json_object"; where that is accepted, no call fails for its schema.
DowngradeSavesTheCall ==
  Features \ {"schema", "seed"} \subseteq accepts =>
    \A c \in Callers : result[c] # "schema"
=============================================================================
