-------------------------- MODULE RateLimitHistory --------------------------
(***************************************************************************)
(* The controller with two ledgers: what the quotas have granted so far    *)
(* minus what was used.  A ledger saturates at more than the run can use.  *)
(***************************************************************************)
EXTENDS RateLimit

\* No call reports more than the longest context window holds.
ASSUME CostsAssumption == \E n \in Costs : \A m \in Costs : m <= n

VARIABLES
  requests,  \* RpmCap, plus RpmRate per tick, minus the requests sent
  tokens     \* TpmCap, plus TpmRate per tick, minus the tokens spent

hvars == <<vars, requests, tokens>>

MaxCost == CHOOSE n \in Costs : \A m \in Costs : m <= n
AllRequests == Calls * Cardinality(Callers) * (MaxRetries + 1)
AllTokens == Calls * Cardinality(Callers) * AtLeast(MaxCost, AvgTokens)

\* A request leaves when its caller starts to call, or calls again at once.
Sent ==
  {c \in Callers : place'[c] = "calling" /\ (place[c] # "calling" \/ retries'[c] # retries[c])}

HInit == Init /\ requests = AtMost(RpmCap, AllRequests) /\ tokens = AtMost(TpmCap, AllTokens)

HTick ==
  /\ Tick
  /\ requests' = AtMost(requests + RpmRate, AllRequests)
  /\ tokens' = AtMost(tokens + TpmRate, AllTokens)

\* What the vendor counts: the reported cost, or the estimate when the call
\* ended without a report (answered or cancelled); a failed call costs nothing.
HCall(c) ==
  /\ \/ \E cost \in Costs : Succeed(c, cost) /\ tokens' = tokens - cost
     \/ (SucceedUnreported(c) \/ CancelCalling(c)) /\ tokens' = tokens - AvgTokens
     \/ /\ \/ Enter(c) \/ Resume(c) \/ Wake(c) \/ Retry(c) \/ RateLimited(c)
           \/ Fail(c) \/ CancelWaiting(c) \/ CancelAcquiring(c)
        /\ UNCHANGED tokens
  /\ requests' = requests - Cardinality(Sent)

HNext ==
  \/ \E c \in Callers : HCall(c)
  \/ HTick
  \/ ReportFailures /\ UNCHANGED <<requests, tokens>>

HSpec == HInit /\ [][HNext]_hvars

\* The ledgers follow every step, so the fairness is RateLimit's.
HFairSpec == HSpec /\ Fairness

\* The requests sent since the start never exceed one minute's quota plus what
\* the elapsed time has earned, retries included and whoever gives tokens back;
\* and the tokens spent exceed what was earned by no more than the misestimate
\* of the calls that are in flight together (rate_limit.py:86, rate_limit.py:395).
QuotasKept ==
  /\ requests >= 0
  /\ tokens >= 0 - MaxInFlight * AtLeast(0, MaxCost - AvgTokens)
=============================================================================
