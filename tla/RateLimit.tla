----------------------------- MODULE RateLimit -----------------------------
(***************************************************************************)
(* RateLimitController (src/alphaswarm/inference/rate_limit.py), the       *)
(* concurrency controller of a cloud worker: an in-flight cap that only    *)
(* shrinks, RPM and TPM token buckets, one shared cooldown after a 429 and *)
(* the retry gate (inference/retry.py).  Its callers are the agents of     *)
(* dispatch_wave (batch_dispatcher.py, worker.py agent_worker).  As in     *)
(* tests/inference/test_rate_limit.py:478-517, a wave's failures may be    *)
(* reported while callers hold permits, and any caller may be cancelled    *)
(* alone; a run's consecutive waves and its Stop are special cases.        *)
(*                                                                         *)
(* One action is what the event loop runs between two awaits; an await on  *)
(* a free semaphore does not suspend.  A bucket refills by a whole number  *)
(* of tokens per tick; refilling at each tick or lazily at the next use    *)
(* gives the same level, since the ceiling is applied by every refill.     *)
(***************************************************************************)
EXTENDS Integers, Sequences, FiniteSets

CONSTANTS
  Callers,      \* the agents
  MaxInFlight,  \* max_in_flight
  MinInFlight,  \* min_in_flight
  RpmCap, RpmRate,  \* requests_per_min, and its share of one tick
  TpmCap, TpmRate,  \* tokens_per_min, and its share of one tick
  AvgTokens,    \* avg_tokens_per_call
  Costs,        \* the token counts a call may report
  Cooldowns,    \* the delays a 429 may ask for, in ticks
  MaxRetries,   \* max_retries of the provider
  Calls         \* bound of the model: calls of one agent in a controller's life

ASSUME CallersAssumption == IsFiniteSet(Callers)
ASSUME SlotsAssumption ==
  /\ MinInFlight \in Nat \ {0}
  /\ MaxInFlight \in Nat
  /\ MinInFlight <= MaxInFlight
ASSUME BucketAssumption ==
  /\ {RpmCap, RpmRate, TpmCap, TpmRate, AvgTokens} \subseteq Nat \ {0}
  /\ Costs \subseteq Nat
ASSUME RetryAssumption == Cooldowns \subseteq Nat /\ MaxRetries \in Nat /\ Calls \in Nat

VARIABLES
  sem,       \* _semaphore: free permits, waiters in order, waiters granted a permit
  drained,   \* permits held back for good by a shrink
  pending,   \* _shrink_pending
  target,    \* _target_slots
  inFlight,  \* _in_flight
  rpm, tpm,  \* the levels of the two buckets
  cooldown,  \* ticks until _cooldown_until
  place,     \* where each caller is
  sleep,     \* ticks left of the caller's _pause
  retries,   \* retries its call has used
  calls      \* calls of acquire() it has begun

slots   == <<sem, drained, pending, inFlight>>
buckets == <<rpm, tpm>>
vars == <<sem, drained, pending, target, inFlight, rpm, tpm, cooldown, place,
          sleep, retries, calls>>

\* drain: waits for the permit of a shrink; slot: waits for its own permit;
\* cooling, pacing: in acquire() with a permit; calling: a request is out;
\* recooling, repacing: in before_retry().
Places == {"out", "drain", "slot", "cooling", "pacing", "calling", "recooling", "repacing"}
Waiting == {"drain", "slot"}
InAcquire == {"cooling", "pacing"}
InCall == {"calling", "recooling", "repacing"}

AtMost(a, b) == IF a <= b THEN a ELSE b
AtLeast(a, b) == IF a >= b THEN a ELSE b

----------------------------------------------------------------------------
(* asyncio.Semaphore: a release hands its permit to the first waiter, which *)
(* owns it before it runs again; newcomers queue behind anyone not yet run. *)

Locked(s) == s.free = 0 \/ s.queue # << >> \/ s.granted # {}

\* As many waiters as there are free permits get one.
Settle(s) ==
  LET n == AtMost(s.free, Len(s.queue))
  IN  [free    |-> s.free - n,
       queue   |-> SubSeq(s.queue, n + 1, Len(s.queue)),
       granted |-> s.granted \cup {s.queue[i] : i \in 1..n}]

TakePermit(s) == [s EXCEPT !.free = @ - 1]
ReturnPermit(s) == Settle([s EXCEPT !.free = @ + 1])
Enqueue(s, c) == [s EXCEPT !.queue = Append(@, c)]
Resumed(s, c) == Settle([s EXCEPT !.granted = @ \ {c}])

\* The queue that c has left.
Without(queue, c) ==
  LET i == CHOOSE j \in DOMAIN queue : queue[j] = c
  IN  SubSeq(queue, 1, i - 1) \o SubSeq(queue, i + 1, Len(queue))

\* A cancelled waiter leaves, and gives back a permit it had been granted.
Withdraw(s, c) ==
  IF c \in s.granted THEN ReturnPermit([s EXCEPT !.granted = @ \ {c}])
  ELSE Settle([s EXCEPT !.queue = Without(@, c)])

----------------------------------------------------------------------------
(* TokenBucket: reserve() may go into deficit, refund() above the capacity; *)
(* both apply the ceiling first (_refill).                                  *)

Reserve(level, cap, n) == AtMost(cap, level) - n
Refund(level, cap, n) == AtMost(cap, level) + n
WaitFor(level, rate) == IF level >= 0 THEN 0 ELSE (rate - 1 - level) \div rate
Refill(level, cap, rate) == AtMost(cap, level + rate)

----------------------------------------------------------------------------
Init ==
  /\ sem = [free |-> MaxInFlight, queue |-> << >>, granted |-> {}]
  /\ drained = 0
  /\ pending = 0
  /\ target = MaxInFlight
  /\ inFlight = 0
  /\ rpm = RpmCap
  /\ tpm = TpmCap
  /\ cooldown = 0
  /\ place = [c \in Callers |-> "out"]
  /\ sleep = [c \in Callers |-> 0]
  /\ retries = [c \in Callers |-> 0]
  /\ calls = [c \in Callers |-> 0]

GoTo(c, p, ticks) ==
  /\ place' = [place EXCEPT ![c] = p]
  /\ sleep' = [sleep EXCEPT ![c] = ticks]

\* Bug: the cooldown is not looked at again after it was slept out.
PaceAtOnce(c) ==
  /\ rpm' = Reserve(rpm, RpmCap, 1)
  /\ tpm' = Reserve(tpm, TpmCap, AvgTokens)
  /\ LET wait == AtLeast(WaitFor(rpm', RpmRate), WaitFor(tpm', TpmRate))
     IN  GoTo(c, IF wait > 0 THEN "pacing" ELSE "calling", wait)

\* The rest of acquire() once a permit is held: _wait_for_cooldown, whose loop
\* looks again after every sleep, then the two reservations and one sleep.
Pace(c) ==
  \/ /\ cooldown > 0
     /\ GoTo(c, "cooling", cooldown)
     /\ UNCHANGED buckets
  \/ /\ cooldown = 0
     /\ rpm' = Reserve(rpm, RpmCap, 1)
     /\ tpm' = Reserve(tpm, TpmCap, AvgTokens)
     /\ LET wait == AtLeast(WaitFor(rpm', RpmRate), WaitFor(tpm', TpmRate))
        IN  GoTo(c, IF wait > 0 THEN "pacing" ELSE "calling", wait)

PaceAgain(c) == Pace(c)  \* _wait_for_cooldown's loop, after a sleep

\* Asking semaphore s for a slot of one's own.
AskSlot(c, s) ==
  \/ /\ ~Locked(s)
     /\ sem' = TakePermit(s)
     /\ inFlight' = inFlight + 1
     /\ Pace(c)
  \/ /\ Locked(s)
     /\ sem' = Enqueue(s, c)
     /\ GoTo(c, "slot", 0)
     /\ UNCHANGED <<inFlight, buckets>>

\* Bug: the shrink's permit is not held back.
DrainNothing(s) == s

DrainPermit(s) == TakePermit(s)

\* acquire(), up to its first suspension.
Enter(c) ==
  /\ place[c] = "out"
  /\ calls[c] < Calls
  /\ calls' = [calls EXCEPT ![c] = @ + 1]
  /\ \/ /\ pending = 0
        /\ AskSlot(c, sem)
        /\ UNCHANGED <<pending, drained>>
     \/ /\ pending > 0 /\ ~Locked(sem)
        /\ pending' = pending - 1
        /\ drained' = drained + 1
        /\ AskSlot(c, DrainPermit(sem))
     \/ /\ pending > 0 /\ Locked(sem)
        /\ pending' = pending - 1
        /\ sem' = Enqueue(sem, c)
        /\ GoTo(c, "drain", 0)
        /\ UNCHANGED <<drained, inFlight, buckets>>
  /\ UNCHANGED <<target, cooldown, retries>>

\* A waiter that was granted a permit runs again.
Resume(c) ==
  /\ c \in sem.granted
  /\ \/ /\ place[c] = "drain"
        /\ drained' = drained + 1
        /\ AskSlot(c, Resumed(sem, c))
     \/ /\ place[c] = "slot"
        /\ sem' = Resumed(sem, c)
        /\ inFlight' = inFlight + 1
        /\ Pace(c)
        /\ UNCHANGED drained
  /\ UNCHANGED <<pending, target, cooldown, retries, calls>>

\* Bug: a retry takes no RPM token.
RetryForFree(c) ==
  \/ cooldown > 0 /\ GoTo(c, "recooling", cooldown) /\ UNCHANGED rpm
  \/ cooldown = 0 /\ GoTo(c, "calling", 0) /\ UNCHANGED rpm

\* before_retry(): the cooldown, then one more request of the RPM budget.
Repace(c) ==
  \/ /\ cooldown > 0
     /\ GoTo(c, "recooling", cooldown)
     /\ UNCHANGED rpm
  \/ /\ cooldown = 0
     /\ rpm' = Reserve(rpm, RpmCap, 1)
     /\ LET wait == WaitFor(rpm', RpmRate)
        IN  GoTo(c, IF wait > 0 THEN "repacing" ELSE "calling", wait)

\* A sleep of acquire() or of before_retry() is over.
Wake(c) ==
  /\ sleep[c] = 0
  /\ \/ place[c] = "cooling" /\ PaceAgain(c)
     \/ place[c] = "recooling" /\ Repace(c) /\ UNCHANGED tpm
     \/ place[c] \in {"pacing", "repacing"} /\ GoTo(c, "calling", 0) /\ UNCHANGED buckets
  /\ UNCHANGED <<slots, target, cooldown, retries, calls>>

\* A response that asks for a retry.  Without a 429 the backoff is slept first.
Retry(c) ==
  /\ place[c] = "calling"
  /\ retries[c] < MaxRetries
  /\ retries' = [retries EXCEPT ![c] = @ + 1]
  /\ Repace(c)
  /\ UNCHANGED <<slots, target, tpm, cooldown, calls>>

\* A 429: note_rate_limited merges by maximum, then the caller waits like all.
RateLimited(c) ==
  /\ place[c] = "calling"
  /\ retries[c] < MaxRetries
  /\ retries' = [retries EXCEPT ![c] = @ + 1]
  /\ \E delay \in Cooldowns : cooldown' = AtLeast(cooldown, delay)
  /\ \/ cooldown' > 0 /\ GoTo(c, "recooling", cooldown') /\ UNCHANGED rpm
     \/ cooldown' = 0 /\ Repace(c)
  /\ UNCHANGED <<slots, target, tpm, calls>>

\* release(): reconcile the TPM reservation, free the permit.  Unreported usage
\* keeps the estimate, a failed call gets it back.
Reconcile(cost) == Refund(tpm, TpmCap, AvgTokens - cost)

Leave(c) ==
  /\ sem' = ReturnPermit(sem)
  /\ inFlight' = AtLeast(0, inFlight - 1)
  /\ GoTo(c, "out", 0)
  /\ retries' = [retries EXCEPT ![c] = 0]
  /\ UNCHANGED <<drained, target, cooldown, calls>>

Succeed(c, cost) ==
  /\ place[c] = "calling"
  /\ tpm' = Reconcile(cost)
  /\ Leave(c)
  /\ UNCHANGED <<rpm, pending>>

SucceedUnreported(c) ==
  /\ place[c] = "calling"
  /\ Leave(c)
  /\ UNCHANGED <<buckets, pending>>

Fail(c) ==
  /\ place[c] = "calling"
  /\ tpm' = Refund(tpm, TpmCap, AvgTokens)
  /\ Leave(c)
  /\ UNCHANGED <<rpm, pending>>

\* Bug: the claim is lost with the caller.
ForgetClaim(c) == UNCHANGED pending

\* Cancelled while it waits for a permit: a shrink it had claimed goes back.
HandBackClaim(c) == pending' = IF place[c] = "drain" THEN pending + 1 ELSE pending

CancelWaiting(c) ==
  /\ place[c] \in Waiting
  /\ sem' = Withdraw(sem, c)
  /\ HandBackClaim(c)
  /\ GoTo(c, "out", 0)
  /\ UNCHANGED <<drained, target, inFlight, buckets, cooldown, retries, calls>>

\* Cancelled in acquire() with a permit; the sleep of the cooldown comes before
\* the reservations, the sleep of the pacing after both.
CancelAcquiring(c) ==
  /\ \/ place[c] = "cooling" /\ UNCHANGED buckets
     \/ /\ place[c] = "pacing"
        /\ rpm' = Refund(rpm, RpmCap, 1)
        /\ tpm' = Refund(tpm, TpmCap, AvgTokens)
  /\ Leave(c)
  /\ UNCHANGED pending

\* Cancelled during the call: agent_worker releases with success=True and no
\* usage; the sleep of before_retry() refunds its RPM token.
CancelCalling(c) ==
  /\ \/ place[c] \in {"calling", "recooling"} /\ UNCHANGED rpm
     \/ place[c] = "repacing" /\ rpm' = Refund(rpm, RpmCap, 1)
  /\ Leave(c)
  /\ UNCHANGED <<tpm, pending>>

TargetMayShrink == target > MinInFlight

\* report_wave_failures with too high a failure rate; else it does nothing.
ReportFailures ==
  /\ TargetMayShrink
  /\ target' = target - 1
  /\ pending' = pending + 1
  /\ UNCHANGED <<sem, drained, inFlight, buckets, cooldown, place, sleep, retries, calls>>

Tick ==
  /\ rpm' = Refill(rpm, RpmCap, RpmRate)
  /\ tpm' = Refill(tpm, TpmCap, TpmRate)
  /\ cooldown' = AtLeast(0, cooldown - 1)
  /\ sleep' = [c \in Callers |-> AtLeast(0, sleep[c] - 1)]
  /\ UNCHANGED <<slots, target, place, retries, calls>>

Call(c) ==
  \/ Retry(c) \/ RateLimited(c)
  \/ \E cost \in Costs : Succeed(c, cost)
  \/ SucceedUnreported(c) \/ Fail(c)
Cancel(c) == CancelWaiting(c) \/ CancelAcquiring(c) \/ CancelCalling(c)

CallerNext(c) == Enter(c) \/ Resume(c) \/ Wake(c) \/ Call(c) \/ Cancel(c)
Next == (\E c \in Callers : CallerNext(c)) \/ ReportFailures \/ Tick

\* Runnable tasks run, requests end (every provider has timeouts), the clock
\* advances.  Nothing forces a call, a failure, a 429 or a cancellation.
Fairness ==
  /\ \A c \in Callers : WF_vars(Resume(c)) /\ WF_vars(Wake(c)) /\ WF_vars(Call(c))
  /\ WF_vars(Tick)

Spec == Init /\ [][Next]_vars
FairSpec == Spec /\ Fairness

----------------------------------------------------------------------------
Holders == {c \in Callers : place[c] \in InAcquire \cup InCall}
Claims == {c \in Callers : place[c] = "drain"}

TypeOK ==
  /\ sem \in [free : 0..MaxInFlight, queue : Seq(Callers), granted : SUBSET Callers]
  /\ drained \in 0..(MaxInFlight - MinInFlight)
  /\ pending \in 0..(MaxInFlight - MinInFlight)
  /\ target \in MinInFlight..MaxInFlight
  /\ inFlight \in 0..MaxInFlight
  /\ rpm \in Int /\ tpm \in Int
  /\ cooldown \in Nat
  /\ place \in [Callers -> Places]
  /\ sleep \in [Callers -> Nat]
  /\ retries \in [Callers -> 0..MaxRetries]
  /\ calls \in [Callers -> 0..Calls]

\* "A cancelled waiter never leaks a permit": every permit is free, on its way
\* to a waiter, with an agent, or held back by a shrink; the in-flight count is
\* the number of agents with a permit; and every step of a shrink is done once:
\* still owed, claimed by a caller that waits for the permit, or drained, however
\* callers are cancelled in between (rate_limit.py:250-330).
PermitsConserved ==
  /\ sem.free + Cardinality(sem.granted) + Cardinality(Holders) + drained = MaxInFlight
  /\ inFlight = Cardinality(Holders)
  /\ pending + Cardinality(Claims) + drained = MaxInFlight - target

\* "A 429 anywhere pauses every caller": a caller takes its tokens only while no
\* cooldown runs, however often it was extended during its sleep.
ReservesAfterCooldown ==
  [][\A c \in Callers :
       place[c] # place'[c] /\ place[c] \notin {"pacing", "repacing"}
         /\ place'[c] \in {"pacing", "repacing", "calling"} => cooldown = 0]_vars

\* Whoever calls acquire() gets through: no permit is lost to a waiter, however
\* many are drained, and no cooldown or pacing is endless.
CallersServed == \A c \in Callers : place[c] # "out" ~> place[c] = "out"

\* Everybody waits out the cooldown, and nobody for ever: the sleep is repeated
\* as often as a 429 extends it, and ends (rate_limit.py:406-420).
ServedAfterCooldown == ReservesAfterCooldown /\ CallersServed

\* The controller is a slot limiter whose limit is what the shrinks left.
Limiter == INSTANCE SlotLimiter WITH
  Agents <- Callers, MaxParallel <- MaxInFlight,
  holders <- Holders, slots <- MaxInFlight - drained, open <- TRUE, dead <- FALSE
ImplementsSlotLimiter == Limiter!Spec
=============================================================================
