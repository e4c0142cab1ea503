-------------------------- MODULE RateLimitProofs --------------------------
(***************************************************************************)
(* The rate-limit controller, for any number of callers, permits, steps of *)
(* a shrink, retries and delays: its permits are conserved, it is a slot   *)
(* limiter, and nobody reserves during a cooldown.                         *)
(***************************************************************************)
EXTENDS RateLimitHistory, SequenceTheorems, FiniteSetTheorems, TLAPS

Elems(q) == {q[i] : i \in 1..Len(q)}
Distinct(q) == \A i, j \in 1..Len(q) : q[i] = q[j] => i = j

\* A semaphore at which nobody waits twice.
Semaphores == [free : Nat, queue : Seq(Callers), granted : SUBSET Callers]
Sound(s) == s \in Semaphores /\ Distinct(s.queue) /\ Elems(s.queue) \cap s.granted = {}

At(s) == Elems(s.queue) \cup s.granted
Permits(s) == s.free + Cardinality(s.granted)

-----------------------------------------------------------------------------
(* Queues. *)

LEMMA Finite ==
  ASSUME NEW S \in SUBSET Callers
  PROVE  IsFiniteSet(S) /\ Cardinality(S) \in Nat
BY CallersAssumption, FS_Subset, FS_CardinalityType

LEMMA ElemsAreCallers ==
  ASSUME NEW q \in Seq(Callers)
  PROVE  Len(q) \in Nat /\ (\A i \in 1..Len(q) : q[i] \in Callers) /\ Elems(q) \in SUBSET Callers
BY LenProperties, ElementOfSeq DEF Elems

\* The first n of a queue are n callers.
LEMMA FirstOfQueue ==
  ASSUME NEW q \in Seq(Callers), NEW n \in 0..Len(q), Distinct(q)
  PROVE  /\ {q[i] : i \in 1..n} \in SUBSET Callers
         /\ Cardinality({q[i] : i \in 1..n}) = n
<1>. DEFINE S == {q[i] : i \in 1..n}
             f == [i \in 1..n |-> q[i]]
<1>1. Len(q) \in Nat /\ \A i \in 1..Len(q) : q[i] \in Callers
  BY ElemsAreCallers
<1>2. n \in Nat /\ \A i \in 1..n : i \in 1..Len(q)
  BY <1>1
<1>3. S \in SUBSET Callers
  BY <1>1, <1>2
<1>4. f \in Bijection(1..n, S)
  BY <1>1, <1>2 DEF Distinct, Bijection, Injection, Surjection, IsInjective
<1>. QED
  BY <1>2, <1>3, <1>4, FS_CountingElements DEF ExistsBijection

LEMMA RestOfQueue ==
  ASSUME NEW q \in Seq(Callers), NEW n \in 0..Len(q)
  PROVE  /\ SubSeq(q, n + 1, Len(q)) \in Seq(Callers)
         /\ Len(SubSeq(q, n + 1, Len(q))) = Len(q) - n
         /\ \A i \in 1..Len(q) - n : SubSeq(q, n + 1, Len(q))[i] = q[n + i]
<1>1. Len(q) \in Nat /\ n \in Nat /\ \A i \in 1..Len(q) : q[i] \in Callers
  BY ElemsAreCallers
<1>. DEFINE m == n + 1
             l == Len(q)
<1>2. m \in Int /\ l \in Int /\ \A i \in m..l : q[i] \in Callers
  BY <1>1
<1>. HIDE DEF m, l
<1>3. /\ SubSeq(q, m, l) \in Seq(Callers)
      /\ Len(SubSeq(q, m, l)) = IF m <= l THEN l - m + 1 ELSE 0
      /\ \A i \in 1..l - m + 1 : SubSeq(q, m, l)[i] = q[m + i - 1]
  BY <1>2, SubSeqProperties
<1>4. Len(SubSeq(q, m, l)) = Len(q) - n
  BY <1>1, <1>3 DEF m, l
<1>5. ASSUME NEW i \in 1..Len(q) - n PROVE SubSeq(q, m, l)[i] = q[n + i]
  <2>1. i \in 1..l - m + 1 /\ m + i - 1 = n + i
    BY <1>1 DEF m, l
  <2>. QED
    BY <2>1, <1>3
<1>. QED
  BY <1>3, <1>4, <1>5 DEF m, l

\* Cut in two after its first n, a queue is the same set of callers, apart.
LEMMA QueueCut ==
  ASSUME NEW q \in Seq(Callers), NEW n \in 0..Len(q), Distinct(q), NEW r \in Seq(Callers),
         Len(r) = Len(q) - n, \A i \in 1..Len(q) - n : r[i] = q[n + i]
  PROVE  /\ Distinct(r)
         /\ Elems(r) \cap {q[i] : i \in 1..n} = {}
         /\ Elems(r) \cup {q[i] : i \in 1..n} = Elems(q)
<1>. DEFINE l == Len(q)
             first == {q[i] : i \in 1..n}
<1>1. l \in Nat /\ n \in Nat /\ n <= l
  BY ElemsAreCallers
<1>. HIDE DEF l
<1>2. Len(r) = l - n /\ \A i \in 1..l - n : n + i \in 1..l /\ r[i] = q[n + i]
  BY <1>1 DEF l
<1>3. \A i, j \in 1..l : q[i] = q[j] => i = j
  BY DEF Distinct, l
<1>4. Elems(q) = {q[i] : i \in 1..l} /\ Elems(r) = {r[i] : i \in 1..l - n}
  BY <1>2 DEF Elems, l
<1>5. Distinct(r)
  <2>. SUFFICES ASSUME NEW i \in 1..l - n, NEW j \in 1..l - n, r[i] = r[j] PROVE i = j
    BY <1>2 DEF Distinct
  <2>1. n + i \in 1..l /\ n + j \in 1..l /\ q[n + i] = q[n + j]
    BY <1>2
  <2>2. n + i = n + j
    BY <2>1, <1>3
  <2>. QED
    BY <2>2, <1>1
<1>6. ASSUME NEW i \in 1..l - n PROVE r[i] \notin first
  <2>1. n + i \in 1..l /\ r[i] = q[n + i]
    BY <1>2
  <2>2. ASSUME NEW j \in 1..n PROVE q[j] # q[n + i]
    <3>1. j \in 1..l /\ j # n + i
      BY <1>1
    <3>. QED
      BY <3>1, <2>1, <1>3
  <2>. QED
    BY <2>1, <2>2
<1>7. ASSUME NEW c \in Elems(q) PROVE c \in Elems(r) \cup first
  <2>1. PICK i \in 1..l : c = q[i]
    BY <1>4
  <2>2. CASE i <= n
    BY <2>1, <2>2, <1>1
  <2>3. CASE i > n
    <3>. DEFINE k == i - n
    <3>1. k \in 1..l - n /\ n + k = i
      BY <2>3, <1>1
    <3>. HIDE DEF k
    <3>2. r[k] = c
      BY <3>1, <2>1, <1>2
    <3>. QED
      BY <3>1, <3>2, <1>4
  <2>. QED
    BY <2>2, <2>3, <1>1
<1>8. ASSUME NEW i \in 1..l - n PROVE r[i] \in Elems(q)
  BY <1>2, <1>4
<1>9. ASSUME NEW i \in 1..n PROVE q[i] \in Elems(q)
  BY <1>1, <1>4
<1>10. Elems(r) \cap first = {}
  BY <1>4, <1>6
<1>11. Elems(r) \cup first \subseteq Elems(q)
  BY <1>4, <1>8, <1>9
<1>. QED
  BY <1>5, <1>7, <1>10, <1>11

-----------------------------------------------------------------------------
(* The semaphore. *)

\* A release that hands its permits on keeps their number, and everybody who
\* waits goes on waiting or has one.
LEMMA SettleKeeps ==
  ASSUME NEW s, Sound(s)
  PROVE  /\ Sound(Settle(s))
         /\ Permits(Settle(s)) = Permits(s)
         /\ At(Settle(s)) = At(s)
<1>. DEFINE q == s.queue
             n == AtMost(s.free, Len(q))
             first == {q[i] : i \in 1..n}
             rest == SubSeq(q, n + 1, Len(q))
             t == Settle(s)
<1>1. /\ s.free \in Nat /\ q \in Seq(Callers) /\ s.granted \in SUBSET Callers
      /\ Distinct(q) /\ Elems(q) \cap s.granted = {}
  BY DEF Sound, Semaphores
<1>2. n \in 0..Len(q) /\ n \in Nat /\ s.free - n \in Nat
  BY <1>1, ElemsAreCallers DEF AtMost
<1>3. t.free = s.free - n /\ t.queue = rest /\ t.granted = s.granted \cup first
  BY DEF Settle
<1>. HIDE DEF q, n, t
<1>4. first \in SUBSET Callers /\ Cardinality(first) = n
  BY <1>1, <1>2, FirstOfQueue
<1>5. /\ rest \in Seq(Callers) /\ Len(rest) = Len(q) - n
      /\ \A i \in 1..Len(q) - n : rest[i] = q[n + i]
  BY <1>1, <1>2, RestOfQueue
<1>. HIDE DEF rest
<1>6. /\ Distinct(rest)
      /\ Elems(rest) \cap first = {}
      /\ Elems(rest) \cup first = Elems(q)
  BY <1>1, <1>2, <1>5, QueueCut
<1>. HIDE DEF first
<1>7. t \in Semaphores
  <2>1. t = [free |-> s.free - n, queue |-> rest, granted |-> s.granted \cup first]
    BY DEF Settle, t, rest, n, first, q
  <2>. QED
    BY <2>1, <1>1, <1>2, <1>4, <1>5 DEF Semaphores
<1>8. Sound(t)
  BY <1>1, <1>3, <1>6, <1>7 DEF Sound
<1>9. Permits(t) = Permits(s)
  <2>1. IsFiniteSet(s.granted) /\ Cardinality(s.granted) \in Nat /\ IsFiniteSet(first)
    BY <1>1, <1>4, Finite
  <2>2. s.granted \cap first = {}
    BY <1>1, <1>6
  <2>3. Cardinality(s.granted \cup first) = Cardinality(s.granted) + n - Cardinality({})
    BY <2>1, <2>2, <1>4, FS_Union
  <2>4. Cardinality({}) = 0
    BY FS_EmptySet
  <2>. QED
    BY <2>1, <2>3, <2>4, <1>1, <1>2, <1>3 DEF Permits
<1>10. At(t) = At(s)
  BY <1>1, <1>3, <1>6 DEF At, q
<1>. QED
  BY <1>8, <1>9, <1>10 DEF t

LEMMA EnqueueWaits ==
  ASSUME NEW s, Sound(s), NEW c \in Callers, c \notin At(s)
  PROVE  /\ Sound(Enqueue(s, c))
         /\ Permits(Enqueue(s, c)) = Permits(s)
         /\ At(Enqueue(s, c)) = At(s) \cup {c}
<1>. DEFINE q == s.queue
             r == Append(q, c)
             l == Len(q)
             t == Enqueue(s, c)
<1>1. s \in Semaphores /\ q \in Seq(Callers) /\ Distinct(q) /\ l \in Nat
  BY ElemsAreCallers DEF Sound, Semaphores
<1>2. t.free = s.free /\ t.queue = r /\ t.granted = s.granted
  BY <1>1 DEF Enqueue, Semaphores
<1>3. r \in Seq(Callers) /\ Len(r) = l + 1 /\ (\A i \in 1..l : r[i] = q[i]) /\ r[l + 1] = c
  BY <1>1, AppendProperties
<1>4. t \in Semaphores
  BY <1>1, <1>3 DEF Enqueue, Semaphores
<1>. HIDE DEF t, r
<1>5. \A i \in 1..Len(r) : i \in 1..l \/ i = l + 1
  BY <1>1, <1>3
<1>6. \A i \in 1..l : q[i] # c
  BY DEF At, Elems
<1>. HIDE DEF l
<1>7. Distinct(r)
  BY <1>1, <1>3, <1>5, <1>6 DEF Distinct, l
<1>8. Elems(r) = Elems(q) \cup {c}
  <2>1. ASSUME NEW x \in Elems(r) PROVE x \in Elems(q) \cup {c}
    BY <2>1, <1>3, <1>5 DEF Elems, l
  <2>2. l + 1 \in 1..Len(r) /\ \A i \in 1..l : i \in 1..Len(r)
    BY <1>1, <1>3
  <2>3. c \in Elems(r)
    BY <2>2, <1>3 DEF Elems
  <2>4. ASSUME NEW x \in Elems(q) PROVE x \in Elems(r)
    BY <2>2, <1>3 DEF Elems, l
  <2>. QED
    BY <2>1, <2>3, <2>4
<1>9. c \notin s.granted
  BY DEF At
<1>10. Sound(t)
  BY <1>2, <1>4, <1>7, <1>8, <1>9 DEF Sound
<1>. QED
  BY <1>2, <1>8, <1>10 DEF At, Permits, t

LEMMA TakeTakes ==
  ASSUME NEW s, Sound(s), ~Locked(s)
  PROVE  /\ Sound(TakePermit(s))
         /\ Permits(TakePermit(s)) = Permits(s) - 1
         /\ At(TakePermit(s)) = At(s)
<1>. DEFINE t == TakePermit(s)
<1>1. s \in Semaphores /\ s.free \in Nat \ {0} /\ s.granted \in SUBSET Callers
  BY DEF Sound, Semaphores, Locked
<1>2. t.free = s.free - 1 /\ t.queue = s.queue /\ t.granted = s.granted /\ t \in Semaphores
  BY <1>1 DEF TakePermit, Semaphores
<1>. HIDE DEF t
<1>3. Cardinality(s.granted) \in Nat
  BY <1>1, Finite
<1>4. Permits(t) = Permits(s) - 1
  BY <1>1, <1>2, <1>3 DEF Permits
<1>. QED
  BY <1>2, <1>4 DEF Sound, At, t

LEMMA ReturnGives ==
  ASSUME NEW s, Sound(s)
  PROVE  /\ Sound(ReturnPermit(s))
         /\ Permits(ReturnPermit(s)) = Permits(s) + 1
         /\ At(ReturnPermit(s)) = At(s)
<1>. DEFINE t == [s EXCEPT !.free = @ + 1]
<1>1. s \in Semaphores /\ s.free \in Nat /\ s.granted \in SUBSET Callers
  BY DEF Sound, Semaphores
<1>2. t.free = s.free + 1 /\ t.queue = s.queue /\ t.granted = s.granted /\ t \in Semaphores
  BY <1>1 DEF Semaphores
<1>3. ReturnPermit(s) = Settle(t)
  BY DEF ReturnPermit
<1>. HIDE DEF t
<1>4. Cardinality(s.granted) \in Nat
  BY <1>1, Finite
<1>5. Sound(t) /\ At(t) = At(s)
  BY <1>2 DEF Sound, At
<1>6. Permits(t) = Permits(s) + 1
  BY <1>1, <1>2, <1>4 DEF Permits
<1>. QED
  BY <1>3, <1>5, <1>6, SettleKeeps

LEMMA ResumedLeaves ==
  ASSUME NEW s, Sound(s), NEW c \in s.granted
  PROVE  /\ Sound(Resumed(s, c))
         /\ Permits(Resumed(s, c)) = Permits(s) - 1
         /\ At(Resumed(s, c)) = At(s) \ {c}
<1>. DEFINE t == [s EXCEPT !.granted = @ \ {c}]
<1>1. s \in Semaphores /\ s.free \in Nat /\ s.granted \in SUBSET Callers
  BY DEF Sound, Semaphores
<1>2. t.free = s.free /\ t.queue = s.queue /\ t.granted = s.granted \ {c} /\ t \in Semaphores
  BY <1>1 DEF Semaphores
<1>3. Resumed(s, c) = Settle(t)
  BY DEF Resumed
<1>. HIDE DEF t
<1>4. IsFiniteSet(s.granted) /\ Cardinality(s.granted) \in Nat
  BY <1>1, Finite
<1>5. Cardinality(s.granted \ {c}) = Cardinality(s.granted) - 1
  BY <1>4, FS_RemoveElement
<1>6. Sound(t) /\ At(t) = At(s) \ {c}
  BY <1>2 DEF Sound, At
<1>7. Permits(t) = Permits(s) - 1
  BY <1>1, <1>2, <1>4, <1>5 DEF Permits
<1>. QED
  BY <1>3, <1>6, <1>7, SettleKeeps

\* The waiter that was cancelled is out of the queue, and nobody else.
LEMMA WithoutRemoves ==
  ASSUME NEW q \in Seq(Callers), Distinct(q), NEW c \in Elems(q)
  PROVE  /\ Without(q, c) \in Seq(Callers)
         /\ Distinct(Without(q, c))
         /\ Elems(Without(q, c)) = Elems(q) \ {c}
<1>. DEFINE n == Len(q)
             k == CHOOSE j \in DOMAIN q : q[j] = c
             h == k - 1
             a == SubSeq(q, 1, h)
             b == SubSeq(q, k + 1, n)
             r == Without(q, c)
             from(i) == IF i < k THEN i ELSE i + 1
<1>1. n \in Nat /\ DOMAIN q = 1..n /\ \A i \in 1..n : q[i] \in Callers
  BY LenProperties, ElemsAreCallers
<1>2. k \in 1..n /\ q[k] = c
  <2>1. \E j \in DOMAIN q : q[j] = c
    BY <1>1 DEF Elems
  <2>. QED
    BY <2>1, <1>1
<1>3. r = a \o b
  BY DEF Without
<1>. HIDE DEF n, k, r
<1>4. k \in Nat /\ 1 <= k /\ k <= n /\ h \in Nat /\ k = h + 1
  BY <1>1, <1>2
<1>. HIDE DEF h
<1>5. a \in Seq(Callers) /\ Len(a) = h /\ \A i \in 1..h : a[i] = q[i]
  <2>1. 1 \in Int /\ h \in Int /\ \A i \in 1..h : q[i] \in Callers
    BY <1>1, <1>4
  <2>2. /\ a \in Seq(Callers)
        /\ Len(a) = IF 1 <= h THEN h - 1 + 1 ELSE 0
        /\ \A i \in 1..h - 1 + 1 : a[i] = q[1 + i - 1]
    BY <2>1, SubSeqProperties
  <2>. QED
    BY <1>4, <2>2
<1>6. b \in Seq(Callers) /\ Len(b) = n - k /\ \A i \in 1..n - k : b[i] = q[k + i]
  <2>1. k \in 0..Len(q)
    BY <1>1, <1>4 DEF n
  <2>. QED
    BY <2>1, RestOfQueue DEF n
<1>. HIDE DEF a, b
<1>7. /\ r \in Seq(Callers) /\ Len(r) = Len(a) + Len(b)
      /\ \A i \in 1..Len(a) + Len(b) : r[i] = IF i <= Len(a) THEN a[i] ELSE b[i - Len(a)]
  BY <1>3, <1>5, <1>6, ConcatProperties
<1>8. Len(r) = n - 1
  BY <1>1, <1>4, <1>5, <1>6, <1>7
<1>9. ASSUME NEW i \in 1..n - 1
      PROVE  from(i) \in 1..n /\ from(i) # k /\ r[i] = q[from(i)]
  <2>1. i \in 1..Len(a) + Len(b)
    BY <1>7, <1>8
  <2>2. CASE i < k
    <3>1. i \in 1..h /\ i <= Len(a)
      BY <2>2, <1>4, <1>5
    <3>. QED
      BY <3>1, <2>1, <2>2, <1>1, <1>4, <1>5, <1>7
  <2>3. CASE ~(i < k)
    <3>. DEFINE j == i - h
    <3>1. j \in 1..n - k /\ ~(i <= Len(a)) /\ k + j = i + 1 /\ from(i) = i + 1
      BY <2>3, <1>1, <1>4, <1>5
    <3>2. r[i] = b[j]
      BY <3>1, <2>1, <1>5, <1>7
    <3>. HIDE DEF j
    <3>3. r[i] = q[i + 1]
      BY <3>1, <3>2, <1>6
    <3>. QED
      BY <3>1, <3>3, <2>3, <1>1, <1>4
  <2>. QED
    BY <2>2, <2>3
<1>10. ASSUME NEW i \in 1..n - 1, NEW j \in 1..n - 1, from(i) = from(j) PROVE i = j
  BY <1>10, <1>1, <1>4
<1>11. ASSUME NEW x \in 1..n, x # k PROVE \E i \in 1..n - 1 : from(i) = x
  <2>1. CASE x < k
    BY <2>1, <1>1, <1>4
  <2>2. CASE x > k
    <3>1. x - 1 \in 1..n - 1 /\ from(x - 1) = x
      BY <2>2, <1>1, <1>4
    <3>. QED
      BY <3>1
  <2>. QED
    BY <2>1, <2>2, <1>11, <1>1, <1>4
<1>. HIDE DEF from
<1>12. \A i, j \in 1..n : q[i] = q[j] => i = j
  BY DEF Distinct, n
<1>13. Distinct(r)
  BY <1>8, <1>9, <1>10, <1>12 DEF Distinct
<1>14. ASSUME NEW x \in Elems(r) PROVE x \in Elems(q) /\ x # c
  <2>1. PICK i \in 1..n - 1 : x = r[i]
    BY <1>8 DEF Elems
  <2>2. from(i) \in 1..n /\ from(i) # k /\ x = q[from(i)]
    BY <2>1, <1>9
  <2>. QED
    BY <2>2, <1>2, <1>12 DEF Elems, n
<1>15. ASSUME NEW x \in Elems(q), x # c PROVE x \in Elems(r)
  <2>1. PICK j \in 1..n : x = q[j]
    BY DEF Elems, n
  <2>2. PICK i \in 1..n - 1 : from(i) = j
    BY <2>1, <1>2, <1>11, <1>15
  <2>3. x = r[i]
    BY <2>1, <2>2, <1>9
  <2>. QED
    BY <2>3, <1>8 DEF Elems
<1>. QED
  BY <1>7, <1>13, <1>14, <1>15 DEF r

LEMMA WithdrawKeeps ==
  ASSUME NEW s, Sound(s), NEW c \in At(s)
  PROVE  /\ Sound(Withdraw(s, c))
         /\ Permits(Withdraw(s, c)) = Permits(s)
         /\ At(Withdraw(s, c)) = At(s) \ {c}
<1>1. /\ s \in Semaphores /\ s.free \in Nat
      /\ s.granted \in SUBSET Callers /\ s.queue \in Seq(Callers) /\ Distinct(s.queue)
  BY DEF Sound, Semaphores
<1>2. IsFiniteSet(s.granted) /\ Cardinality(s.granted) \in Nat
  BY <1>1, Finite
<1>3. CASE c \in s.granted
  <2>. DEFINE t == [s EXCEPT !.granted = @ \ {c}]
  <2>1. t.free = s.free /\ t.queue = s.queue /\ t.granted = s.granted \ {c} /\ t \in Semaphores
    BY <1>1 DEF Semaphores
  <2>2. Withdraw(s, c) = ReturnPermit(t)
    BY <1>3 DEF Withdraw
  <2>. HIDE DEF t
  <2>3. Cardinality(s.granted \ {c}) = Cardinality(s.granted) - 1
    BY <1>2, <1>3, FS_RemoveElement
  <2>4. Permits(t) = Permits(s) - 1 /\ Permits(s) \in Int
    BY <1>1, <1>2, <2>1, <2>3 DEF Permits
  <2>5. Sound(t) /\ At(t) = At(s) \ {c}
    BY <1>3, <2>1 DEF At, Sound
  <2>. QED
    BY <2>2, <2>4, <2>5, ReturnGives
<1>4. CASE c \notin s.granted
  <2>. DEFINE r == Without(s.queue, c)
             t == [s EXCEPT !.queue = r]
  <2>1. r \in Seq(Callers) /\ Distinct(r) /\ Elems(r) = Elems(s.queue) \ {c}
    <3>1. c \in Elems(s.queue)
      BY <1>4 DEF At
    <3>. QED
      BY <3>1, <1>1, WithoutRemoves
  <2>. HIDE DEF r
  <2>2. t.free = s.free /\ t.queue = r /\ t.granted = s.granted /\ t \in Semaphores
    BY <1>1, <2>1 DEF Semaphores
  <2>3. Withdraw(s, c) = Settle(t)
    BY <1>4 DEF Withdraw, r
  <2>. HIDE DEF t
  <2>4. Permits(t) = Permits(s)
    BY <2>2 DEF Permits
  <2>5. Sound(t) /\ At(t) = At(s) \ {c}
    BY <1>4, <2>1, <2>2 DEF At, Sound
  <2>. QED
    BY <2>3, <2>4, <2>5, SettleKeeps
<1>. QED
  BY <1>3, <1>4

-----------------------------------------------------------------------------
(* The invariant. *)

Having == InAcquire \cup InCall
Is(p, S) == IF p \in S THEN 1 ELSE 0

\* The callers that are at one of some places.
In(S) == {c \in Callers : place[c] \in S}

Typed ==
  /\ drained \in Nat /\ pending \in Nat /\ inFlight \in Nat
  /\ target \in MinInFlight..MaxInFlight
  /\ place \in [Callers -> Places]

Paced ==
  /\ rpm \in Int /\ tpm \in Int
  /\ cooldown \in Nat
  /\ sleep \in [Callers -> Nat]
  /\ retries \in [Callers -> 0..MaxRetries]
  /\ calls \in [Callers -> 0..Calls]

Queued == Sound(sem) /\ At(sem) = In(Waiting)

Counted ==
  /\ Permits(sem) + Cardinality(In(Having)) + drained = MaxInFlight
  /\ inFlight = Cardinality(In(Having))
  /\ pending + Cardinality(In({"drain"})) + drained = MaxInFlight - target

IInv == Typed /\ Paced /\ Queued /\ Counted

\* One caller's move changes who is at some places by that caller alone.
LEMMA InMoves ==
  ASSUME place \in [Callers -> Places], NEW c \in Callers, NEW p \in Places,
         place' = [place EXCEPT ![c] = p], NEW S
  PROVE  /\ In(S)' = IF p \in S THEN In(S) \cup {c} ELSE In(S) \ {c}
         /\ Cardinality(In(S)) \in Nat
         /\ Cardinality(In(S)') = Cardinality(In(S)) + Is(p, S) - Is(place[c], S)
<1>1. In(S) \in SUBSET Callers /\ (c \in In(S) <=> place[c] \in S)
  BY DEF In
<1>2. IsFiniteSet(In(S)) /\ Cardinality(In(S)) \in Nat
  BY <1>1, Finite
<1>3. In(S)' = IF p \in S THEN In(S) \cup {c} ELSE In(S) \ {c}
  BY DEF In
<1>4. CASE p \in S
  <2>1. In(S)' = In(S) \cup {c}
    BY <1>3, <1>4
  <2>2. Cardinality(In(S)') = IF c \in In(S) THEN Cardinality(In(S)) ELSE Cardinality(In(S)) + 1
    BY <1>2, <2>1, FS_AddElement
  <2>. QED
    BY <1>1, <1>2, <1>3, <1>4, <2>2 DEF Is
<1>5. CASE p \notin S
  <2>1. In(S)' = In(S) \ {c}
    BY <1>3, <1>5
  <2>2. Cardinality(In(S)') = IF c \in In(S) THEN Cardinality(In(S)) - 1 ELSE Cardinality(In(S))
    BY <1>2, <2>1, FS_RemoveElement
  <2>. QED
    BY <1>1, <1>2, <1>3, <1>5, <2>2 DEF Is
<1>. QED
  BY <1>4, <1>5

\* What a caller's move must do to the counters.
LEMMA MoveKeeps ==
  ASSUME Typed, Queued, Counted, NEW c \in Callers, NEW p \in Places,
         place' = [place EXCEPT ![c] = p],
         Sound(sem'),
         At(sem') = IF p \in Waiting THEN At(sem) \cup {c} ELSE At(sem) \ {c},
         drained' \in Nat, pending' \in Nat, inFlight' \in Nat, target' = target,
         Permits(sem') + Is(p, Having) + drained' = Permits(sem) + Is(place[c], Having) + drained,
         inFlight' = inFlight + Is(p, Having) - Is(place[c], Having),
         pending' + Is(p, {"drain"}) + drained' = pending + Is(place[c], {"drain"}) + drained
  PROVE  Typed' /\ Queued' /\ Counted'
<1>1. place \in [Callers -> Places] /\ place' \in [Callers -> Places]
  BY DEF Typed
<1>2. Typed'
  BY <1>1 DEF Typed
<1>3. Queued'
  <2>1. In(Waiting)' = IF p \in Waiting THEN In(Waiting) \cup {c} ELSE In(Waiting) \ {c}
    BY <1>1, InMoves
  <2>2. At(sem) = In(Waiting) /\ Sound(sem)'
    BY DEF Queued, Sound, Distinct, Elems
  <2>3. At(sem)' = In(Waiting)'
    BY <2>1, <2>2 DEF At, Elems
  <2>. QED
    BY <2>2, <2>3 DEF Queued
<1>4. Permits(sem) \in Nat /\ Permits(sem') \in Nat
  <2>1. /\ sem.granted \in SUBSET Callers /\ sem.free \in Nat
        /\ sem'.granted \in SUBSET Callers /\ sem'.free \in Nat
    BY DEF Queued, Sound, Semaphores
  <2>. QED
    BY <2>1, Finite DEF Permits
<1>5. \A S : /\ Cardinality(In(S)) \in Nat
            /\ Cardinality(In(S)') = Cardinality(In(S)) + Is(p, S) - Is(place[c], S)
  BY <1>1, InMoves
<1>6. \A S : Is(p, S) \in 0..1 /\ Is(place[c], S) \in 0..1
  BY DEF Is
<1>. DEFINE held == Cardinality(In(Having))
           claimed == Cardinality(In({"drain"}))
           h0 == Is(place[c], Having)
           h1 == Is(p, Having)
           d0 == Is(place[c], {"drain"})
           d1 == Is(p, {"drain"})
           n0 == Permits(sem)
           n1 == Permits(sem')
<1>7. /\ held \in Nat /\ held' = held + h1 - h0
      /\ claimed \in Nat /\ claimed' = claimed + d1 - d0
      /\ {h0, h1, d0, d1} \subseteq 0..1
  BY <1>5, <1>6 DEF Having
<1>8. /\ n0 + held + drained = MaxInFlight
      /\ inFlight = held
      /\ pending + claimed + drained = MaxInFlight - target
      /\ drained \in Nat /\ pending \in Nat /\ target \in Int /\ MaxInFlight \in Nat
  BY SlotsAssumption DEF Counted, Typed
<1>9. /\ n1 + h1 + drained' = n0 + h0 + drained
      /\ inFlight' = inFlight + h1 - h0
      /\ pending' + d1 + drained' = pending + d0 + drained
  OBVIOUS
<1>10. Permits(sem)' = n1
  BY DEF Permits
<1>. HIDE DEF held, claimed, h0, h1, d0, d1, n0, n1
<1>11. n1 + held' + drained' = MaxInFlight /\ inFlight' = held'
  BY <1>4, <1>7, <1>8, <1>9 DEF n0, n1
<1>12. pending' + claimed' + drained' = MaxInFlight - target'
  BY <1>7, <1>8, <1>9
<1>. QED
  BY <1>2, <1>3, <1>10, <1>11, <1>12 DEF Counted, held, claimed

-----------------------------------------------------------------------------
(* What acquire() and before_retry() do up to their next suspension. *)

LEMMA WaitIsNat ==
  ASSUME NEW level \in Int, NEW rate \in Nat \ {0}
  PROVE  WaitFor(level, rate) \in Nat
<1>1. CASE level >= 0
  BY <1>1 DEF WaitFor
<1>2. CASE level < 0
  <2>1. rate - 1 - level \in Nat
    BY <1>2
  <2>2. (rate - 1 - level) \div rate \in Nat
    BY <2>1
  <2>. QED
    BY <1>2, <2>2 DEF WaitFor
<1>. QED
  BY <1>1, <1>2

LEMMA PaceMoves ==
  ASSUME Paced, NEW c \in Callers, Pace(c)
  PROVE  /\ \E p \in {"cooling", "pacing", "calling"} : place' = [place EXCEPT ![c] = p]
         /\ rpm' \in Int /\ tpm' \in Int /\ sleep' \in [Callers -> Nat]
<1>1. CASE cooldown > 0
  BY <1>1 DEF Pace, GoTo, buckets, Paced
<1>2. CASE cooldown = 0
  <2>. DEFINE wait == AtLeast(WaitFor(rpm', RpmRate), WaitFor(tpm', TpmRate))
  <2>1. rpm' \in Int /\ tpm' \in Int
    BY <1>2, BucketAssumption DEF Pace, Reserve, AtMost, Paced
  <2>2. WaitFor(rpm', RpmRate) \in Nat /\ WaitFor(tpm', TpmRate) \in Nat
    BY <2>1, BucketAssumption, WaitIsNat
  <2>3. wait \in Nat
    BY <2>2 DEF AtLeast
  <2>4. GoTo(c, IF wait > 0 THEN "pacing" ELSE "calling", wait)
    BY <1>2 DEF Pace
  <2>. HIDE DEF wait
  <2>. QED
    BY <2>1, <2>3, <2>4 DEF GoTo, Paced
<1>. QED
  BY <1>1, <1>2 DEF Paced

LEMMA RepaceMoves ==
  ASSUME Paced, NEW c \in Callers, Repace(c)
  PROVE  /\ \E p \in {"recooling", "repacing", "calling"} : place' = [place EXCEPT ![c] = p]
         /\ rpm' \in Int /\ sleep' \in [Callers -> Nat]
<1>1. CASE cooldown > 0
  BY <1>1 DEF Repace, GoTo, Paced
<1>2. CASE cooldown = 0
  <2>. DEFINE wait == WaitFor(rpm', RpmRate)
  <2>1. rpm' \in Int
    BY <1>2, BucketAssumption DEF Repace, Reserve, AtMost, Paced
  <2>2. wait \in Nat
    BY <2>1, BucketAssumption, WaitIsNat
  <2>3. GoTo(c, IF wait > 0 THEN "repacing" ELSE "calling", wait)
    BY <1>2 DEF Repace
  <2>. HIDE DEF wait
  <2>. QED
    BY <2>1, <2>2, <2>3 DEF GoTo, Paced
<1>. QED
  BY <1>1, <1>2 DEF Paced

\* A caller that asks for its slot gets a permit or waits at the semaphore.
LEMMA AskSlotMoves ==
  ASSUME Paced, inFlight \in Nat, NEW c \in Callers,
         NEW s, Sound(s), c \notin At(s), AskSlot(c, s)
  PROVE  /\ \E p \in {"slot", "cooling", "pacing", "calling"} :
              /\ place' = [place EXCEPT ![c] = p]
              /\ At(sem') = IF p = "slot" THEN At(s) \cup {c} ELSE At(s)
              /\ Permits(sem') = Permits(s) - (IF p = "slot" THEN 0 ELSE 1)
              /\ inFlight' = inFlight + (IF p = "slot" THEN 0 ELSE 1)
         /\ Sound(sem') /\ inFlight' \in Nat
         /\ rpm' \in Int /\ tpm' \in Int /\ sleep' \in [Callers -> Nat]
<1>0. Permits(s) \in Nat
  <2>1. s.granted \in SUBSET Callers /\ s.free \in Nat
    BY DEF Sound, Semaphores
  <2>. QED
    BY <2>1, Finite DEF Permits
<1>1. CASE ~Locked(s)
  <2>1. sem' = TakePermit(s) /\ inFlight' = inFlight + 1 /\ Pace(c)
    BY <1>1 DEF AskSlot
  <2>2. Sound(sem') /\ Permits(sem') = Permits(s) - 1 /\ At(sem') = At(s)
    BY <1>1, <2>1, TakeTakes
  <2>3. /\ \E p \in {"cooling", "pacing", "calling"} : place' = [place EXCEPT ![c] = p]
        /\ rpm' \in Int /\ tpm' \in Int /\ sleep' \in [Callers -> Nat]
    BY <2>1, PaceMoves
  <2>4. PICK p \in {"cooling", "pacing", "calling"} : place' = [place EXCEPT ![c] = p]
    BY <2>3
  <2>5. p # "slot" /\ p \in {"slot", "cooling", "pacing", "calling"}
    OBVIOUS
  <2>6. /\ At(sem') = IF p = "slot" THEN At(s) \cup {c} ELSE At(s)
        /\ Permits(sem') = Permits(s) - (IF p = "slot" THEN 0 ELSE 1)
        /\ inFlight' = inFlight + (IF p = "slot" THEN 0 ELSE 1)
    BY <2>1, <2>2, <2>5
  <2>7. inFlight' \in Nat
    BY <2>1
  <2>. QED
    BY <2>2, <2>3, <2>4, <2>5, <2>6, <2>7, Zenon
<1>2. CASE Locked(s)
  <2>1. /\ sem' = Enqueue(s, c) /\ GoTo(c, "slot", 0)
        /\ inFlight' = inFlight /\ rpm' = rpm /\ tpm' = tpm
    BY <1>2 DEF AskSlot, buckets
  <2>2. Sound(sem') /\ Permits(sem') = Permits(s) /\ At(sem') = At(s) \cup {c}
    BY <2>1, EnqueueWaits
  <2>3. sleep' \in [Callers -> Nat] /\ place' = [place EXCEPT ![c] = "slot"]
    BY <2>1 DEF GoTo, Paced
  <2>. QED
    BY <1>0, <2>1, <2>2, <2>3 DEF Paced
<1>. QED
  BY <1>1, <1>2

-----------------------------------------------------------------------------
(* The moves of a caller, by what they do to its permit. *)

LEMMA IsOf ==
  ASSUME NEW p \in Places
  PROVE  /\ Is(p, Having) = IF p \in {"out", "drain", "slot"} THEN 0 ELSE 1
         /\ Is(p, {"drain"}) = IF p = "drain" THEN 1 ELSE 0
         /\ p \in Waiting <=> p \in {"drain", "slot"}
BY DEF Places, Is, Having, InAcquire, InCall, Waiting

LEMMA PermitsIsNat ==
  ASSUME NEW s, Sound(s)
  PROVE  Permits(s) \in Nat
<1>1. s.granted \in SUBSET Callers /\ s.free \in Nat
  BY DEF Sound, Semaphores
<1>. QED
  BY <1>1, Finite DEF Permits

\* Who is at the semaphore waits there, and nobody else.
LEMMA WaitersAreAt ==
  ASSUME IInv, NEW c \in Callers
  PROVE  /\ Sound(sem) /\ Permits(sem) \in Nat
         /\ place[c] \in Places
         /\ c \in At(sem) <=> place[c] \in {"drain", "slot"}
BY PermitsIsNat DEF IInv, Queued, Typed, In, Waiting

\* A caller without a permit asks for its own.
LEMMA SlotAsked ==
  ASSUME IInv, NEW c \in Callers, place[c] \in {"out", "drain"},
         NEW s, Sound(s), At(s) = At(sem) \ {c}, AskSlot(c, s),
         drained' \in Nat, pending' \in Nat, target' = target,
         Permits(s) + drained' = Permits(sem) + drained,
         pending' + drained' = pending + Is(place[c], {"drain"}) + drained
  PROVE  /\ Typed' /\ Queued' /\ Counted'
         /\ rpm' \in Int /\ tpm' \in Int /\ sleep' \in [Callers -> Nat]
<1>0. Typed /\ Paced /\ Queued /\ Counted /\ inFlight \in Nat /\ drained \in Nat
  BY DEF IInv, Typed
<1>1. /\ Sound(sem') /\ inFlight' \in Nat
      /\ rpm' \in Int /\ tpm' \in Int /\ sleep' \in [Callers -> Nat]
  BY <1>0, AskSlotMoves
<1>2. PICK p \in {"slot", "cooling", "pacing", "calling"} :
         /\ place' = [place EXCEPT ![c] = p]
         /\ At(sem') = IF p = "slot" THEN At(s) \cup {c} ELSE At(s)
         /\ Permits(sem') = Permits(s) - (IF p = "slot" THEN 0 ELSE 1)
         /\ inFlight' = inFlight + (IF p = "slot" THEN 0 ELSE 1)
  BY <1>0, AskSlotMoves
<1>3. p \in Places /\ Is(p, {"drain"}) = 0 /\ Is(place[c], Having) = 0
      /\ Is(p, Having) = (IF p = "slot" THEN 0 ELSE 1)
      /\ (p \in Waiting <=> p = "slot")
  BY WaitersAreAt, IsOf DEF Places
<1>4. At(sem') = IF p \in Waiting THEN At(sem) \cup {c} ELSE At(sem) \ {c}
  BY <1>2, <1>3
<1>5. /\ Permits(sem') + Is(p, Having) + drained'
           = Permits(sem) + Is(place[c], Having) + drained
      /\ inFlight' = inFlight + Is(p, Having) - Is(place[c], Having)
  BY <1>0, <1>2, <1>3, WaitersAreAt, PermitsIsNat
<1>6. pending' + Is(p, {"drain"}) + drained' = pending + Is(place[c], {"drain"}) + drained
  BY <1>3
<1>7. Typed' /\ Queued' /\ Counted'
  BY <1>0, <1>1, <1>2, <1>3, <1>4, <1>5, <1>6, MoveKeeps
<1>. QED
  BY <1>1, <1>7

\* A caller keeps its permit.
LEMMA HolderMoves ==
  ASSUME IInv, NEW c \in Callers, place[c] \in Having, NEW p \in Having,
         place' = [place EXCEPT ![c] = p], UNCHANGED <<slots, target>>
  PROVE  Typed' /\ Queued' /\ Counted'
<1>0. /\ Typed /\ Queued /\ Counted
      /\ drained \in Nat /\ pending \in Nat /\ inFlight \in Nat
  BY DEF IInv, Typed
<1>1. sem' = sem /\ drained' = drained /\ pending' = pending /\ inFlight' = inFlight
  BY DEF slots
<1>2. /\ p \in Places /\ p \notin Waiting /\ place[c] \notin {"drain", "slot"}
      /\ Is(p, Having) = 1 /\ Is(place[c], Having) = 1
      /\ Is(p, {"drain"}) = 0 /\ Is(place[c], {"drain"}) = 0
  BY DEF Having, InAcquire, InCall, Places, Waiting, Is
<1>3. Sound(sem) /\ At(sem') = At(sem) \ {c}
  BY <1>1, <1>2, WaitersAreAt
<1>4. Sound(sem')
  BY <1>1, <1>3
<1>5. /\ Permits(sem') + Is(p, Having) + drained'
           = Permits(sem) + Is(place[c], Having) + drained
      /\ inFlight' = inFlight + Is(p, Having) - Is(place[c], Having)
      /\ pending' + Is(p, {"drain"}) + drained' = pending + Is(place[c], {"drain"}) + drained
  BY <1>0, <1>1, <1>2
<1>. QED
  BY <1>0, <1>1, <1>2, <1>3, <1>4, <1>5, MoveKeeps

\* release(), or the end of a cancelled acquire().
LEMMA LeaveKeeps ==
  ASSUME IInv, NEW c \in Callers, place[c] \in Having, Leave(c), pending' = pending
  PROVE  /\ Typed' /\ Queued' /\ Counted'
         /\ cooldown' \in Nat /\ sleep' \in [Callers -> Nat]
         /\ retries' \in [Callers -> 0..MaxRetries] /\ calls' \in [Callers -> 0..Calls]
<1>0. /\ Typed /\ Queued /\ Counted
      /\ drained \in Nat /\ pending \in Nat /\ inFlight \in Nat
  BY DEF IInv, Typed
<1>1. /\ sem' = ReturnPermit(sem) /\ inFlight' = AtLeast(0, inFlight - 1)
      /\ place' = [place EXCEPT ![c] = "out"] /\ drained' = drained /\ target' = target
  BY DEF Leave, GoTo
<1>2. /\ "out" \in Places /\ "out" \notin Waiting /\ place[c] \notin {"drain", "slot"}
      /\ Is("out", Having) = 0 /\ Is(place[c], Having) = 1
      /\ Is("out", {"drain"}) = 0 /\ Is(place[c], {"drain"}) = 0
  BY DEF Having, InAcquire, InCall, Places, Waiting, Is
<1>3. /\ Sound(sem) /\ Permits(sem) \in Nat /\ c \notin At(sem)
  BY <1>2, WaitersAreAt
<1>4. /\ Sound(sem') /\ At(sem') = At(sem) \ {c}
      /\ Permits(sem') = Permits(sem) + 1
  BY <1>1, <1>3, ReturnGives
<1>5. inFlight' = inFlight - 1 /\ inFlight' \in Nat
  <2>1. c \in In(Having)
    BY DEF In
  <2>2. IsFiniteSet(In(Having)) /\ Cardinality(In(Having)) \in Nat
    BY Finite DEF In
  <2>3. Cardinality(In(Having)) # 0
    BY <2>1, <2>2, FS_EmptySet
  <2>4. inFlight \in Nat \ {0}
    BY <1>0, <2>2, <2>3 DEF Counted
  <2>. QED
    BY <1>1, <2>4 DEF AtLeast
<1>6. /\ Permits(sem') + Is("out", Having) + drained'
           = Permits(sem) + Is(place[c], Having) + drained
      /\ inFlight' = inFlight + Is("out", Having) - Is(place[c], Having)
      /\ pending' + Is("out", {"drain"}) + drained'
           = pending + Is(place[c], {"drain"}) + drained
  BY <1>0, <1>1, <1>2, <1>3, <1>4, <1>5
<1>7. Typed' /\ Queued' /\ Counted'
  BY <1>0, <1>1, <1>2, <1>4, <1>5, <1>6, MoveKeeps
<1>8. /\ cooldown' \in Nat /\ sleep' \in [Callers -> Nat]
      /\ retries' \in [Callers -> 0..MaxRetries] /\ calls' \in [Callers -> 0..Calls]
  BY RetryAssumption DEF Leave, GoTo, IInv, Paced
<1>. QED
  BY <1>7, <1>8

-----------------------------------------------------------------------------
(* Every step keeps the invariant. *)

LEMMA InitKeeps == ASSUME Init PROVE IInv
<1>1. /\ sem = [free |-> MaxInFlight, queue |-> << >>, granted |-> {}]
      /\ place = [c \in Callers |-> "out"]
      /\ MaxInFlight \in Nat /\ MinInFlight \in Nat
  BY SlotsAssumption DEF Init
<1>2. Typed
  BY <1>1, SlotsAssumption DEF Init, Typed, Places
<1>3. Paced
  BY BucketAssumption, RetryAssumption DEF Init, Paced
<1>4. sem \in Semaphores /\ sem.free = MaxInFlight /\ sem.granted = {}
      /\ sem.queue = << >> /\ Len(sem.queue) = 0
  BY <1>1, EmptySeq DEF Semaphores
<1>5. Sound(sem) /\ At(sem) = {}
  BY <1>4 DEF Sound, Distinct, At, Elems
<1>6. \A S \in {Waiting, Having, {"drain"}} : In(S) = {}
  BY <1>1 DEF In, Waiting, Having, InAcquire, InCall
<1>7. Queued
  BY <1>5, <1>6 DEF Queued
<1>8. Counted
  <2>1. Cardinality(In(Having)) = 0 /\ Cardinality(In({"drain"})) = 0
    BY <1>6, FS_EmptySet
  <2>2. Permits(sem) = MaxInFlight
    BY <1>1, <1>4, FS_EmptySet DEF Permits
  <2>. QED
    BY <1>1, <2>1, <2>2 DEF Init, Counted
<1>. QED
  BY <1>2, <1>3, <1>7, <1>8 DEF IInv

LEMMA EnterKeeps ==
  ASSUME IInv, NEW c \in Callers, Enter(c)
  PROVE  IInv'
<1>0. /\ drained \in Nat /\ pending \in Nat /\ inFlight \in Nat
      /\ Typed /\ Queued /\ Counted /\ Paced
      /\ place[c] = "out" /\ target' = target
  BY DEF IInv, Typed, Enter
<1>1. /\ Is(place[c], {"drain"}) = 0 /\ Is(place[c], Having) = 0
      /\ Sound(sem) /\ Permits(sem) \in Nat /\ At(sem) = At(sem) \ {c} /\ c \notin At(sem)
  BY <1>0, WaitersAreAt, IsOf
<1>2. /\ cooldown' \in Nat /\ retries' \in [Callers -> 0..MaxRetries]
      /\ calls' \in [Callers -> 0..Calls]
  BY RetryAssumption DEF Enter, IInv, Paced
<1>3. /\ Typed' /\ Queued' /\ Counted'
      /\ rpm' \in Int /\ tpm' \in Int /\ sleep' \in [Callers -> Nat]
  <2>1. CASE pending = 0
    <3>1. AskSlot(c, sem) /\ pending' = pending /\ drained' = drained
      BY <2>1 DEF Enter
    <3>. QED
      BY <1>0, <1>1, <3>1, SlotAsked
  <2>2. CASE pending > 0 /\ ~Locked(sem)
    <3>1. /\ AskSlot(c, TakePermit(sem))
          /\ pending' = pending - 1 /\ drained' = drained + 1
      BY <1>0, <2>2 DEF Enter, DrainPermit
    <3>. DEFINE s == TakePermit(sem)
    <3>2. Sound(s) /\ Permits(s) = Permits(sem) - 1 /\ At(s) = At(sem)
      BY <1>1, <2>2, TakeTakes
    <3>. HIDE DEF s
    <3>3. /\ drained' \in Nat /\ pending' \in Nat
          /\ Permits(s) + drained' = Permits(sem) + drained
          /\ pending' + drained' = pending + Is(place[c], {"drain"}) + drained
      BY <1>0, <1>1, <2>2, <3>1, <3>2
    <3>4. AskSlot(c, s)
      BY <3>1 DEF s
    <3>. QED
      BY <1>0, <1>1, <3>2, <3>3, <3>4, SlotAsked
  <2>3. CASE pending > 0 /\ Locked(sem)
    <3>1. /\ pending' = pending - 1 /\ drained' = drained /\ inFlight' = inFlight
          /\ rpm' = rpm /\ tpm' = tpm /\ sem' = Enqueue(sem, c) /\ GoTo(c, "drain", 0)
      BY <1>0, <2>3 DEF Enter, buckets
    <3>2. sleep' \in [Callers -> Nat] /\ place' = [place EXCEPT ![c] = "drain"]
      BY <1>0, <3>1 DEF GoTo, Paced
    <3>3. Sound(sem') /\ Permits(sem') = Permits(sem) /\ At(sem') = At(sem) \cup {c}
      BY <1>1, <3>1, EnqueueWaits
    <3>4. /\ "drain" \in Places /\ "drain" \in Waiting
          /\ Is("drain", Having) = 0 /\ Is("drain", {"drain"}) = 1
      BY DEF Places, Waiting, Is, Having, InAcquire, InCall
    <3>5. /\ drained' \in Nat /\ pending' \in Nat /\ inFlight' \in Nat
          /\ Permits(sem') + Is("drain", Having) + drained'
               = Permits(sem) + Is(place[c], Having) + drained
          /\ inFlight' = inFlight + Is("drain", Having) - Is(place[c], Having)
          /\ pending' + Is("drain", {"drain"}) + drained'
               = pending + Is(place[c], {"drain"}) + drained
      BY <1>0, <1>1, <2>3, <3>1, <3>3, <3>4
    <3>6. Typed' /\ Queued' /\ Counted'
      BY <1>0, <3>2, <3>3, <3>4, <3>5, MoveKeeps
    <3>. QED
      BY <1>0, <3>1, <3>2, <3>6 DEF Paced
  <2>. QED
    BY <1>0, <2>1, <2>2, <2>3 DEF Enter
<1>. QED
  BY <1>2, <1>3 DEF IInv, Paced

LEMMA ResumeKeeps ==
  ASSUME IInv, NEW c \in Callers, Resume(c)
  PROVE  IInv'
<1>0. /\ drained \in Nat /\ pending \in Nat /\ inFlight \in Nat
      /\ Typed /\ Queued /\ Counted /\ Paced
      /\ c \in sem.granted /\ target' = target /\ pending' = pending
  BY DEF IInv, Typed, Resume
<1>1. Sound(sem) /\ Permits(sem) \in Nat /\ place[c] \in Places
  BY WaitersAreAt
<1>2. /\ cooldown' \in Nat /\ retries' \in [Callers -> 0..MaxRetries]
      /\ calls' \in [Callers -> 0..Calls]
  BY DEF Resume, IInv, Paced
<1>. DEFINE s == Resumed(sem, c)
<1>3. Sound(s) /\ Permits(s) = Permits(sem) - 1 /\ At(s) = At(sem) \ {c}
  BY <1>0, <1>1, ResumedLeaves
<1>4. /\ Typed' /\ Queued' /\ Counted'
      /\ rpm' \in Int /\ tpm' \in Int /\ sleep' \in [Callers -> Nat]
  <2>1. CASE place[c] = "drain"
    <3>1. AskSlot(c, s) /\ drained' = drained + 1
      BY <2>1 DEF Resume
    <3>. HIDE DEF s
    <3>2. Is(place[c], {"drain"}) = 1
      BY <1>1, <2>1, IsOf
    <3>3. /\ drained' \in Nat /\ pending' \in Nat
          /\ Permits(s) + drained' = Permits(sem) + drained
          /\ pending' + drained' = pending + Is(place[c], {"drain"}) + drained
      BY <1>0, <1>1, <1>3, <3>1, <3>2
    <3>. QED
      BY <1>0, <1>3, <2>1, <3>1, <3>3, SlotAsked
  <2>2. CASE place[c] = "slot"
    <3>1. sem' = s /\ inFlight' = inFlight + 1 /\ Pace(c) /\ drained' = drained
      BY <2>2 DEF Resume
    <3>. HIDE DEF s
    <3>2. PICK p \in {"cooling", "pacing", "calling"} : place' = [place EXCEPT ![c] = p]
      BY <1>0, <3>1, PaceMoves
    <3>3. /\ p \in Places /\ p \notin Waiting /\ Is(p, Having) = 1 /\ Is(p, {"drain"}) = 0
          /\ Is(place[c], Having) = 0 /\ Is(place[c], {"drain"}) = 0
      BY <2>2 DEF Places, Waiting, Is, Having, InAcquire, InCall
    <3>4. /\ drained' \in Nat /\ pending' \in Nat /\ inFlight' \in Nat
          /\ Permits(sem') + Is(p, Having) + drained'
               = Permits(sem) + Is(place[c], Having) + drained
          /\ inFlight' = inFlight + Is(p, Having) - Is(place[c], Having)
          /\ pending' + Is(p, {"drain"}) + drained'
               = pending + Is(place[c], {"drain"}) + drained
      BY <1>0, <1>1, <1>3, <3>1, <3>3
    <3>5. Sound(sem') /\ At(sem') = At(sem) \ {c}
      BY <1>3, <3>1
    <3>6. Typed' /\ Queued' /\ Counted'
      BY <1>0, <3>2, <3>3, <3>4, <3>5, MoveKeeps
    <3>. QED
      BY <1>0, <3>1, <3>6, PaceMoves
  <2>. QED
    BY <2>1, <2>2 DEF Resume
<1>. QED
  BY <1>2, <1>4 DEF IInv, Paced

\* The sleeps, the retries and the 429 of a caller that has a permit.
LEMMA HolderKeeps ==
  ASSUME IInv, NEW c \in Callers, Wake(c) \/ Retry(c) \/ RateLimited(c)
  PROVE  IInv'
<1>0. Paced /\ inFlight \in Nat /\ place[c] \in Places
  BY DEF IInv, Typed
<1>1. UNCHANGED <<slots, target>>
  BY DEF Wake, Retry, RateLimited
<1>2. place[c] \in Having
  BY DEF Wake, Retry, RateLimited, Having, InAcquire, InCall
<1>3. /\ cooldown' \in Nat /\ retries' \in [Callers -> 0..MaxRetries]
      /\ calls' \in [Callers -> 0..Calls]
  <2>1. CASE Wake(c)
    BY <1>0, <2>1 DEF Wake, Paced
  <2>2. CASE Retry(c)
    BY <1>0, <2>2, RetryAssumption DEF Retry, Paced
  <2>3. CASE RateLimited(c)
    BY <1>0, <2>3, RetryAssumption DEF RateLimited, AtLeast, Paced
  <2>. QED
    BY <2>1, <2>2, <2>3
<1>4. /\ \E p \in Having : place' = [place EXCEPT ![c] = p]
      /\ rpm' \in Int /\ tpm' \in Int /\ sleep' \in [Callers -> Nat]
  <2>1. CASE Pace(c)
    <3>1. {"cooling", "pacing", "calling"} \subseteq Having
      BY DEF Having, InAcquire, InCall
    <3>. QED
      BY <1>0, <2>1, <3>1, PaceMoves
  <2>2. CASE Repace(c) /\ tpm' = tpm
    <3>1. {"recooling", "repacing", "calling"} \subseteq Having
      BY DEF Having, InAcquire, InCall
    <3>. QED
      BY <1>0, <2>2, <3>1, RepaceMoves DEF Paced
  <2>3. CASE GoTo(c, "calling", 0) /\ UNCHANGED buckets
    BY <1>0, <2>3 DEF GoTo, buckets, Paced, Having, InCall
  <2>4. CASE GoTo(c, "recooling", cooldown') /\ rpm' = rpm /\ tpm' = tpm
    BY <1>0, <1>3, <2>4 DEF GoTo, Paced, Having, InCall
  <2>5. Pace(c) \/ (Repace(c) /\ tpm' = tpm) \/ (GoTo(c, "calling", 0) /\ UNCHANGED buckets)
          \/ (GoTo(c, "recooling", cooldown') /\ rpm' = rpm /\ tpm' = tpm)
    BY DEF Wake, PaceAgain, Retry, RateLimited
  <2>. QED
    BY <2>1, <2>2, <2>3, <2>4, <2>5
<1>5. Typed' /\ Queued' /\ Counted'
  BY <1>1, <1>2, <1>4, HolderMoves
<1>. QED
  BY <1>3, <1>4, <1>5 DEF IInv, Paced

\* The ways to leave with a permit.
LEMMA LeavingKeeps ==
  ASSUME IInv, NEW c \in Callers,
         \/ \E cost \in Costs : Succeed(c, cost)
         \/ SucceedUnreported(c) \/ Fail(c) \/ CancelAcquiring(c) \/ CancelCalling(c)
  PROVE  IInv'
<1>0. rpm \in Int /\ tpm \in Int
  BY DEF IInv, Paced
<1>1. Leave(c) /\ pending' = pending
  BY DEF Succeed, SucceedUnreported, Fail, CancelAcquiring, CancelCalling
<1>2. place[c] \in Having
  BY DEF Succeed, SucceedUnreported, Fail, CancelAcquiring, CancelCalling,
         Having, InAcquire, InCall
<1>3. rpm' \in Int /\ tpm' \in Int
  <2>1. ASSUME NEW cost \in Costs, Succeed(c, cost)
        PROVE  rpm' \in Int /\ tpm' \in Int
    BY <1>0, <2>1, BucketAssumption DEF Succeed, Reconcile, Refund, AtMost
  <2>2. CASE SucceedUnreported(c) \/ Fail(c)
    BY <1>0, <2>2, BucketAssumption DEF SucceedUnreported, Fail, Refund, AtMost, buckets
  <2>3. CASE CancelAcquiring(c) \/ CancelCalling(c)
    BY <1>0, <2>3, BucketAssumption DEF CancelAcquiring, CancelCalling, Refund, AtMost, buckets
  <2>. QED
    BY <2>1, <2>2, <2>3
<1>. QED
  BY <1>1, <1>2, <1>3, LeaveKeeps DEF IInv, Paced

LEMMA CancelWaitingKeeps ==
  ASSUME IInv, NEW c \in Callers, CancelWaiting(c)
  PROVE  IInv'
<1>0. /\ drained \in Nat /\ pending \in Nat /\ inFlight \in Nat
      /\ Typed /\ Queued /\ Counted /\ Paced
      /\ place[c] \in Waiting /\ target' = target /\ drained' = drained /\ inFlight' = inFlight
      /\ sem' = Withdraw(sem, c)
      /\ pending' = IF place[c] = "drain" THEN pending + 1 ELSE pending
      /\ place' = [place EXCEPT ![c] = "out"]
  BY DEF IInv, Typed, CancelWaiting, HandBackClaim, GoTo
<1>1. /\ Sound(sem) /\ Permits(sem) \in Nat /\ place[c] \in Places /\ c \in At(sem)
      /\ Is(place[c], Having) = 0
      /\ Is(place[c], {"drain"}) = IF place[c] = "drain" THEN 1 ELSE 0
  BY <1>0, WaitersAreAt, IsOf DEF Waiting
<1>2. /\ Sound(sem') /\ Permits(sem') = Permits(sem) /\ At(sem') = At(sem) \ {c}
  BY <1>0, <1>1, WithdrawKeeps
<1>3. "out" \in Places /\ "out" \notin Waiting /\ Is("out", Having) = 0 /\ Is("out", {"drain"}) = 0
  BY DEF Places, Waiting, Is, Having, InAcquire, InCall
<1>4. pending' \in Nat /\ pending' = pending + Is(place[c], {"drain"})
  BY <1>0, <1>1
<1>5. /\ Permits(sem') + Is("out", Having) + drained'
           = Permits(sem) + Is(place[c], Having) + drained
      /\ inFlight' = inFlight + Is("out", Having) - Is(place[c], Having)
  BY <1>0, <1>1, <1>2, <1>3
<1>6. pending' + Is("out", {"drain"}) + drained' = pending + Is(place[c], {"drain"}) + drained
  BY <1>0, <1>1, <1>3, <1>4
<1>7. Typed' /\ Queued' /\ Counted'
  BY <1>0, <1>2, <1>3, <1>4, <1>5, <1>6, MoveKeeps
<1>8. Paced'
  BY <1>0 DEF CancelWaiting, GoTo, buckets, Paced
<1>. QED
  BY <1>7, <1>8 DEF IInv

\* A shrink is owed, the clock moves, or nothing happens: nobody moves.
LEMMA OthersKeep ==
  ASSUME IInv, ReportFailures \/ Tick \/ UNCHANGED vars
  PROVE  IInv'
<1>0. /\ Typed /\ Paced /\ Queued /\ Counted
      /\ drained \in Nat /\ pending \in Nat /\ target \in MinInFlight..MaxInFlight
      /\ MinInFlight \in Nat /\ MaxInFlight \in Nat
  BY SlotsAssumption DEF IInv, Typed
<1>1. sem' = sem /\ drained' = drained /\ inFlight' = inFlight /\ place' = place
  BY DEF ReportFailures, Tick, slots, vars
<1>2. /\ pending' \in Nat /\ target' \in MinInFlight..MaxInFlight
      /\ \/ pending' = pending /\ target' = target
         \/ pending' = pending + 1 /\ target' = target - 1
  BY <1>0 DEF ReportFailures, TargetMayShrink, Tick, slots, vars
<1>3. Typed' /\ Queued'
  BY <1>0, <1>1, <1>2 DEF Typed, Queued, Sound, Distinct, Elems, At, In
<1>4. Permits(sem)' = Permits(sem) /\ \A S : In(S)' = In(S)
  BY <1>1 DEF Permits, In
<1>5. Counted'
  <2>1. Cardinality(In({"drain"})) \in Nat
    BY Finite DEF In
  <2>2. In(Having)' = In(Having) /\ In({"drain"})' = In({"drain"})
    BY <1>1 DEF In, Having, InAcquire, InCall
  <2>. DEFINE held == Cardinality(In(Having))
             claimed == Cardinality(In({"drain"}))
  <2>3. held' = held /\ claimed' = claimed
    BY <2>2
  <2>4. claimed \in Nat /\ pending + claimed + drained = MaxInFlight - target
    BY <1>0, <2>1 DEF Counted
  <2>5. Permits(sem) + held + drained = MaxInFlight /\ inFlight = held
    BY <1>0 DEF Counted
  <2>. HIDE DEF held, claimed
  <2>6. pending' + claimed' + drained' = MaxInFlight - target'
    <3>1. /\ target \in Int /\ target' \in Int /\ MaxInFlight \in Int
          /\ drained \in Int /\ pending \in Int /\ pending' \in Int /\ claimed \in Int
      BY <1>0, <1>2, <2>4
    <3>2. pending + claimed + drained = MaxInFlight - target
      BY <2>4
    <3>4. CASE pending' = pending /\ target' = target
      BY <1>1, <2>3, <3>2, <3>4
    <3>5. CASE pending' = pending + 1 /\ target' = target - 1
      BY <1>1, <2>3, <3>1, <3>2, <3>5
    <3>. QED
      BY <1>2, <3>4, <3>5
  <2>7. Permits(sem)' + held' + drained' = MaxInFlight /\ inFlight' = held'
    BY <1>1, <1>4, <2>3, <2>5
  <2>. QED
    BY <2>6, <2>7 DEF Counted, held, claimed
<1>6. Paced'
  <2>1. CASE ReportFailures
    BY <1>0, <2>1 DEF ReportFailures, buckets, Paced
  <2>2. CASE Tick
    BY <1>0, <2>2, BucketAssumption DEF Tick, Refill, AtMost, AtLeast, Paced
  <2>3. CASE UNCHANGED vars
    BY <1>0, <2>3 DEF vars, Paced
  <2>. QED
    BY <2>1, <2>2, <2>3
<1>. QED
  BY <1>3, <1>5, <1>6 DEF IInv

LEMMA StepKeeps ==
  ASSUME IInv, [Next]_vars
  PROVE  IInv'
BY EnterKeeps, ResumeKeeps, HolderKeeps, LeavingKeeps, CancelWaitingKeeps, OthersKeep
   DEF Next, CallerNext, Call, Cancel

LEMMA Inductive == Spec => []IInv
<1>1. Init => IInv
  BY InitKeeps
<1>2. IInv /\ [Next]_vars => IInv'
  BY StepKeeps
<1>. QED
  BY <1>1, <1>2, PTL DEF Spec

-----------------------------------------------------------------------------
(* What follows from the invariant. *)

LEMMA HoldersAreIn == Holders = In(Having) /\ Claims = In({"drain"})
BY DEF Holders, Claims, In, Having

\* The counters are counts: what is left after a shrink is at least the minimum.
InBounds ==
  /\ Cardinality(Holders) \in Nat
  /\ sem.free \in 0..MaxInFlight /\ inFlight \in 0..MaxInFlight
  /\ drained \in 0..(MaxInFlight - MinInFlight)
  /\ pending \in 0..(MaxInFlight - MinInFlight)
  /\ Cardinality(Holders) <= MaxInFlight - drained

LEMMA Bounds == ASSUME IInv PROVE InBounds
<1>. DEFINE held == Cardinality(In(Having))
           claimed == Cardinality(In({"drain"}))
           granted == Cardinality(sem.granted)
<1>1. sem.granted \in SUBSET Callers /\ sem.free \in Nat
  BY DEF IInv, Queued, Sound, Semaphores
<1>2. held \in Nat /\ claimed \in Nat /\ granted \in Nat
  BY <1>1, Finite DEF In
<1>3. /\ drained \in Nat /\ pending \in Nat /\ target \in MinInFlight..MaxInFlight
      /\ MinInFlight \in Nat /\ MaxInFlight \in Nat
  BY SlotsAssumption DEF IInv, Typed
<1>4. /\ sem.free + granted + held + drained = MaxInFlight
      /\ inFlight = held
      /\ pending + claimed + drained = MaxInFlight - target
  BY DEF IInv, Counted, Permits
<1>5. Cardinality(Holders) = held
  BY HoldersAreIn
<1>. HIDE DEF held, claimed, granted
<1>. QED
  BY <1>1, <1>2, <1>3, <1>4, <1>5 DEF InBounds

\* The controller's counters keep their ranges: never more permits free or in
\* flight than there are, and a shrink never goes below the minimum.
THEOREM TypeCorrect == Spec => []TypeOK
<1>1. IInv => TypeOK
  <2>. SUFFICES ASSUME IInv PROVE TypeOK
    OBVIOUS
  <2>1. sem \in [free : 0..MaxInFlight, queue : Seq(Callers), granted : SUBSET Callers]
    BY Bounds DEF InBounds, IInv, Queued, Sound, Semaphores
  <2>2. drained \in 0..(MaxInFlight - MinInFlight) /\ pending \in 0..(MaxInFlight - MinInFlight)
        /\ inFlight \in 0..MaxInFlight
    BY Bounds DEF InBounds
  <2>. QED
    BY <2>1, <2>2 DEF TypeOK, IInv, Typed, Paced
<1>. QED
  BY <1>1, Inductive, PTL

\* Every permit is free, on its way to a waiter, with an agent or drained, and
\* every step of a shrink is owed, claimed or done, whoever is cancelled when.
THEOREM PermitsAreConserved == Spec => []PermitsConserved
<1>1. IInv => PermitsConserved
  <2>. SUFFICES ASSUME IInv PROVE PermitsConserved
    OBVIOUS
  <2>1. Permits(sem) + Cardinality(Holders) + drained = MaxInFlight
        /\ inFlight = Cardinality(Holders)
        /\ pending + Cardinality(Claims) + drained = MaxInFlight - target
    BY HoldersAreIn DEF IInv, Counted
  <2>. QED
    BY <2>1 DEF PermitsConserved, Permits
<1>. QED
  BY <1>1, Inductive, PTL

\* A step moves one caller, or none.
LEMMA OneMoves ==
  ASSUME Typed, Paced, [Next]_vars
  PROVE  \/ place' = place
         \/ \E c \in Callers, p \in Places : place' = [place EXCEPT ![c] = p]
<1>. DEFINE Moves(c) == \E p \in Places : place' = [place EXCEPT ![c] = p]
<1>1. ASSUME NEW c \in Callers, NEW p \in Places, NEW n, GoTo(c, p, n)
      PROVE  Moves(c)
  BY <1>1 DEF GoTo
<1>2. ASSUME NEW c \in Callers, Pace(c) PROVE Moves(c)
  <2>1. PICK p \in {"cooling", "pacing", "calling"} : place' = [place EXCEPT ![c] = p]
    BY <1>2, PaceMoves
  <2>. QED
    BY <2>1 DEF Places
<1>3. ASSUME NEW c \in Callers, Repace(c) PROVE Moves(c)
  <2>1. PICK p \in {"recooling", "repacing", "calling"} : place' = [place EXCEPT ![c] = p]
    BY <1>3, RepaceMoves
  <2>. QED
    BY <2>1 DEF Places
<1>4. ASSUME NEW c \in Callers, NEW s, AskSlot(c, s) PROVE Moves(c)
  BY <1>1, <1>2, <1>4 DEF AskSlot, Places
<1>5. ASSUME NEW c \in Callers, Enter(c) \/ Resume(c) PROVE Moves(c)
  BY <1>1, <1>2, <1>4, <1>5 DEF Enter, Resume, Places
<1>6. ASSUME NEW c \in Callers, Wake(c) \/ Retry(c) \/ RateLimited(c) PROVE Moves(c)
  BY <1>1, <1>2, <1>3, <1>6 DEF Wake, PaceAgain, Retry, RateLimited, Places
<1>7. ASSUME NEW c \in Callers, Leave(c) \/ CancelWaiting(c) PROVE Moves(c)
  BY <1>1, <1>7 DEF Leave, CancelWaiting, Places
<1>8. ASSUME NEW c \in Callers, CallerNext(c) PROVE Moves(c)
  BY <1>5, <1>6, <1>7, <1>8
     DEF CallerNext, Call, Cancel, Succeed, SucceedUnreported, Fail, CancelAcquiring, CancelCalling
<1>9. ASSUME ReportFailures \/ Tick \/ UNCHANGED vars PROVE place' = place
  BY <1>9 DEF ReportFailures, Tick, vars
<1>. QED
  BY <1>8, <1>9 DEF Next

\* The controller is a slot limiter whose limit is what the shrinks left.
THEOREM Implements == Spec => ImplementsSlotLimiter
<1>1. Init => Limiter!Init
  <2>. SUFFICES ASSUME Init PROVE Limiter!Init
    OBVIOUS
  <2>1. Holders = {}
    BY DEF Init, Holders, InAcquire, InCall
  <2>2. MaxInFlight - drained \in 1..MaxInFlight
    BY SlotsAssumption DEF Init
  <2>. QED
    BY <2>1, <2>2 DEF Limiter!Init
<1>2. IInv /\ InBounds' /\ [Next]_vars => [Limiter!Next]_Limiter!vars
  <2>. SUFFICES ASSUME IInv, InBounds', [Next]_vars PROVE [Limiter!Next]_Limiter!vars
    OBVIOUS
  <2>1. Cardinality(Holders)' \in Nat /\ Cardinality(Holders)' <= (MaxInFlight - drained)'
        /\ (MaxInFlight - drained)' \in 1..MaxInFlight
    <3>. DEFINE n == Cardinality(Holders)
    <3>1. n' \in Nat /\ n' <= MaxInFlight - drained' /\ drained' \in 0..(MaxInFlight - MinInFlight)
      BY DEF InBounds
    <3>. HIDE DEF n
    <3>2. \A d, a, b \in Int : a >= 1 /\ d \in 0..(b - a) => b - d \in 1..b
      OBVIOUS
    <3>3. MinInFlight \in Int /\ MinInFlight >= 1 /\ MaxInFlight \in Int /\ drained' \in Int
      BY <3>1, SlotsAssumption
    <3>4. MaxInFlight - drained' \in 1..MaxInFlight
      BY <3>1, <3>2, <3>3
    <3>. QED
      BY <3>1, <3>4 DEF n
  <2>2. Limiter!Cardinality(Holders') = Cardinality(Holders')
    BY DEF Cardinality, Limiter!Cardinality
  <2>3. CASE place' = place
    <3>1. Holders' = Holders
      BY <2>3 DEF Holders
    <3>2. Limiter!Adjust
      BY <2>1, <3>1 DEF Limiter!Adjust
    <3>. QED
      BY <3>2 DEF Limiter!Next
  <2>4. ASSUME NEW c \in Callers, NEW p \in Places, place' = [place EXCEPT ![c] = p]
        PROVE  [Limiter!Next]_Limiter!vars
    <3>0. place \in [Callers -> Places]
      BY DEF IInv, Typed
    <3>1. Holders' = IF p \in Having THEN Holders \cup {c} ELSE Holders \ {c}
      BY <2>4, <3>0, InMoves, HoldersAreIn DEF Holders, Having
    <3>2. CASE c \notin Holders /\ p \in Having
      <4>1. Limiter!Grant(c)
        BY <2>1, <2>2, <3>1, <3>2 DEF Limiter!Grant
      <4>. QED
        BY <4>1 DEF Limiter!Next
    <3>3. CASE c \in Holders /\ p \notin Having
      <4>1. Limiter!Return(c)
        BY <2>1, <3>1, <3>3 DEF Limiter!Return
      <4>. QED
        BY <4>1 DEF Limiter!Next
    <3>4. CASE c \in Holders <=> p \in Having
      <4>1. Holders' = Holders
        BY <3>1, <3>4
      <4>2. Limiter!Adjust
        BY <2>1, <4>1 DEF Limiter!Adjust
      <4>. QED
        BY <4>2 DEF Limiter!Next
    <3>. QED
      BY <3>2, <3>3, <3>4
  <2>. QED
    BY <2>3, <2>4, OneMoves DEF IInv
<1>3. IInv => InBounds
  BY Bounds
<1>. QED
  BY <1>1, <1>2, <1>3, Inductive, PTL DEF Spec, ImplementsSlotLimiter, Limiter!Spec

\* "A 429 anywhere pauses every caller": nobody takes a token while a cooldown
\* runs, however often it was extended during its sleep.
THEOREM NobodyReservesInCooldown == Spec => ReservesAfterCooldown
<1>. DEFINE Held(c) == place[c] # place'[c] /\ place[c] \notin {"pacing", "repacing"}
                        /\ place'[c] \in {"pacing", "repacing", "calling"}
           Kept == \A c \in Callers : Held(c) => cooldown = 0
<1>1. Typed /\ [Next]_vars => Kept
  <2>. SUFFICES ASSUME Typed, [Next]_vars, NEW c \in Callers, Held(c) PROVE cooldown = 0
    BY Zenon
  <2>. USE DEF Typed
  <2>1. ASSUME NEW d \in Callers, NEW p, NEW n, GoTo(d, p, n)
        PROVE  c = d /\ p \in {"pacing", "repacing", "calling"}
    BY <2>1 DEF GoTo
  <2>2. ASSUME NEW d \in Callers, Pace(d) \/ Repace(d) PROVE cooldown = 0
    BY <2>1, <2>2 DEF Pace, Repace
  <2>3. ASSUME NEW d \in Callers, NEW s, AskSlot(d, s) PROVE cooldown = 0
    BY <2>1, <2>2, <2>3 DEF AskSlot
  <2>4. ASSUME NEW d \in Callers, Enter(d) \/ Resume(d) PROVE cooldown = 0
    BY <2>1, <2>2, <2>3, <2>4 DEF Enter, Resume
  <2>5. ASSUME NEW d \in Callers, Wake(d) PROVE cooldown = 0
    BY <2>1, <2>2, <2>5 DEF Wake, PaceAgain, GoTo
  <2>6. ASSUME NEW d \in Callers, Retry(d) \/ RateLimited(d) PROVE cooldown = 0
    BY <2>1, <2>2, <2>6 DEF Retry, RateLimited
  <2>7. ASSUME NEW d \in Callers, Leave(d) \/ CancelWaiting(d) PROVE cooldown = 0
    BY <2>1, <2>7 DEF Leave, CancelWaiting
  <2>8. ASSUME NEW d \in Callers, CallerNext(d) PROVE cooldown = 0
    BY <2>4, <2>5, <2>6, <2>7, <2>8
       DEF CallerNext, Call, Cancel, Succeed, SucceedUnreported, Fail, CancelAcquiring, CancelCalling
  <2>9. ASSUME ReportFailures \/ Tick \/ UNCHANGED vars PROVE FALSE
    BY <2>9 DEF ReportFailures, Tick, vars
  <2>. QED
    BY <2>8, <2>9 DEF Next
<1>2. IInv => Typed
  BY DEF IInv
<1>3. IInv /\ [Next]_vars => [Kept]_vars
  BY <1>1, <1>2
<1>. QED
  BY <1>3, Inductive, PTL DEF Spec, ReservesAfterCooldown

-----------------------------------------------------------------------------
(* The quotas: numbers. *)

LEMMA Times ==
  ASSUME NEW k \in Nat, NEW a \in Int, NEW b \in Int, a <= b
  PROVE  k * a \in Int /\ k * b \in Int /\ k * a <= k * b /\ k * (a + 1) = k * a + k
OBVIOUS

\* Who sleeps the wait of a bucket, or longer, finds it out of its deficit.
LEMMA WaitCovers ==
  ASSUME NEW level \in Int, NEW rate \in Nat \ {0}, NEW w \in Nat, w >= WaitFor(level, rate)
  PROVE  level + rate * w >= 0
<1>1. CASE level >= 0
  <2>1. rate * w >= 0 /\ rate * w \in Int
    OBVIOUS
  <2>. QED
    BY <1>1, <2>1
<1>2. CASE level < 0
  <2>. DEFINE a == rate - 1 - level
             q == a \div rate
  <2>1. a \in Nat /\ q = WaitFor(level, rate)
    BY <1>2 DEF WaitFor
  <2>2. q \in Nat /\ a < rate * (q + 1)
    BY <2>1
  <2>3. rate * q \in Int /\ rate * (q + 1) = rate * q + rate /\ rate * q <= rate * w /\ rate * w \in Int
    BY <2>1, <2>2, Times
  <2>. HIDE DEF q
  <2>. QED
    BY <2>2, <2>3
<1>. QED
  BY <1>1, <1>2

\* Two groups of callers that differ by one caller at most.
LEMMA OneApart ==
  ASSUME NEW S \in SUBSET Callers, NEW T \in SUBSET Callers, NEW c \in Callers,
         \A d \in Callers \ {c} : d \in S <=> d \in T
  PROVE  /\ Cardinality(S) \in Nat /\ Cardinality(T) \in Nat
         /\ (c \in S <=> c \in T) => Cardinality(T) = Cardinality(S)
         /\ c \in T \ S => Cardinality(T) = Cardinality(S) + 1
         /\ c \in S \ T => Cardinality(T) = Cardinality(S) - 1
<1>1. IsFiniteSet(S) /\ Cardinality(S) \in Nat /\ IsFiniteSet(T) /\ Cardinality(T) \in Nat
  BY Finite
<1>2. CASE c \in S <=> c \in T
  <2>1. S = T
    BY <1>2
  <2>. QED
    BY <1>1, <1>2, <2>1
<1>3. CASE c \in T \ S
  <2>1. T = S \cup {c}
    BY <1>3
  <2>. QED
    BY <1>1, <1>3, <2>1, FS_AddElement
<1>4. CASE c \in S \ T
  <2>1. T = S \ {c}
    BY <1>4
  <2>. QED
    BY <1>1, <1>4, <2>1, FS_RemoveElement
<1>. QED
  BY <1>2, <1>3, <1>4

\* One group within another.
LEMMA Within ==
  ASSUME NEW S \in SUBSET Callers, NEW T \in SUBSET S
  PROVE  Cardinality(T) \in Nat /\ Cardinality(S) \in Nat /\ Cardinality(T) <= Cardinality(S)
BY Finite, FS_Subset

LEMMA MaxCostIsMost ==
  /\ MaxCost \in Nat /\ \A n \in Costs : n \in Nat /\ n <= MaxCost
  /\ AvgTokens \in Nat /\ AtLeast(MaxCost, AvgTokens) \in Nat
  /\ MaxCost <= AtLeast(MaxCost, AvgTokens) /\ AvgTokens <= AtLeast(MaxCost, AvgTokens)
<1>1. MaxCost \in Costs /\ \A n \in Costs : n <= MaxCost
  BY CostsAssumption DEF MaxCost
<1>. QED
  BY <1>1, BucketAssumption DEF AtLeast

-----------------------------------------------------------------------------
(* The quotas: the invariant. *)

\* A request's token is reserved, and the request has not left.
Booking == {"pacing", "repacing"}
Booked == In(Booking)
\* Those whose sleep ends within t ticks.
Soon(t) == {c \in Booked : sleep[c] <= t}

\* What was earned covers the bucket's level and what is booked, and, for every
\* time ahead, those who will have sent by then.
RequestsEarned ==
  /\ requests >= rpm + Cardinality(Booked)
  /\ \A t \in Nat : requests + RpmRate * t >= Cardinality(Soon(t))

\* The requests that can still be sent, each known by its call and the retry.
LeftRequests ==
  {r \in (Callers \X (1..Calls)) \X (0..MaxRetries) :
     LET c == r[1][1]
     IN  \/ r[1][2] > calls[c]
         \/ /\ r[1][2] = calls[c] /\ place[c] # "out"
            /\ r[2] > retries[c] \/ (r[2] = retries[c] /\ place[c] # "calling")}

\* A saturated ledger has enough for all of them.
RequestInv == requests \in Int /\ (RequestsEarned \/ requests >= Cardinality(LeftRequests))

\* The same for tokens.  Every call in flight may cost more than estimated.
Misestimate == AtLeast(0, MaxCost - AvgTokens)
Estimating == InCall \cup {"pacing"}
Estimated == In(Estimating)
InTime(t) == {c \in Estimated : place[c] = "pacing" => sleep[c] <= t}

TokensEarned ==
  /\ tokens >= tpm + AvgTokens * Cardinality(Estimated)
  /\ \A t \in Nat : tokens + TpmRate * t + MaxInFlight * Misestimate
                      >= (AvgTokens + Misestimate) * Cardinality(InTime(t))

LeftCalls ==
  {r \in Callers \X (1..Calls) :
     r[2] > calls[r[1]] \/ (r[2] = calls[r[1]] /\ place[r[1]] # "out")}

TokenInv ==
  /\ tokens \in Int
  /\ TokensEarned \/ tokens >= AtLeast(MaxCost, AvgTokens) * Cardinality(LeftCalls)

\* Who is in has begun a call, and only a call has retries.
CallInv ==
  \A c \in Callers : /\ place[c] # "out" => calls[c] >= 1
                     /\ place[c] \notin InCall => retries[c] = 0

LEMMA IntervalCount ==
  ASSUME NEW n \in Nat
  PROVE  /\ IsFiniteSet(1..n) /\ Cardinality(1..n) = n
         /\ IsFiniteSet(0..n) /\ Cardinality(0..n) = n + 1
<1>1. IsFiniteSet(1..n) /\ Cardinality(1..n) = IF 1 > n THEN 0 ELSE n - 1 + 1
  BY FS_Interval
<1>2. IsFiniteSet(0..n) /\ Cardinality(0..n) = IF 0 > n THEN 0 ELSE n - 0 + 1
  BY FS_Interval
<1>. QED
  BY <1>1, <1>2

LEMMA LeftIsFinite ==
  /\ IsFiniteSet(LeftRequests) /\ Cardinality(LeftRequests) \in Nat
  /\ Cardinality(LeftRequests) <= AllRequests /\ AllRequests \in Nat
  /\ IsFiniteSet(LeftCalls) /\ Cardinality(LeftCalls) \in Nat
  /\ AtLeast(MaxCost, AvgTokens) * Cardinality(LeftCalls) <= AllTokens /\ AllTokens \in Nat
<1>. DEFINE n == Cardinality(Callers)
           m == MaxRetries + 1
           pairs == Callers \X (1..Calls)
           triples == pairs \X (0..MaxRetries)
           k == AtLeast(MaxCost, AvgTokens)
<1>1. Calls \in Nat /\ MaxRetries \in Nat /\ IsFiniteSet(Callers) /\ n \in Nat /\ m \in Nat /\ k \in Nat
  BY RetryAssumption, CallersAssumption, FS_CardinalityType, MaxCostIsMost
<1>2. IsFiniteSet(1..Calls) /\ Cardinality(1..Calls) = Calls
  BY RetryAssumption, IntervalCount
<1>3. IsFiniteSet(0..MaxRetries) /\ Cardinality(0..MaxRetries) = m
  BY RetryAssumption, IntervalCount
<1>4. IsFiniteSet(pairs) /\ Cardinality(pairs) = n * Calls
  BY <1>1, <1>2, FS_Product
<1>5. IsFiniteSet(triples) /\ Cardinality(triples) = (n * Calls) * m
  <2>. HIDE DEF pairs, n, m
  <2>. QED
    BY <1>3, <1>4, FS_Product
<1>6. LeftRequests \subseteq triples /\ LeftCalls \subseteq pairs
  BY DEF LeftRequests, LeftCalls
<1>. HIDE DEF n, m, pairs, triples, k
<1>7. /\ IsFiniteSet(LeftRequests) /\ Cardinality(LeftRequests) \in Nat
      /\ Cardinality(LeftRequests) <= (n * Calls) * m
      /\ IsFiniteSet(LeftCalls) /\ Cardinality(LeftCalls) \in Nat
      /\ Cardinality(LeftCalls) <= n * Calls
  BY <1>4, <1>5, <1>6, FS_Subset, FS_CardinalityType
<1>8. n * Calls \in Nat /\ n * Calls = Calls * n
  BY <1>1
<1>9. (n * Calls) * m \in Nat
  BY <1>1, <1>8
<1>10. AllRequests = (n * Calls) * m
  BY <1>8 DEF AllRequests, n, m
<1>11. k * Cardinality(LeftCalls) <= k * (n * Calls) /\ k * (n * Calls) \in Nat /\ k * (n * Calls) = (n * Calls) * k
  <2>. DEFINE x == n * Calls
             y == Cardinality(LeftCalls)
  <2>1. x \in Nat /\ y \in Nat /\ y <= x
    BY <1>7, <1>8
  <2>. HIDE DEF x, y
  <2>2. k * y <= k * x /\ k * x \in Nat /\ k * x = x * k
    BY <1>1, <2>1, Times
  <2>. QED
    BY <2>2 DEF x, y
<1>12. AllTokens = (n * Calls) * k
  BY <1>8 DEF AllTokens, n, k
<1>. QED
  BY <1>7, <1>9, <1>10, <1>11, <1>12 DEF k

-----------------------------------------------------------------------------
(* The quotas: what a caller's move does to them. *)

Only(c) ==
  \A d \in Callers \ {c} : /\ place'[d] = place[d] /\ sleep'[d] = sleep[d]
                           /\ retries'[d] = retries[d] /\ calls'[d] = calls[d]

\* c begins a call, gets further with it, tries again, or leaves.
CallMove(c) ==
  \/ /\ place[c] = "out" /\ place'[c] \notin {"out", "recooling", "repacing"}
     /\ calls'[c] = calls[c] + 1 /\ retries'[c] = retries[c]
  \/ /\ place[c] \notin {"out", "calling"} /\ place'[c] # "out"
     /\ (place[c] \in InCall => place'[c] \in InCall) /\ calls'[c] = calls[c] /\ retries'[c] = retries[c]
  \/ /\ place[c] = "calling" /\ place'[c] \in InCall
     /\ calls'[c] = calls[c] /\ retries'[c] = retries[c] + 1
  \/ /\ place[c] # "out" /\ place'[c] = "out"
     /\ calls'[c] = calls[c] /\ retries'[c] = 0

\* A request leaves.
Sends(c) == place'[c] = "calling" /\ (place[c] # "calling" \/ retries'[c] # retries[c])

\* c leaves the bucket alone, books a token or takes it at once, uses the
\* token it has booked, or gives it back.
RequestMove(c) ==
  \/ place[c] \notin Booking /\ place'[c] \notin Booking /\ ~Sends(c) /\ rpm' = rpm
  \/ /\ place[c] \notin Booking
     /\ place'[c] \in Booking \/ Sends(c)
     /\ rpm' = Reserve(rpm, RpmCap, 1) /\ rpm' + RpmRate * sleep'[c] >= 0
     /\ place'[c] = "calling" => sleep'[c] = 0
  \/ place[c] \in Booking /\ sleep[c] = 0 /\ Sends(c) /\ rpm' = rpm
  \/ place[c] \in Booking /\ place'[c] \notin Booking \cup {"calling"} /\ rpm' = Refund(rpm, RpmCap, 1)

\* c leaves the bucket alone, reserves its estimate, or settles it.
TokenMove(c) ==
  \/ /\ \/ place[c] \notin Estimating /\ place'[c] \notin Estimating
        \/ place[c] \in Estimating /\ place'[c] \in InCall /\ (place[c] = "pacing" => sleep[c] = 0)
     /\ tpm' = tpm /\ tokens' = tokens
  \/ /\ place[c] \notin Estimating /\ place'[c] \in {"pacing", "calling"}
     /\ tpm' = Reserve(tpm, TpmCap, AvgTokens) /\ tpm' + TpmRate * sleep'[c] >= 0
     /\ place'[c] = "calling" => sleep'[c] = 0
     /\ tokens' = tokens
  \/ /\ place[c] \in Estimating /\ place'[c] = "out"
     /\ \E cost \in Nat : /\ cost <= AtLeast(MaxCost, AvgTokens) /\ (place[c] = "pacing" => cost = 0)
                          /\ tokens' = tokens - cost /\ tpm' <= tpm + AvgTokens - cost

LEMMA CallsGoOn ==
  ASSUME IInv, IInv', CallInv, NEW c \in Callers, Only(c), CallMove(c)
  PROVE  CallInv'
<1>1. calls[c] \in Nat /\ calls'[c] \in Nat
  BY RetryAssumption DEF IInv, Paced
<1>2. "calling" \in InCall /\ "out" \notin InCall
  BY DEF InCall
<1>3. (place'[c] # "out" => calls'[c] >= 1) /\ (place'[c] \notin InCall => retries'[c] = 0)
  BY <1>1, <1>2 DEF CallMove, CallInv
<1>. QED
  BY <1>3 DEF CallInv, Only

\* What can still be sent shrinks, by each request that leaves.
LEMMA LeftRequestsShrink ==
  ASSUME IInv, IInv', CallInv, NEW c \in Callers, Only(c), CallMove(c)
  PROVE  /\ LeftRequests' \subseteq LeftRequests
         /\ Sends(c) => \E x \in LeftRequests : x \notin LeftRequests'
<1>1. /\ calls[c] \in Nat /\ calls'[c] \in 0..Calls /\ retries[c] \in Nat /\ retries'[c] \in 0..MaxRetries
      /\ Calls \in Nat /\ MaxRetries \in Nat
  BY RetryAssumption DEF IInv, Paced
<1>2. (place[c] # "out" => calls[c] >= 1) /\ (place[c] \notin InCall => retries[c] = 0)
  BY DEF CallInv
<1>. DEFINE Ahead(p, n, t, i, j) == i > n \/ (i = n /\ p # "out" /\ (j > t \/ (j = t /\ p # "calling")))
<1>3. \A d \in Callers, i \in 1..Calls, j \in 0..MaxRetries :
        /\ <<<<d, i>>, j>> \in LeftRequests <=> Ahead(place[d], calls[d], retries[d], i, j)
        /\ <<<<d, i>>, j>> \in LeftRequests' <=> Ahead(place'[d], calls'[d], retries'[d], i, j)
  BY DEF LeftRequests
<1>4. \A x \in LeftRequests' : \E d \in Callers, i \in 1..Calls, j \in 0..MaxRetries : x = <<<<d, i>>, j>>
  BY DEF LeftRequests
<1>. DEFINE Less == \A i \in 1..Calls, j \in 0..MaxRetries :
                      Ahead(place'[c], calls'[c], retries'[c], i, j) => Ahead(place[c], calls[c], retries[c], i, j)
           Sent1 == Sends(c) => /\ calls'[c] \in 1..Calls
                                /\ Ahead(place[c], calls[c], retries[c], calls'[c], retries'[c])
                                /\ ~Ahead(place'[c], calls'[c], retries'[c], calls'[c], retries'[c])
<1>5. Less /\ Sent1
  <2>0. "calling" \in InCall /\ "out" \notin InCall
    BY DEF InCall
  <2>1. CASE place[c] = "out" /\ place'[c] # "out" /\ calls'[c] = calls[c] + 1 /\ retries'[c] = retries[c]
    BY <1>1, <1>2, <2>0, <2>1 DEF Sends
  <2>2. CASE place[c] \notin {"out", "calling"} /\ place'[c] # "out" /\ calls'[c] = calls[c] /\ retries'[c] = retries[c]
    BY <1>1, <1>2, <2>2 DEF Sends
  <2>3. CASE place[c] = "calling" /\ place'[c] # "out" /\ calls'[c] = calls[c] /\ retries'[c] = retries[c] + 1
    BY <1>1, <1>2, <2>3 DEF Sends
  <2>4. CASE place[c] # "out" /\ place'[c] = "out" /\ calls'[c] = calls[c] /\ retries'[c] = 0
    BY <1>1, <1>2, <2>4 DEF Sends
  <2>. QED
    BY <2>0, <2>1, <2>2, <2>3, <2>4 DEF CallMove
<1>6. LeftRequests' \subseteq LeftRequests
  <2>. SUFFICES ASSUME NEW x \in LeftRequests'
                PROVE  x \in LeftRequests
    OBVIOUS
  <2>1. PICK d \in Callers, i \in 1..Calls, j \in 0..MaxRetries : x = <<<<d, i>>, j>>
    BY <1>4
  <2>2. Ahead(place'[d], calls'[d], retries'[d], i, j)
    BY <1>3, <2>1
  <2>3. Ahead(place[d], calls[d], retries[d], i, j)
    <3>1. CASE d = c
      BY <1>5, <2>2, <3>1
    <3>2. CASE d # c
      BY <2>2, <3>2 DEF Only
    <3>. QED
      BY <3>1, <3>2
  <2>. HIDE DEF Ahead
  <2>. QED
    BY <1>3, <2>1, <2>3
<1>7. ASSUME Sends(c)
      PROVE  \E x \in LeftRequests : x \notin LeftRequests'
  <2>. HIDE DEF Ahead
  <2>1. <<<<c, calls'[c]>>, retries'[c]>> \in LeftRequests /\ <<<<c, calls'[c]>>, retries'[c]>> \notin LeftRequests'
    BY <1>1, <1>3, <1>5, <1>7
  <2>. QED
    BY <2>1
<1>. QED
  BY <1>6, <1>7

LEMMA LeftCallsShrink ==
  ASSUME IInv, IInv', CallInv, NEW c \in Callers, Only(c), CallMove(c)
  PROVE  /\ LeftCalls' \subseteq LeftCalls
         /\ place'[c] = "out" => \E x \in LeftCalls : x \notin LeftCalls'
<1>1. calls[c] \in 0..Calls /\ calls'[c] \in 0..Calls /\ Calls \in Nat
  BY RetryAssumption DEF IInv, Paced
<1>2. place[c] # "out" => calls[c] >= 1
  BY DEF CallInv
<1>. DEFINE Ahead(p, n, i) == i > n \/ (i = n /\ p # "out")
<1>3. \A d \in Callers, i \in 1..Calls :
        /\ <<d, i>> \in LeftCalls <=> Ahead(place[d], calls[d], i)
        /\ <<d, i>> \in LeftCalls' <=> Ahead(place'[d], calls'[d], i)
  BY DEF LeftCalls
<1>4. \A x \in LeftCalls' : \E d \in Callers, i \in 1..Calls : x = <<d, i>>
  BY DEF LeftCalls
<1>5. /\ \A i \in 1..Calls : Ahead(place'[c], calls'[c], i) => Ahead(place[c], calls[c], i)
      /\ place'[c] = "out" => /\ calls[c] \in 1..Calls
                              /\ Ahead(place[c], calls[c], calls[c]) /\ ~Ahead(place'[c], calls'[c], calls[c])
  BY <1>1, <1>2 DEF CallMove, InCall
<1>6. LeftCalls' \subseteq LeftCalls
  <2>. SUFFICES ASSUME NEW x \in LeftCalls'
                PROVE  x \in LeftCalls
    OBVIOUS
  <2>1. PICK d \in Callers, i \in 1..Calls : x = <<d, i>>
    BY <1>4
  <2>2. Ahead(place'[d], calls'[d], i)
    BY <1>3, <2>1
  <2>3. Ahead(place[d], calls[d], i)
    <3>1. CASE d = c
      BY <1>5, <2>2, <3>1
    <3>2. CASE d # c
      BY <2>2, <3>2 DEF Only
    <3>. QED
      BY <3>1, <3>2
  <2>. HIDE DEF Ahead
  <2>. QED
    BY <1>3, <2>1, <2>3
<1>7. ASSUME place'[c] = "out"
      PROVE  \E x \in LeftCalls : x \notin LeftCalls'
  <2>. HIDE DEF Ahead
  <2>1. <<c, calls[c]>> \in LeftCalls /\ <<c, calls[c]>> \notin LeftCalls'
    BY <1>3, <1>5, <1>7
  <2>. QED
    BY <2>1
<1>. QED
  BY <1>6, <1>7

LEMMA Shrinks ==
  ASSUME NEW S, IsFiniteSet(S), NEW T \in SUBSET S
  PROVE  /\ Cardinality(S) \in Nat /\ Cardinality(T) \in Nat /\ Cardinality(T) <= Cardinality(S)
         /\ (\E x \in S : x \notin T) => Cardinality(T) <= Cardinality(S) - 1
<1>1. Cardinality(S) \in Nat /\ Cardinality(T) \in Nat /\ Cardinality(T) <= Cardinality(S)
  BY FS_Subset, FS_CardinalityType
<1>2. ASSUME NEW x \in S, x \notin T
      PROVE  Cardinality(T) <= Cardinality(S) - 1
  <2>1. IsFiniteSet(S \ {x}) /\ Cardinality(S \ {x}) = Cardinality(S) - 1
    BY <1>2, FS_RemoveElement
  <2>2. T \subseteq S \ {x}
    BY <1>2
  <2>. QED
    BY <2>1, <2>2, FS_Subset
<1>. QED
  BY <1>1, <1>2

\* One caller's sleep and place decide whether it is booked, or in time.
LEMMA GroupsMove ==
  ASSUME NEW c \in Callers, Only(c)
  PROVE  /\ Booked \in SUBSET Callers /\ Estimated \in SUBSET Callers
         /\ Booked' \in SUBSET Callers /\ Estimated' \in SUBSET Callers
         /\ \A d \in Callers \ {c} : /\ d \in Booked <=> d \in Booked'
                                     /\ d \in Estimated <=> d \in Estimated'
         /\ \A t \in Nat : /\ Soon(t) \in SUBSET Callers /\ Soon(t)' \in SUBSET Callers
                           /\ InTime(t) \in SUBSET Callers /\ InTime(t)' \in SUBSET Callers
                           /\ \A d \in Callers \ {c} : /\ d \in Soon(t) <=> d \in Soon(t)'
                                                       /\ d \in InTime(t) <=> d \in InTime(t)'
         /\ c \in Booked <=> place[c] \in Booking
         /\ c \in Booked' <=> place'[c] \in Booking
         /\ c \in Estimated <=> place[c] \in Estimating
         /\ c \in Estimated' <=> place'[c] \in Estimating
         /\ \A t \in Nat : /\ c \in Soon(t) <=> place[c] \in Booking /\ sleep[c] <= t
                           /\ c \in Soon(t)' <=> place'[c] \in Booking /\ sleep'[c] <= t
                           /\ c \in InTime(t) <=> place[c] \in Estimating /\ (place[c] = "pacing" => sleep[c] <= t)
                           /\ c \in InTime(t)' <=> place'[c] \in Estimating /\ (place'[c] = "pacing" => sleep'[c] <= t)
BY DEF Only, Booked, Estimated, Soon, InTime, In

LEMMA RequestMoveKeeps ==
  ASSUME IInv, IInv', CallInv, RequestInv, NEW c \in Callers, Only(c), CallMove(c), RequestMove(c),
         requests' = requests - (IF Sends(c) THEN 1 ELSE 0)
  PROVE  RequestInv'
<1>0. /\ rpm \in Int /\ rpm' \in Int /\ requests \in Int /\ requests' \in Int
      /\ RpmRate \in Nat /\ RpmCap \in Nat
      /\ sleep[c] \in Nat /\ sleep'[c] \in Nat
  BY BucketAssumption DEF IInv, Paced, RequestInv
<1>1. ASSUME requests >= Cardinality(LeftRequests)
      PROVE  requests' >= Cardinality(LeftRequests')
  <2>1. /\ LeftRequests' \subseteq LeftRequests
        /\ Sends(c) => \E x \in LeftRequests : x \notin LeftRequests'
    BY LeftRequestsShrink
  <2>2. /\ Cardinality(LeftRequests) \in Nat /\ Cardinality(LeftRequests') \in Nat
        /\ Cardinality(LeftRequests') <= Cardinality(LeftRequests)
        /\ Sends(c) => Cardinality(LeftRequests') <= Cardinality(LeftRequests) - 1
    BY <2>1, LeftIsFinite, Shrinks
  <2>. QED
    BY <1>0, <1>1, <2>2
<1>2. ASSUME RequestsEarned
      PROVE  RequestsEarned'
  <2>. DEFINE b0 == Cardinality(Booked)
             b1 == Cardinality(Booked')
             s0(t) == Cardinality(Soon(t))
             s1(t) == Cardinality(Soon(t)')
             is(p) == IF p THEN 1 ELSE 0
             was == place[c] \in Booking
             willBe == place'[c] \in Booking
  <2>1. b0 \in Nat /\ b1 = b0 + is(willBe) - is(was) /\ b1 \in Nat
    BY GroupsMove, OneApart
  <2>2. ASSUME NEW t \in Nat
        PROVE  /\ s0(t) \in Nat /\ s1(t) \in Nat /\ s0(t) <= b0
               /\ s1(t) = s0(t) + is(willBe /\ sleep'[c] <= t) - is(was /\ sleep[c] <= t)
    <3>1. Soon(t) \in SUBSET Booked /\ Booked \in SUBSET Callers
      BY GroupsMove DEF Soon
    <3>2. s0(t) <= b0
      BY <3>1, Within
    <3>. QED
      BY <2>2, <3>2, GroupsMove, OneApart
  <2>3. requests >= rpm + b0 /\ \A t \in Nat : requests + RpmRate * t >= s0(t)
    BY <1>2 DEF RequestsEarned
  <2>4. \A t \in Nat : RpmRate * t \in Nat
    BY <1>0
  <2>. HIDE DEF b0, b1, s0, s1
  <2>5. /\ requests' >= rpm' + b1
        /\ \A t \in Nat : requests' + RpmRate * t >= s1(t)
    <3>1. CASE ~was /\ ~willBe /\ ~Sends(c) /\ rpm' = rpm
      BY <1>0, <2>1, <2>2, <2>3, <2>4, <3>1
    <3>2. CASE /\ ~was /\ (willBe \/ Sends(c))
               /\ rpm' = Reserve(rpm, RpmCap, 1) /\ rpm' + RpmRate * sleep'[c] >= 0
               /\ (place'[c] = "calling" => sleep'[c] = 0)
      <4>1. rpm' <= rpm - 1
        BY <1>0, <3>2 DEF Reserve, AtMost
      <4>2. is(willBe) + (IF Sends(c) THEN 1 ELSE 0) = 1
        BY <3>2 DEF Booking, Sends
      <4>3. requests' >= rpm' + b1
        BY <1>0, <2>1, <2>3, <3>2, <4>1, <4>2
      <4>4. ASSUME NEW t \in Nat
            PROVE  requests' + RpmRate * t >= s1(t)
        <5>1. CASE willBe /\ sleep'[c] > t
          <6>1. ~Sends(c) /\ s1(t) = s0(t)
            BY <1>0, <2>2, <3>2, <4>2, <5>1
          <6>. QED
            BY <1>0, <2>3, <6>1
        <5>2. CASE ~(willBe /\ sleep'[c] > t)
          <6>1. sleep'[c] <= t
            BY <1>0, <3>2, <5>2 DEF Sends
          <6>2. RpmRate * sleep'[c] <= RpmRate * t /\ RpmRate * sleep'[c] \in Int /\ RpmRate * t \in Int
            BY <1>0, <6>1, Times
          <6>3. requests' + RpmRate * t >= b1
            BY <1>0, <2>1, <3>2, <4>3, <6>2
          <6>4. s1(t) <= b1
            BY <2>1, <2>2, <3>2, <6>1
          <6>. QED
            BY <1>0, <2>1, <2>2, <6>2, <6>3, <6>4
        <5>. QED
          BY <5>1, <5>2
      <4>. QED
        BY <4>3, <4>4
    <3>3. CASE was /\ sleep[c] = 0 /\ Sends(c) /\ rpm' = rpm
      <4>1. ~willBe
        BY <3>3 DEF Booking, Sends
      <4>. QED
        BY <1>0, <2>1, <2>2, <2>3, <2>4, <3>3, <4>1
    <3>4. CASE was /\ ~willBe /\ ~Sends(c) /\ rpm' = Refund(rpm, RpmCap, 1)
      <4>1. rpm' <= rpm + 1
        BY <1>0, <3>4 DEF Refund, AtMost
      <4>2. requests' >= rpm' + b1
        BY <1>0, <2>1, <2>3, <3>4, <4>1
      <4>3. \A t \in Nat : s1(t) <= s0(t)
        BY <2>2, <3>4
      <4>. QED
        BY <1>0, <2>2, <2>3, <2>4, <3>4, <4>2, <4>3
    <3>. QED
      BY <3>1, <3>2, <3>3, <3>4 DEF RequestMove, Sends, Booking
  <2>. QED
    BY <2>5 DEF RequestsEarned, b1, s1
<1>. QED
  BY <1>0, <1>1, <1>2 DEF RequestInv

LEMMA Misestimates ==
  /\ Misestimate \in Nat /\ AvgTokens + Misestimate = AtLeast(MaxCost, AvgTokens)
  /\ AvgTokens + Misestimate \in Nat /\ MaxInFlight * Misestimate \in Nat
<1>1. MaxCost \in Nat /\ AvgTokens \in Nat /\ MaxInFlight \in Nat
  BY MaxCostIsMost, SlotsAssumption
<1>2. Misestimate \in Nat /\ AvgTokens + Misestimate = AtLeast(MaxCost, AvgTokens)
  BY <1>1 DEF Misestimate, AtLeast
<1>. HIDE DEF Misestimate
<1>. QED
  BY <1>1, <1>2

LEMMA TokenMoveKeeps ==
  ASSUME IInv, IInv', InBounds', CallInv, TokenInv, NEW c \in Callers, Only(c), CallMove(c), TokenMove(c)
  PROVE  TokenInv'
<1>. DEFINE k == AtLeast(MaxCost, AvgTokens)
           slack == MaxInFlight * Misestimate
<1>0. /\ tpm \in Int /\ tpm' \in Int /\ tokens \in Int /\ tokens' \in Int
      /\ TpmRate \in Nat /\ TpmCap \in Nat /\ AvgTokens \in Nat
      /\ sleep[c] \in Nat /\ sleep'[c] \in Nat
      /\ k \in Nat /\ slack \in Nat /\ k = AvgTokens + Misestimate
  BY BucketAssumption, Misestimates DEF IInv, Paced, TokenInv, TokenMove
<1>. HIDE DEF k, slack
<1>1. ASSUME tokens >= k * Cardinality(LeftCalls)
      PROVE  tokens' >= k * Cardinality(LeftCalls')
  <2>. DEFINE l0 == Cardinality(LeftCalls)
             l1 == Cardinality(LeftCalls')
  <2>1. l0 \in Nat /\ l1 \in Nat /\ l1 <= l0 /\ (place'[c] = "out" => l1 <= l0 - 1)
    BY LeftCallsShrink, LeftIsFinite, Shrinks
  <2>2. tokens >= k * l0
    BY <1>1
  <2>. HIDE DEF l0, l1
  <2>3. CASE tokens' = tokens
    <3>1. k * l1 <= k * l0 /\ k * l1 \in Int /\ k * l0 \in Int
      BY <1>0, <2>1, Times
    <3>. QED
      BY <1>0, <2>2, <2>3, <3>1 DEF l1
  <2>4. ASSUME place'[c] = "out", NEW cost \in Nat, cost <= k, tokens' = tokens - cost
        PROVE  tokens' >= k * l1
    <3>1. l1 + 1 <= l0 /\ l1 + 1 \in Int
      BY <2>1, <2>4
    <3>2. k * (l1 + 1) <= k * l0 /\ k * (l1 + 1) \in Int /\ k * l0 \in Int
      BY <1>0, <2>1, <3>1, Times
    <3>3. k * (l1 + 1) = k * l1 + k /\ k * l1 \in Int
      BY <1>0, <2>1, Times
    <3>. QED
      BY <1>0, <2>2, <2>4, <3>2, <3>3
  <2>. QED
    BY <2>3, <2>4 DEF TokenMove, l1, k
<1>2. ASSUME TokensEarned
      PROVE  TokensEarned'
  <2>. DEFINE q0 == Cardinality(Estimated)
             q1 == Cardinality(Estimated')
             n0(t) == Cardinality(InTime(t))
             n1(t) == Cardinality(InTime(t)')
             is(p) == IF p THEN 1 ELSE 0
             was == place[c] \in Estimating
             willBe == place'[c] \in Estimating
             early(t) == was /\ (place[c] = "pacing" => sleep[c] <= t)
             earlyThen(t) == willBe /\ (place'[c] = "pacing" => sleep'[c] <= t)
  <2>1. q0 \in Nat /\ q1 = q0 + is(willBe) - is(was) /\ q1 \in Nat
    BY GroupsMove, OneApart
  <2>2. ASSUME NEW t \in Nat
        PROVE  /\ n0(t) \in Nat /\ n1(t) \in Nat /\ n1(t) <= q1
               /\ n1(t) = n0(t) + is(earlyThen(t)) - is(early(t))
    <3>1. InTime(t)' \in SUBSET Estimated' /\ Estimated' \in SUBSET Callers
      BY GroupsMove DEF InTime
    <3>2. n1(t) <= q1
      BY <3>1, Within
    <3>. QED
      BY <2>2, <3>2, GroupsMove, OneApart
  <2>3. q1 <= MaxInFlight
    <3>1. Estimated' \in SUBSET Holders' /\ Holders' \in SUBSET Callers
      BY DEF Estimated, Estimating, In, Holders, InAcquire
    <3>2. q1 <= Cardinality(Holders')
      BY <3>1, Within
    <3>3. Cardinality(Holders') <= MaxInFlight - drained' /\ drained' \in Nat /\ MaxInFlight \in Nat
          /\ Cardinality(Holders') \in Nat
      BY SlotsAssumption DEF InBounds
    <3>. QED
      BY <2>1, <3>2, <3>3
  <2>4. tokens >= tpm + AvgTokens * q0 /\ \A t \in Nat : tokens + TpmRate * t + slack >= k * n0(t)
    BY <1>0, <1>2 DEF TokensEarned, slack
  <2>5. ASSUME NEW t \in Nat
        PROVE  /\ TpmRate * t \in Nat
               /\ k * n0(t) \in Nat /\ k * n1(t) \in Nat
               /\ n1(t) = n0(t) => k * n1(t) = k * n0(t)
               /\ n1(t) = n0(t) - 1 => k * n1(t) = k * n0(t) - k
    <3>1. n0(t) \in Nat /\ n1(t) \in Nat
      BY <2>2
    <3>. HIDE DEF n0, n1
    <3>2. TpmRate * t \in Nat /\ k * n0(t) \in Nat /\ k * n1(t) \in Nat
      BY <1>0, <3>1
    <3>3. k * (n1(t) + 1) = k * n1(t) + k
      BY <1>0, <3>1, Times
    <3>4. n1(t) = n0(t) - 1 => n0(t) = n1(t) + 1
      BY <3>1
    <3>5. n1(t) = n0(t) - 1 => k * n0(t) = k * n1(t) + k
      BY <3>3, <3>4
    <3>. QED
      BY <1>0, <3>2, <3>5
  <2>6. /\ AvgTokens * q0 \in Nat /\ AvgTokens * q1 \in Nat
        /\ q1 = q0 => AvgTokens * q1 = AvgTokens * q0
        /\ q1 = q0 + 1 => AvgTokens * q1 = AvgTokens * q0 + AvgTokens
        /\ q1 = q0 - 1 => AvgTokens * q1 = AvgTokens * q0 - AvgTokens
    <3>1. q0 \in Nat /\ q1 \in Nat
      BY <2>1
    <3>. HIDE DEF q0, q1
    <3>2. /\ AvgTokens * (q0 + 1) = AvgTokens * q0 + AvgTokens
          /\ AvgTokens * (q1 + 1) = AvgTokens * q1 + AvgTokens
      BY <1>0, <3>1, Times
    <3>3. AvgTokens * q0 \in Nat /\ AvgTokens * q1 \in Nat
      BY <1>0, <3>1
    <3>4. q1 = q0 - 1 => q0 = q1 + 1
      BY <3>1
    <3>5. q1 = q0 - 1 => AvgTokens * q0 = AvgTokens * q1 + AvgTokens
      BY <3>2, <3>4
    <3>. QED
      BY <1>0, <3>2, <3>3, <3>5
  <2>. HIDE DEF q0, q1, n0, n1
  <2>7. /\ tokens' >= tpm' + AvgTokens * q1
        /\ \A t \in Nat : tokens' + TpmRate * t + slack >= k * n1(t)
    <3>1. CASE ~was /\ ~willBe /\ tpm' = tpm /\ tokens' = tokens
      <4>1. q1 = q0 /\ \A t \in Nat : n1(t) = n0(t)
        BY <2>1, <2>2, <3>1
      <4>. QED
        BY <2>4, <2>5, <2>6, <3>1, <4>1
    <3>2. CASE /\ was /\ place'[c] \in InCall /\ (place[c] = "pacing" => sleep[c] = 0)
               /\ tpm' = tpm /\ tokens' = tokens
      <4>1. willBe /\ place'[c] # "pacing"
        BY <3>2 DEF InCall, Estimating
      <4>2. q1 = q0 /\ \A t \in Nat : n1(t) = n0(t)
        BY <2>1, <2>2, <3>2, <4>1
      <4>. QED
        BY <2>4, <2>5, <2>6, <3>2, <4>2
    <3>3. CASE /\ ~was /\ willBe /\ place'[c] \in {"pacing", "calling"}
               /\ tpm' = Reserve(tpm, TpmCap, AvgTokens) /\ tpm' + TpmRate * sleep'[c] >= 0
               /\ (place'[c] = "calling" => sleep'[c] = 0) /\ tokens' = tokens
      <4>1. tpm' <= tpm - AvgTokens
        BY <1>0, <3>3 DEF Reserve, AtMost
      <4>2. q1 = q0 + 1
        BY <2>1, <3>3
      <4>3. tokens' >= tpm' + AvgTokens * q1
        BY <1>0, <2>4, <2>6, <3>3, <4>1, <4>2
      <4>4. ASSUME NEW t \in Nat
            PROVE  tokens' + TpmRate * t + slack >= k * n1(t)
        <5>1. CASE ~earlyThen(t)
          <6>1. n1(t) = n0(t)
            BY <2>2, <3>3, <5>1
          <6>. QED
            BY <2>4, <2>5, <3>3, <6>1
        <5>2. CASE earlyThen(t)
          <6>1. sleep'[c] <= t
            BY <1>0, <3>3, <5>2
          <6>2. TpmRate * sleep'[c] <= TpmRate * t /\ TpmRate * sleep'[c] \in Int /\ TpmRate * t \in Int
            BY <1>0, <6>1, Times
          <6>3. tokens' + TpmRate * t >= AvgTokens * q1
            BY <1>0, <2>6, <3>3, <4>3, <6>2
          <6>4. n1(t) \in Nat /\ n1(t) <= q1 /\ n1(t) <= MaxInFlight /\ q1 \in Nat /\ MaxInFlight \in Nat /\ Misestimate \in Nat
            BY <2>1, <2>2, <2>3, SlotsAssumption, Misestimates
          <6>5. AvgTokens * n1(t) <= AvgTokens * q1 /\ AvgTokens * n1(t) \in Int
            BY <1>0, <6>4, Times
          <6>6. Misestimate * n1(t) <= Misestimate * MaxInFlight /\ Misestimate * n1(t) \in Int
            BY <6>4, Times
          <6>7. slack = Misestimate * MaxInFlight
            BY <6>4 DEF slack
          <6>8. k * n1(t) = AvgTokens * n1(t) + Misestimate * n1(t)
            BY <1>0, <6>4
          <6>. QED
            BY <1>0, <2>6, <6>2, <6>3, <6>5, <6>6, <6>7, <6>8
        <5>. QED
          BY <5>1, <5>2
      <4>. QED
        BY <4>3, <4>4
    <3>4. ASSUME was, ~willBe, NEW cost \in Nat, cost <= k, place[c] = "pacing" => cost = 0,
                 tokens' = tokens - cost, tpm' <= tpm + AvgTokens - cost
          PROVE  /\ tokens' >= tpm' + AvgTokens * q1
                 /\ \A t \in Nat : tokens' + TpmRate * t + slack >= k * n1(t)
      <4>1. q1 = q0 - 1
        BY <2>1, <3>4
      <4>2. tokens' >= tpm' + AvgTokens * q1
        BY <1>0, <2>4, <2>6, <3>4, <4>1
      <4>3. ASSUME NEW t \in Nat
            PROVE  tokens' + TpmRate * t + slack >= k * n1(t)
        <5>1. n1(t) = n0(t) - 1 \/ (n1(t) = n0(t) /\ cost = 0)
          BY <2>2, <3>4
        <5>2. k * n1(t) = k * n0(t) - k \/ (k * n1(t) = k * n0(t) /\ cost = 0)
          BY <2>5, <5>1
        <5>3. tokens + TpmRate * t + slack >= k * n0(t) /\ TpmRate * t \in Nat /\ k * n0(t) \in Nat /\ k * n1(t) \in Nat
          BY <2>4, <2>5
        <5>. QED
          BY <1>0, <3>4, <5>2, <5>3
      <4>. QED
        BY <4>2, <4>3
    <3>5. "out" \notin Estimating /\ "pacing" \in Estimating /\ "calling" \in Estimating
      BY DEF Estimating, InCall
    <3>. QED
      BY <3>1, <3>2, <3>3, <3>4, <3>5 DEF TokenMove, k
  <2>. QED
    BY <1>0, <2>7 DEF TokensEarned, q1, n1, slack
<1>. QED
  BY <1>0, <1>1, <1>2 DEF TokenInv, k

-----------------------------------------------------------------------------
(* The quotas: every step. *)

Still(c) == \A d \in Callers \ {c} : place'[d] = place[d] /\ sleep'[d] = sleep[d]

LEMMA Goes ==
  ASSUME IInv, NEW c \in Callers, NEW p, NEW n, GoTo(c, p, n)
  PROVE  Still(c) /\ place'[c] = p /\ sleep'[c] = n
BY DEF IInv, Typed, Paced, GoTo, Still

\* What acquire() does with a permit, seen from the buckets.
LEMMA PaceBooks ==
  ASSUME IInv, NEW c \in Callers, Pace(c), place[c] \in {"out", "drain", "slot", "cooling"}, tokens' = tokens
  PROVE  /\ Still(c) /\ place'[c] \in {"cooling", "pacing", "calling"}
         /\ RequestMove(c) /\ TokenMove(c)
<1>0. /\ rpm \in Int /\ tpm \in Int
      /\ {RpmCap, RpmRate, TpmCap, TpmRate, AvgTokens} \subseteq Nat \ {0}
      /\ place[c] \notin Booking /\ place[c] \notin Estimating /\ place[c] # "calling"
  BY BucketAssumption DEF IInv, Paced, Booking, Estimating, InCall
<1>1. CASE cooldown > 0
  <2>1. GoTo(c, "cooling", cooldown) /\ rpm' = rpm /\ tpm' = tpm
    BY <1>1 DEF Pace, buckets, IInv, Paced
  <2>2. Still(c) /\ place'[c] = "cooling"
    BY <2>1, Goes
  <2>. QED
    BY <1>0, <2>1, <2>2 DEF RequestMove, TokenMove, Booking, Estimating, InCall, Sends
<1>2. CASE cooldown = 0
  <2>. DEFINE w == AtLeast(WaitFor(rpm', RpmRate), WaitFor(tpm', TpmRate))
             p == IF w > 0 THEN "pacing" ELSE "calling"
  <2>1. rpm' = Reserve(rpm, RpmCap, 1) /\ tpm' = Reserve(tpm, TpmCap, AvgTokens) /\ GoTo(c, p, w)
    BY <1>2 DEF Pace
  <2>2. rpm' \in Int /\ tpm' \in Int
    BY <1>0, <2>1 DEF Reserve, AtMost
  <2>3. WaitFor(rpm', RpmRate) \in Nat /\ WaitFor(tpm', TpmRate) \in Nat
    BY <1>0, <2>2, WaitIsNat
  <2>4. w \in Nat /\ w >= WaitFor(rpm', RpmRate) /\ w >= WaitFor(tpm', TpmRate)
    BY <2>3 DEF AtLeast
  <2>. HIDE DEF w
  <2>5. rpm' + RpmRate * w >= 0 /\ tpm' + TpmRate * w >= 0
    BY <1>0, <2>2, <2>4, WaitCovers
  <2>6. Still(c) /\ place'[c] = p /\ sleep'[c] = w
    BY <2>1, Goes
  <2>7. place'[c] \in {"pacing", "calling"} /\ (place'[c] = "calling" => sleep'[c] = 0)
    BY <2>4, <2>6
  <2>8. place'[c] \in Booking \/ Sends(c)
    BY <1>0, <2>7 DEF Booking, Sends
  <2>9. RequestMove(c)
    BY <1>0, <2>1, <2>5, <2>6, <2>7, <2>8 DEF RequestMove
  <2>10. TokenMove(c)
    BY <1>0, <2>1, <2>5, <2>6, <2>7 DEF TokenMove
  <2>. QED
    BY <2>6, <2>7, <2>9, <2>10
<1>. QED
  BY <1>1, <1>2 DEF Pace

\* What before_retry() does, seen from the buckets.
LEMMA RepaceBooks ==
  ASSUME IInv, NEW c \in Callers, Repace(c), place[c] \in {"calling", "recooling"},
         place[c] = "calling" => retries'[c] # retries[c],
         tpm' = tpm, tokens' = tokens
  PROVE  /\ Still(c) /\ place'[c] \in {"recooling", "repacing", "calling"}
         /\ RequestMove(c) /\ TokenMove(c)
<1>0. /\ rpm \in Int /\ {RpmCap, RpmRate} \subseteq Nat \ {0}
      /\ place[c] \notin Booking /\ place[c] \in Estimating /\ place[c] \in InCall /\ place[c] # "pacing"
  BY BucketAssumption DEF IInv, Paced, Booking, Estimating, InCall
<1>1. CASE cooldown > 0
  <2>1. GoTo(c, "recooling", cooldown) /\ rpm' = rpm
    BY <1>1 DEF Repace, IInv, Paced
  <2>2. Still(c) /\ place'[c] = "recooling"
    BY <2>1, Goes
  <2>3. RequestMove(c)
    BY <1>0, <2>1, <2>2 DEF RequestMove, Booking, Sends
  <2>4. TokenMove(c)
    BY <1>0, <2>2 DEF TokenMove, InCall
  <2>. QED
    BY <2>2, <2>3, <2>4
<1>2. CASE cooldown = 0
  <2>. DEFINE w == WaitFor(rpm', RpmRate)
             p == IF w > 0 THEN "repacing" ELSE "calling"
  <2>1. rpm' = Reserve(rpm, RpmCap, 1) /\ GoTo(c, p, w)
    BY <1>2 DEF Repace
  <2>2. rpm' \in Int
    BY <1>0, <2>1 DEF Reserve, AtMost
  <2>3. w \in Nat /\ rpm' + RpmRate * w >= 0
    BY <1>0, <2>2, WaitIsNat, WaitCovers
  <2>. HIDE DEF w
  <2>4. Still(c) /\ place'[c] = p /\ sleep'[c] = w
    BY <2>1, Goes
  <2>5. place'[c] \in {"repacing", "calling"} /\ (place'[c] = "calling" => sleep'[c] = 0)
    BY <2>3, <2>4
  <2>6. place'[c] \in Booking \/ Sends(c)
    BY <2>5 DEF Booking, Sends
  <2>7. RequestMove(c)
    BY <1>0, <2>1, <2>3, <2>4, <2>5, <2>6 DEF RequestMove
  <2>8. TokenMove(c)
    BY <1>0, <2>5 DEF TokenMove, InCall
  <2>. QED
    BY <2>4, <2>5, <2>7, <2>8
<1>. QED
  BY <1>1, <1>2 DEF Repace

\* A caller that asks for its slot takes nothing from the buckets, or paces.
LEMMA AskSlotBooks ==
  ASSUME IInv, NEW c \in Callers, NEW s, AskSlot(c, s), place[c] \in {"out", "drain"}, tokens' = tokens
  PROVE  /\ Still(c) /\ place'[c] \in {"slot", "cooling", "pacing", "calling"}
         /\ RequestMove(c) /\ TokenMove(c)
<1>1. CASE Pace(c)
  BY <1>1, PaceBooks
<1>2. CASE GoTo(c, "slot", 0) /\ rpm' = rpm /\ tpm' = tpm
  BY <1>2, Goes DEF RequestMove, TokenMove, Booking, Estimating, InCall, Sends
<1>. QED
  BY <1>1, <1>2 DEF AskSlot, buckets

\* What the ledgers see of one caller.
Accounted(c) == Only(c) /\ CallMove(c) /\ RequestMove(c) /\ TokenMove(c)

LEMMA EnterBooks ==
  ASSUME IInv, NEW c \in Callers, Enter(c), tokens' = tokens
  PROVE  Accounted(c)
<1>1. /\ place[c] = "out" /\ calls' = [calls EXCEPT ![c] = @ + 1] /\ retries' = retries
      /\ calls \in [Callers -> 0..Calls]
  BY DEF Enter, IInv, Paced
<1>2. Still(c) /\ place'[c] \in {"drain", "slot", "cooling", "pacing", "calling"} /\ RequestMove(c) /\ TokenMove(c)
  <2>1. ASSUME NEW s, AskSlot(c, s)
        PROVE  Still(c) /\ place'[c] \in {"drain", "slot", "cooling", "pacing", "calling"} /\ RequestMove(c) /\ TokenMove(c)
    BY <1>1, <2>1, AskSlotBooks
  <2>2. CASE GoTo(c, "drain", 0) /\ rpm' = rpm /\ tpm' = tpm
    BY <1>1, <2>2, Goes DEF RequestMove, TokenMove, Booking, Estimating, InCall, Sends
  <2>. QED
    BY <2>1, <2>2 DEF Enter, buckets
<1>. QED
  BY <1>1, <1>2 DEF Accounted, Only, Still, CallMove

LEMMA ResumeBooks ==
  ASSUME IInv, CallInv, NEW c \in Callers, Resume(c), tokens' = tokens
  PROVE  Accounted(c)
<1>1. place[c] \in {"drain", "slot"} /\ calls' = calls /\ retries' = retries
  BY DEF Resume
<1>2. Still(c) /\ place'[c] \in {"slot", "cooling", "pacing", "calling"} /\ RequestMove(c) /\ TokenMove(c)
  BY <1>1, AskSlotBooks, PaceBooks DEF Resume
<1>. QED
  BY <1>1, <1>2 DEF Accounted, Only, Still, CallMove, InCall

LEMMA WakeBooks ==
  ASSUME IInv, CallInv, NEW c \in Callers, Wake(c), tokens' = tokens
  PROVE  Accounted(c)
<1>1. /\ calls' = calls /\ retries' = retries /\ sleep[c] = 0
      /\ place[c] \in {"cooling", "recooling", "pacing", "repacing"}
  BY DEF Wake
<1>2. /\ Still(c) /\ RequestMove(c) /\ TokenMove(c)
      /\ place'[c] \in {"cooling", "pacing", "calling", "recooling", "repacing"}
      /\ place[c] \in InCall => place'[c] \in InCall
  <2>1. CASE place[c] = "cooling" /\ Pace(c)
    BY <2>1, PaceBooks DEF InCall
  <2>2. CASE place[c] = "recooling" /\ Repace(c) /\ tpm' = tpm
    BY <2>2, RepaceBooks DEF InCall
  <2>3. CASE place[c] \in {"pacing", "repacing"} /\ GoTo(c, "calling", 0) /\ rpm' = rpm /\ tpm' = tpm
    BY <1>1, <2>3, Goes DEF RequestMove, TokenMove, Booking, Estimating, InCall, Sends
  <2>. QED
    BY <2>1, <2>2, <2>3 DEF Wake, PaceAgain, buckets
<1>. QED
  BY <1>1, <1>2 DEF Accounted, Only, Still, CallMove

LEMMA RetryBooks ==
  ASSUME IInv, NEW c \in Callers, Retry(c) \/ RateLimited(c), tokens' = tokens
  PROVE  Accounted(c)
<1>1. /\ place[c] = "calling" /\ calls' = calls /\ tpm' = tpm
      /\ retries' = [retries EXCEPT ![c] = @ + 1] /\ retries \in [Callers -> 0..MaxRetries]
  BY DEF Retry, RateLimited, IInv, Paced
<1>2. retries'[c] = retries[c] + 1 /\ retries'[c] # retries[c] /\ \A d \in Callers \ {c} : retries'[d] = retries[d]
  BY <1>1, RetryAssumption
<1>3. Still(c) /\ place'[c] \in InCall /\ RequestMove(c) /\ TokenMove(c)
  <2>1. CASE Repace(c)
    <3>1. /\ Still(c) /\ RequestMove(c) /\ TokenMove(c)
          /\ place'[c] \in {"recooling", "repacing", "calling"}
      BY <1>1, <1>2, <2>1, RepaceBooks
    <3>. QED
      BY <3>1 DEF InCall
  <2>2. CASE GoTo(c, "recooling", cooldown') /\ rpm' = rpm
    BY <1>1, <2>2, Goes DEF RequestMove, TokenMove, Booking, Estimating, InCall, Sends
  <2>. QED
    BY <2>1, <2>2 DEF Retry, RateLimited
<1>. QED
  BY <1>1, <1>2, <1>3 DEF Accounted, Only, Still, CallMove

LEMMA LeaveBooks ==
  ASSUME IInv, CallInv, NEW c \in Callers,
         \/ \E cost \in Costs : Succeed(c, cost) /\ tokens' = tokens - cost
         \/ (SucceedUnreported(c) \/ CancelCalling(c)) /\ tokens' = tokens - AvgTokens
         \/ (Fail(c) \/ CancelAcquiring(c) \/ CancelWaiting(c)) /\ tokens' = tokens,
         tokens \in Int
  PROVE  Accounted(c)
<1>0. /\ rpm \in Int /\ tpm \in Int /\ {RpmCap, TpmCap, AvgTokens} \subseteq Nat \ {0}
      /\ retries \in [Callers -> 0..MaxRetries]
  BY BucketAssumption DEF IInv, Paced
<1>1. GoTo(c, "out", 0) /\ calls' = calls
  BY DEF Succeed, SucceedUnreported, CancelCalling, Fail, CancelAcquiring, CancelWaiting, Leave
<1>2. place[c] \in Waiting \cup InAcquire \cup InCall
  BY DEF Succeed, SucceedUnreported, CancelCalling, Fail, CancelAcquiring, CancelWaiting, Waiting, InAcquire, InCall
<1>3. retries'[c] = 0 /\ \A d \in Callers \ {c} : retries'[d] = retries[d]
  <2>1. CASE CancelWaiting(c)
    BY <2>1 DEF CancelWaiting, CallInv, Waiting, InCall
  <2>2. CASE ~CancelWaiting(c)
    <3>1. retries' = [retries EXCEPT ![c] = 0]
      BY <2>2 DEF Succeed, SucceedUnreported, CancelCalling, Fail, CancelAcquiring, Leave
    <3>. QED
      BY <1>0, <3>1
  <2>. QED
    BY <2>1, <2>2
<1>4. Still(c) /\ place'[c] = "out"
  BY <1>1, Goes
<1>5. Only(c) /\ CallMove(c)
  BY <1>1, <1>2, <1>3, <1>4 DEF Only, Still, CallMove, Waiting, InAcquire, InCall
<1>6. RequestMove(c)
  <2>1. CASE place[c] \in Booking /\ rpm' = Refund(rpm, RpmCap, 1)
    BY <1>4, <2>1 DEF RequestMove, Booking
  <2>2. CASE place[c] \notin Booking /\ rpm' = rpm
    BY <1>4, <2>2 DEF RequestMove, Booking, Sends
  <2>3. ASSUME (\E cost \in Costs : Succeed(c, cost)) \/ SucceedUnreported(c) \/ Fail(c)
        PROVE  place[c] = "calling" /\ rpm' = rpm
    BY <2>3 DEF Succeed, SucceedUnreported, Fail, buckets
  <2>4. ASSUME CancelCalling(c) \/ CancelAcquiring(c) \/ CancelWaiting(c)
        PROVE  (place[c] \in Booking /\ rpm' = Refund(rpm, RpmCap, 1)) \/ (place[c] \notin Booking /\ rpm' = rpm)
    BY <2>4 DEF CancelCalling, CancelAcquiring, CancelWaiting, buckets, Booking, Waiting
  <2>. QED
    BY <2>1, <2>2, <2>3, <2>4 DEF Booking
<1>7. TokenMove(c)
  <2>0. place'[c] = "out" /\ "out" \notin Estimating
    BY <1>4 DEF Estimating, InCall
  <2>1. ASSUME NEW cost \in Nat, cost <= AtLeast(MaxCost, AvgTokens), place[c] \in Estimating,
               place[c] = "pacing" => cost = 0,
               tokens' = tokens - cost, tpm' <= tpm + AvgTokens - cost
        PROVE  TokenMove(c)
    BY <2>0, <2>1 DEF TokenMove
  <2>2. ASSUME NEW cost \in Costs, Succeed(c, cost), tokens' = tokens - cost
        PROVE  TokenMove(c)
    <3>1. cost \in Nat /\ cost <= AtLeast(MaxCost, AvgTokens)
      BY MaxCostIsMost
    <3>2. place[c] = "calling" /\ tpm' = AtMost(TpmCap, tpm) + (AvgTokens - cost)
      BY <2>2 DEF Succeed, Reconcile, Refund
    <3>3. tpm' <= tpm + AvgTokens - cost
      BY <1>0, <3>1, <3>2 DEF AtMost
    <3>. QED
      BY <2>1, <2>2, <3>1, <3>2, <3>3 DEF Estimating, InCall
  <2>3. CASE (SucceedUnreported(c) \/ CancelCalling(c)) /\ tokens' = tokens - AvgTokens
    <3>1. place[c] \in InCall /\ place[c] # "pacing" /\ tpm' = tpm
      BY <2>3 DEF SucceedUnreported, CancelCalling, buckets, InCall
    <3>2. tpm' <= tpm + AvgTokens - AvgTokens
      BY <1>0, <3>1
    <3>3. AvgTokens \in Nat /\ AvgTokens <= AtLeast(MaxCost, AvgTokens)
      BY MaxCostIsMost
    <3>. QED
      BY <2>1, <2>3, <3>1, <3>2, <3>3 DEF Estimating
  <2>4. CASE (Fail(c) \/ (CancelAcquiring(c) /\ place[c] = "pacing")) /\ tokens' = tokens
    <3>1. place[c] \in {"calling", "pacing"} /\ tpm' = Refund(tpm, TpmCap, AvgTokens)
      BY <2>4 DEF Fail, CancelAcquiring
    <3>2. tpm' <= tpm + AvgTokens - 0 /\ tokens' = tokens - 0
      BY <1>0, <2>4, <3>1 DEF Refund, AtMost
    <3>3. 0 <= AtLeast(MaxCost, AvgTokens)
      BY MaxCostIsMost
    <3>. QED
      BY <2>1, <3>1, <3>2, <3>3 DEF Estimating, InCall
  <2>5. CASE (CancelWaiting(c) \/ (CancelAcquiring(c) /\ place[c] = "cooling")) /\ tokens' = tokens
    <3>1. place[c] \notin Estimating /\ tpm' = tpm
      BY <2>5 DEF CancelWaiting, CancelAcquiring, buckets, Estimating, InCall, Waiting
    <3>. QED
      BY <2>0, <2>5, <3>1 DEF TokenMove
  <2>6. CancelAcquiring(c) => place[c] \in {"cooling", "pacing"}
    BY DEF CancelAcquiring
  <2>. QED
    BY <2>2, <2>3, <2>4, <2>5, <2>6
<1>. QED
  BY <1>5, <1>6, <1>7 DEF Accounted

LEMMA SentIsOne ==
  ASSUME NEW c \in Callers, Only(c)
  PROVE  Cardinality(Sent) = IF Sends(c) THEN 1 ELSE 0
<1>1. Sent = IF Sends(c) THEN {c} ELSE {}
  BY DEF Sent, Sends, Only
<1>2. Cardinality({}) = 0 /\ Cardinality({c}) = 1
  BY FS_EmptySet, FS_Singleton
<1>. QED
  BY <1>1, <1>2

HInv == IInv /\ CallInv /\ RequestInv /\ TokenInv

LEMMA CallKeeps ==
  ASSUME HInv, IInv', InBounds', NEW c \in Callers, HCall(c)
  PROVE  HInv'
<1>1. IInv /\ CallInv /\ RequestInv /\ TokenInv /\ tokens \in Int
  BY DEF HInv, TokenInv
<1>2. Accounted(c)
  <2>1. CASE \E cost \in Costs : Succeed(c, cost) /\ tokens' = tokens - cost
    BY <1>1, <2>1, LeaveBooks
  <2>2. CASE (SucceedUnreported(c) \/ CancelCalling(c)) /\ tokens' = tokens - AvgTokens
    BY <1>1, <2>2, LeaveBooks
  <2>3. CASE (Fail(c) \/ CancelWaiting(c) \/ CancelAcquiring(c)) /\ tokens' = tokens
    BY <1>1, <2>3, LeaveBooks
  <2>4. CASE (Enter(c) \/ Resume(c) \/ Wake(c) \/ Retry(c) \/ RateLimited(c)) /\ tokens' = tokens
    BY <1>1, <2>4, EnterBooks, ResumeBooks, WakeBooks, RetryBooks
  <2>. QED
    BY <2>1, <2>2, <2>3, <2>4 DEF HCall
<1>3. Only(c) /\ CallMove(c) /\ RequestMove(c) /\ TokenMove(c)
  BY <1>2 DEF Accounted
<1>4. requests' = requests - (IF Sends(c) THEN 1 ELSE 0)
  BY <1>3, SentIsOne DEF HCall
<1>5. CallInv'
  BY <1>1, <1>3, CallsGoOn
<1>6. RequestInv'
  BY <1>1, <1>3, <1>4, RequestMoveKeeps
<1>7. TokenInv'
  BY <1>1, <1>3, TokenMoveKeeps
<1>. QED
  BY <1>5, <1>6, <1>7 DEF HInv

\* Time passes: what is earned until t from now was earned until t + 1 before.
LEMMA TickKeeps ==
  ASSUME HInv, IInv', HTick
  PROVE  HInv'
<1>0. /\ rpm \in Int /\ tpm \in Int /\ requests \in Int /\ tokens \in Int
      /\ {RpmCap, RpmRate, TpmCap, TpmRate, AvgTokens} \subseteq Nat \ {0}
      /\ sleep \in [Callers -> Nat]
      /\ RequestInv /\ TokenInv /\ CallInv
  BY BucketAssumption DEF HInv, IInv, Paced, RequestInv, TokenInv
<1>1. /\ rpm' = AtMost(RpmCap, rpm + RpmRate) /\ tpm' = AtMost(TpmCap, tpm + TpmRate)
      /\ requests' = AtMost(requests + RpmRate, AllRequests) /\ tokens' = AtMost(tokens + TpmRate, AllTokens)
      /\ sleep' = [c \in Callers |-> AtLeast(0, sleep[c] - 1)]
      /\ place' = place /\ retries' = retries /\ calls' = calls
  BY DEF HTick, Tick, Refill
<1>2. CallInv'
  BY <1>0, <1>1 DEF CallInv
<1>3. LeftRequests' = LeftRequests /\ LeftCalls' = LeftCalls /\ Booked' = Booked /\ Estimated' = Estimated
  BY <1>1 DEF LeftRequests, LeftCalls, Booked, Estimated, In
<1>4. \A c \in Callers : sleep[c] \in Nat /\ sleep'[c] \in Nat /\ sleep[c] <= sleep'[c] + 1
  BY <1>0, <1>1 DEF AtLeast
<1>5. ASSUME NEW t \in Nat
      PROVE  /\ t + 1 \in Nat
             /\ Soon(t)' \in SUBSET Soon(t + 1) /\ Soon(t + 1) \in SUBSET Callers
             /\ InTime(t)' \in SUBSET InTime(t + 1) /\ InTime(t + 1) \in SUBSET Callers
  BY <1>1, <1>3, <1>4 DEF Soon, InTime, Booked, Estimated, In
<1>6. RequestInv'
  <2>1. AllRequests \in Nat /\ requests' \in Int
    BY <1>0, <1>1, LeftIsFinite DEF AtMost
  <2>2. CASE requests >= Cardinality(LeftRequests) \/ requests' = AllRequests
    BY <1>0, <1>1, <1>3, <2>1, <2>2, LeftIsFinite DEF RequestInv, AtMost
  <2>3. CASE RequestsEarned /\ requests' = requests + RpmRate
    <3>. DEFINE b == Cardinality(Booked)
               s1(t) == Cardinality(Soon(t)')
    <3>1. b \in Nat /\ Cardinality(Booked') = b
      BY <1>3, Finite DEF Booked, In
    <3>2. ASSUME NEW t \in Nat
          PROVE  requests' + RpmRate * t >= s1(t)
      <4>. DEFINE s0 == Cardinality(Soon(t + 1))
      <4>1. s1(t) \in Nat /\ s0 \in Nat /\ s1(t) <= s0
        BY <1>5, Within
      <4>2. requests + RpmRate * (t + 1) >= s0
        BY <1>5, <2>3 DEF RequestsEarned
      <4>3. RpmRate * (t + 1) = RpmRate * t + RpmRate /\ RpmRate * t \in Int
        BY <1>0, Times
      <4>. HIDE DEF s0, s1
      <4>. QED
        BY <1>0, <2>3, <4>1, <4>2, <4>3
    <3>3. requests' >= rpm' + b
      BY <1>0, <1>1, <2>3, <3>1 DEF RequestsEarned, AtMost
    <3>. QED
      BY <2>1, <3>1, <3>2, <3>3 DEF RequestInv, RequestsEarned
  <2>. QED
    BY <1>0, <1>1, <2>2, <2>3 DEF RequestInv, AtMost
<1>7. TokenInv'
  <2>. DEFINE k == AtLeast(MaxCost, AvgTokens)
             l == Cardinality(LeftCalls)
             slack == MaxInFlight * Misestimate
  <2>1. /\ AllTokens \in Nat /\ tokens' \in Int /\ k \in Nat /\ l \in Nat /\ k * l <= AllTokens /\ k * l \in Int
        /\ slack \in Nat /\ k = AvgTokens + Misestimate
    <3>1. AllTokens \in Nat /\ k \in Nat /\ l \in Nat /\ k * l <= AllTokens
      BY LeftIsFinite, MaxCostIsMost
    <3>2. tokens' \in Int
      BY <1>0, <1>1, <3>1 DEF AtMost
    <3>3. k * l \in Int
      <4>. HIDE DEF k, l
      <4>. QED
        BY <3>1
    <3>4. slack \in Nat /\ k = AvgTokens + Misestimate
      BY Misestimates
    <3>. QED
      BY <3>1, <3>2, <3>3, <3>4
  <2>. HIDE DEF k, l, slack
  <2>2. CASE tokens >= k * l \/ tokens' = AllTokens
    <3>1. tokens' >= k * l
      BY <1>0, <1>1, <2>1, <2>2 DEF AtMost
    <3>. QED
      BY <1>3, <2>1, <3>1 DEF TokenInv, k, l
  <2>3. CASE TokensEarned /\ tokens' = tokens + TpmRate
    <3>. DEFINE q == Cardinality(Estimated)
               n1(t) == Cardinality(InTime(t)')
    <3>1. q \in Nat /\ Cardinality(Estimated') = q /\ AvgTokens * q \in Nat
      <4>1. q \in Nat /\ Cardinality(Estimated') = q
        BY <1>3, Finite DEF Estimated, In
      <4>. HIDE DEF q
      <4>. QED
        BY <1>0, <4>1
    <3>2. ASSUME NEW t \in Nat
          PROVE  tokens' + TpmRate * t + slack >= k * n1(t)
      <4>. DEFINE n0 == Cardinality(InTime(t + 1))
      <4>1. n1(t) \in Nat /\ n0 \in Nat /\ n1(t) <= n0
        BY <1>5, Within
      <4>2. tokens + TpmRate * (t + 1) + slack >= k * n0
        BY <1>5, <2>1, <2>3 DEF TokensEarned, slack
      <4>3. TpmRate * (t + 1) = TpmRate * t + TpmRate /\ TpmRate * t \in Int
        BY <1>0, Times
      <4>. HIDE DEF n0, n1
      <4>4. k * n1(t) <= k * n0 /\ k * n1(t) \in Int /\ k * n0 \in Int
        BY <2>1, <4>1, Times
      <4>. QED
        BY <1>0, <2>1, <2>3, <4>2, <4>3, <4>4
    <3>3. tokens' >= tpm' + AvgTokens * q
      <4>1. tokens >= tpm + AvgTokens * q
        BY <2>3 DEF TokensEarned
      <4>. HIDE DEF q
      <4>. QED
        BY <1>0, <1>1, <2>3, <3>1, <4>1 DEF AtMost
    <3>. QED
      BY <2>1, <3>1, <3>2, <3>3 DEF TokenInv, TokensEarned, k, slack
  <2>. QED
    BY <1>0, <1>1, <2>2, <2>3 DEF TokenInv, AtMost, k, l
<1>. QED
  BY <1>2, <1>6, <1>7 DEF HInv

LEMMA QuotasStart ==
  ASSUME HInit
  PROVE  HInv
<1>1. IInv
  BY InitKeeps DEF HInit
<1>2. /\ place = [c \in Callers |-> "out"] /\ retries = [c \in Callers |-> 0]
      /\ rpm = RpmCap /\ tpm = TpmCap
      /\ requests = AtMost(RpmCap, AllRequests) /\ tokens = AtMost(TpmCap, AllTokens)
      /\ {RpmCap, RpmRate, TpmCap, TpmRate, AvgTokens} \subseteq Nat \ {0}
  BY BucketAssumption DEF HInit, Init
<1>3. CallInv
  BY <1>2 DEF CallInv
<1>4. Booked = {} /\ Estimated = {} /\ \A t \in Nat : Soon(t) = {} /\ InTime(t) = {}
  BY <1>2 DEF Booked, Estimated, Soon, InTime, In, Booking, Estimating, InCall
<1>5. Cardinality(Booked) = 0 /\ Cardinality(Estimated) = 0
      /\ \A t \in Nat : Cardinality(Soon(t)) = 0 /\ Cardinality(InTime(t)) = 0
  BY <1>4, FS_EmptySet
<1>6. RequestInv
  <2>1. CASE requests = RpmCap
    <3>1. \A t \in Nat : RpmRate * t \in Nat
      BY <1>2
    <3>2. requests \in Int /\ requests = rpm /\ requests \in Nat
      BY <1>2, <2>1
    <3>3. RequestsEarned
      <4>1. requests >= rpm + Cardinality(Booked)
        BY <1>5, <3>2
      <4>2. \A t \in Nat : requests + RpmRate * t >= Cardinality(Soon(t))
        <5>. SUFFICES ASSUME NEW t \in Nat
                      PROVE  requests + RpmRate * t >= Cardinality(Soon(t))
          OBVIOUS
        <5>1. Cardinality(Soon(t)) = 0 /\ RpmRate * t \in Nat
          BY <1>5, <3>1
        <5>. QED
          BY <3>2, <5>1
      <4>. QED
        BY <4>1, <4>2 DEF RequestsEarned
    <3>. QED
      BY <3>2, <3>3 DEF RequestInv
  <2>2. CASE requests = AllRequests
    BY <2>2, LeftIsFinite DEF RequestInv
  <2>. QED
    BY <1>2, <2>1, <2>2 DEF AtMost
<1>7. TokenInv
  <2>1. CASE tokens = TpmCap
    <3>1. \A t \in Nat : TpmRate * t \in Nat
      BY <1>2
    <3>2. /\ MaxInFlight * Misestimate \in Nat /\ AvgTokens + Misestimate \in Nat
          /\ (AvgTokens + Misestimate) * 0 = 0 /\ AvgTokens * 0 = 0
      BY <1>2, Misestimates
    <3>3. tokens \in Nat /\ tokens = tpm
      BY <1>2, <2>1
    <3>4. TokensEarned
      <4>1. tokens >= tpm + AvgTokens * Cardinality(Estimated)
        BY <1>5, <3>2, <3>3
      <4>2. ASSUME NEW t \in Nat
            PROVE  tokens + TpmRate * t + MaxInFlight * Misestimate
                     >= (AvgTokens + Misestimate) * Cardinality(InTime(t))
        <5>1. Cardinality(InTime(t)) = 0 /\ TpmRate * t \in Nat
          BY <1>5, <3>1
        <5>. QED
          BY <3>2, <3>3, <5>1
      <4>. QED
        BY <4>1, <4>2 DEF TokensEarned
    <3>. QED
      BY <3>3, <3>4 DEF TokenInv
  <2>2. CASE tokens = AllTokens
    BY <2>2, LeftIsFinite DEF TokenInv
  <2>. QED
    BY <1>2, <2>1, <2>2 DEF AtMost
<1>. QED
  BY <1>1, <1>3, <1>6, <1>7 DEF HInv

LEMMA HistoryIsNext == [HNext]_hvars => [Next]_vars
BY DEF HNext, HCall, HTick, Next, CallerNext, Call, Cancel, hvars, vars

LEMMA QuotasStep ==
  ASSUME HInv, InBounds', [HNext]_hvars
  PROVE  HInv'
<1>1. IInv'
  BY StepKeeps, HistoryIsNext DEF HInv
<1>2. ASSUME NEW c \in Callers, HCall(c)
      PROVE  HInv'
  BY <1>1, <1>2, CallKeeps
<1>3. CASE HTick
  BY <1>1, <1>3, TickKeeps
<1>4. ASSUME UNCHANGED <<place, sleep, retries, calls, rpm, tpm, requests, tokens>>
      PROVE  HInv'
  <2>1. CallInv'
    BY <1>4 DEF HInv, CallInv
  <2>2. RequestInv'
    BY <1>4 DEF HInv, RequestInv, RequestsEarned, LeftRequests, Booked, Soon, In
  <2>3. TokenInv'
    BY <1>4 DEF HInv, TokenInv, TokensEarned, LeftCalls, Estimated, InTime, In
  <2>. QED
    BY <1>1, <2>1, <2>2, <2>3 DEF HInv
<1>5. ReportFailures /\ UNCHANGED <<requests, tokens>> =>
        UNCHANGED <<place, sleep, retries, calls, rpm, tpm, requests, tokens>>
  BY DEF ReportFailures, buckets
<1>6. UNCHANGED hvars => UNCHANGED <<place, sleep, retries, calls, rpm, tpm, requests, tokens>>
  BY DEF hvars, vars
<1>. QED
  BY <1>2, <1>3, <1>4, <1>5, <1>6 DEF HNext

\* The ledgers only watch.
THEOREM LedgersWatch == HSpec => Spec
<1>1. HInit => Init
  BY DEF HInit
<1>. QED
  BY <1>1, HistoryIsNext, PTL DEF HSpec, Spec

\* However calls, retries, cancellations and 429s interleave: the requests sent
\* stay within a minute's quota plus what time has earned, and the tokens spent
\* exceed it by no more than the misestimates of the calls in flight.
THEOREM QuotasAreKept == HSpec => []QuotasKept
<1>1. HInit => HInv
  BY QuotasStart
<1>2. HInv /\ InBounds' /\ [HNext]_hvars => HInv'
  BY QuotasStep
<1>3. HSpec => []InBounds
  <2>1. IInv => InBounds
    BY Bounds
  <2>. QED
    BY <2>1, LedgersWatch, Inductive, PTL
<1>4. HInv => QuotasKept
  <2>. SUFFICES ASSUME HInv
                PROVE  QuotasKept
    OBVIOUS
  <2>1. requests >= 0
    <3>1. CASE RequestsEarned
      <4>1. requests + RpmRate * 0 >= Cardinality(Soon(0))
        BY <3>1 DEF RequestsEarned
      <4>2. Soon(0) \in SUBSET Callers
        BY DEF Soon, Booked, In
      <4>3. Cardinality(Soon(0)) \in Nat /\ RpmRate * 0 = 0
        BY <4>2, Finite, BucketAssumption
      <4>. QED
        BY <4>1, <4>3 DEF HInv, RequestInv
    <3>2. CASE requests >= Cardinality(LeftRequests)
      BY <3>2, LeftIsFinite DEF HInv, RequestInv
    <3>. QED
      BY <3>1, <3>2 DEF HInv, RequestInv
  <2>2. tokens >= 0 - MaxInFlight * Misestimate
    <3>. DEFINE slack == MaxInFlight * Misestimate
               k == AvgTokens + Misestimate
    <3>1. slack \in Nat /\ k \in Nat /\ tokens \in Int
      BY Misestimates DEF HInv, TokenInv
    <3>2. CASE TokensEarned
      <4>. DEFINE n == Cardinality(InTime(0))
      <4>1. tokens + TpmRate * 0 + slack >= k * n
        BY <3>2 DEF TokensEarned
      <4>2. InTime(0) \in SUBSET Callers
        BY DEF InTime, Estimated, In
      <4>3. n \in Nat /\ TpmRate * 0 = 0
        BY <4>2, Finite, BucketAssumption
      <4>. HIDE DEF slack, k, n
      <4>4. k * n \in Nat
        BY <3>1, <4>3
      <4>5. tokens >= 0 - slack
        BY <3>1, <4>1, <4>3, <4>4
      <4>. QED
        BY <4>5 DEF slack
    <3>3. CASE tokens >= AtLeast(MaxCost, AvgTokens) * Cardinality(LeftCalls)
      <4>. DEFINE l == Cardinality(LeftCalls)
      <4>1. l \in Nat /\ k = AtLeast(MaxCost, AvgTokens)
        BY LeftIsFinite, Misestimates
      <4>2. tokens >= k * l
        BY <3>3, <4>1
      <4>. HIDE DEF slack, k, l
      <4>3. k * l \in Nat
        BY <3>1, <4>1
      <4>4. tokens >= 0 - slack
        BY <3>1, <4>2, <4>3
      <4>. QED
        BY <4>4 DEF slack
    <3>. QED
      BY <3>2, <3>3 DEF HInv, TokenInv
  <2>. QED
    BY <2>1, <2>2 DEF QuotasKept, Misestimate
<1>. QED
  BY <1>1, <1>2, <1>3, <1>4, PTL DEF HSpec
=============================================================================
