------------------------- MODULE ControlPlane_proofs -------------------------
(* Proofs about JwksCache, for any callers, keys, documents, refresh interval *)
(* and timeout, and then about ControlPlane over it, for any connections and  *)
(* tokens.  The former use nothing of ControlPlane, its assumption included.  *)

EXTENDS ControlPlane, FiniteSetTheorems, SequenceTheorems, TLAPS

-----------------------------------------------------------------------------
(* The cache, its lock and the ages of its keys.                              *)

\* The write lock: who has come past it holds it, alone.
Owned == /\ \A t \in Caller : pc[t] \in {"check", "fetch"} <=> t \in holder
         /\ \A t, u \in holder : t = u

\* A document is on its way to a holder that fetches, within the timeout.
Fetching == /\ served # {} => \E t \in holder : pc[t] = "fetch"
            /\ \A S, R \in served : S = R
            /\ \A t \in holder : pc[t] = "fetch" =>
                 fetchStart <= now /\ now <= fetchStart + FetchTimeout

\* The ages: what is on its way was published since the fetch began, what is
\* cached was so at most one fetch before it was cached.
Aged == /\ \A k \in Kid : retired[k] <= now
        /\ \A S \in served : \A k \in S : fetchStart <= LastPublished(k)
        /\ \A S \in keys : \A k \in S : lastFetch <= LastPublished(k) + FetchTimeout

IInv == TypeOK /\ Owned /\ Fetching /\ Aged

-----------------------------------------------------------------------------

\* Nothing is cached, fetched or locked at first.
LEMMA InitIInv == Init => IInv
<1> SUFFICES ASSUME Init
             PROVE  IInv
  OBVIOUS
<1> USE CacheAssumption DEF Init, Never
<1>1. TypeOK
  BY DEF TypeOK
<1>2. Owned /\ Fetching
  BY DEF Owned, Fetching
<1>3. Aged
  BY DEF Aged
<1> QED
  BY <1>1, <1>2, <1>3 DEF IInv

\* The time a key was last published never moves back, whatever is published.
LEMMA PublishKeepsAges ==
    ASSUME IInv, NEW S \in KeySets, Publish(S)
    PROVE  \A k \in Kid : LastPublished(k) <= LastPublished(k)'
  BY CacheAssumption DEF IInv, TypeOK, Aged, Publish, LastPublished, Never

\* A rotation leaves the cache and its callers alone.
LEMMA PublishKeeps ==
    ASSUME IInv, NEW S \in KeySets, Publish(S)
    PROVE  IInv'
<1> USE CacheAssumption DEF IInv, Publish, cacheVars, fetchVars, callVars
<1>1. TypeOK'
  BY DEF TypeOK, Never
<1>2. Owned' /\ Fetching'
  BY DEF Owned, Fetching
<1>3. \A k \in Kid : retired'[k] <= now
  BY DEF TypeOK, Aged, Never
<1>4. \A k \in Kid : LastPublished(k) \in Int /\ LastPublished(k)' \in Int
  BY <1>1 DEF TypeOK, LastPublished
<1>5. \A R \in served \cup keys : R \subseteq Kid
  BY DEF TypeOK
<1>6. Aged'
  BY <1>3, <1>4, <1>5, PublishKeepsAges DEF TypeOK, Aged
<1> QED
  BY <1>1, <1>2, <1>6

CallsTyped == /\ pc \in [Caller -> {"idle", "read", "lock", "check", "fetch"}]
              /\ want \in [Caller -> SUBSET Kid]
              /\ since \in [Caller -> 0..MaxTime]
              /\ answer \in {"none", "key", "stale", "error"}

\* A caller that returns or goes on is where a caller can be.
LEMMA CallerMoves ==
    ASSUME CallsTyped, NEW t \in Caller,
           \/ \E a \in {"key", "stale", "error"} : Return(t, a)
           \/ \E to \in {"lock", "check", "fetch"} : Goto(t, to)
    PROVE  CallsTyped'
<1>1. CASE \E a \in {"key", "stale", "error"} : Return(t, a)
  BY <1>1, CacheAssumption DEF CallsTyped, Return
<1>2. CASE \E to \in {"lock", "check", "fetch"} : Goto(t, to)
  BY <1>2 DEF CallsTyped, Goto
<1> QED
  BY <1>1, <1>2

\* Neither does a step of getKey make anything older.
LEMMA GetKeyKeeps ==
    ASSUME IInv, NEW t \in Caller, GetKey(t)
    PROVE  IInv'
<1> USE CacheAssumption
    DEF IInv, TypeOK, Owned, Fetching, Aged, LastPublished,
        Return, Goto, idpVars, cacheVars, fetchVars, callVars
<1>1. CASE Read(t)
  <2>1. CASE Cached(t)
    <3>1. TypeOK'
      <4>1. CallsTyped'
        BY <1>1, <2>1, CallerMoves DEF Read, CallsTyped
      <4> QED
        BY <1>1, <2>1, <4>1 DEF Read, CallsTyped
    <3>2. Owned'
      BY <1>1, <2>1 DEF Read
    <3>3. Fetching'
      BY <1>1, <2>1 DEF Read
    <3>4. Aged'
      BY <1>1, <2>1 DEF Read
    <3> QED
      BY <3>1, <3>2, <3>3, <3>4
  <2>2. CASE ~Cached(t)
    <3>1. TypeOK'
      <4>1. CallsTyped'
        BY <1>1, <2>2, CallerMoves DEF Read, CallsTyped
      <4>2. queue' \in Seq(Caller)
        <5>1. queue' = Append(queue, t)
          BY <1>1, <2>2 DEF Read
        <5>2. queue \in Seq(Caller)
          OBVIOUS
        <5> QED
          BY <5>1, <5>2, AppendProperties
      <4>3. /\ UNCHANGED <<now, published, retired, reachable, keys, lastFetch>>
            /\ UNCHANGED <<holder, served, fetchStart>>
        BY <1>1 DEF Read
      <4> QED
        BY <4>1, <4>2, <4>3 DEF CallsTyped
    <3>2. Owned'
      BY <1>1, <2>2 DEF Read
    <3>3. Fetching'
      BY <1>1, <2>2 DEF Read
    <3>4. Aged'
      BY <1>1, <2>2 DEF Read
    <3> QED
      BY <3>1, <3>2, <3>3, <3>4
  <2> QED
    BY <2>1, <2>2
<1>2. CASE Lock(t)
  BY <1>2 DEF Lock
<1>3. CASE Check(t)
  <2>1. CASE Cached(t)
    <3>1. TypeOK'
      <4>1. CallsTyped'
        BY <1>3, <2>1, CallerMoves DEF Check, CallsTyped
      <4> QED
        BY <1>3, <2>1, <4>1 DEF Check, CallsTyped
    <3>2. Owned'
      BY <1>3, <2>1 DEF Check
    <3>3. Fetching'
      BY <1>3, <2>1 DEF Check
    <3>4. Aged'
      BY <1>3, <2>1 DEF Check
    <3> QED
      BY <3>1, <3>2, <3>3, <3>4
  <2>2. CASE ~Cached(t)
    <3>1. TypeOK'
      <4>1. CallsTyped'
        BY <1>3, <2>2, CallerMoves DEF Check, CallsTyped
      <4> QED
        BY <1>3, <2>2, <4>1 DEF Check, CallsTyped
    <3>2. Owned'
      BY <1>3, <2>2 DEF Check
    <3>3. Fetching'
      BY <1>3, <2>2 DEF Check
    <3>4. Aged'
      BY <1>3, <2>2 DEF Check
    <3> QED
      BY <3>1, <3>2, <3>3, <3>4
  <2> QED
    BY <2>1, <2>2
<1>4. CASE FetchReturns(t)
  <2>1. PICK S \in KeySets : served = {S} /\ S # {}
    <3>1. PICK S \in served : TRUE
      BY <1>4 DEF FetchReturns
    <3>2. \A R : R \in served <=> R = S
      BY <3>1, Zenon
    <3>3. served = {S}
      BY <3>2, Zenon
    <3> QED
      BY <1>4, <3>1, <3>3 DEF FetchReturns
  <2>2. keys' = {S} /\ holder' = {} /\ holder = {t}
    BY <1>4, <2>1 DEF FetchReturns, Unlock
  <2>3. TypeOK'
    BY <1>4, <2>1, <2>2 DEF FetchReturns, Unlock
  <2>4. Owned' /\ Fetching'
    BY <1>4, <2>2 DEF FetchReturns, Unlock
  <2>5. Aged'
    BY <1>4, <2>1, <2>2 DEF FetchReturns, Unlock
  <2> QED
    BY <2>3, <2>4, <2>5
<1>5. CASE FetchFails(t)
  BY <1>5 DEF FetchFails, Unlock
<1> QED
  BY <1>1, <1>2, <1>3, <1>4, <1>5 DEF GetKey, Fetch

\* Nor does anything else.
LEMMA NextIInv == IInv /\ [Next]_vars => IInv'
<1> SUFFICES ASSUME IInv, [Next]_vars
             PROVE  IInv'
  OBVIOUS
<1> USE CacheAssumption
<1>1. CASE UNCHANGED vars
  BY <1>1 DEF vars, idpVars, cacheVars, fetchVars, callVars,
              IInv, TypeOK, Owned, Fetching, Aged, LastPublished
<1>2. ASSUME NEW t \in Caller, GetKey(t)
      PROVE  IInv'
  BY <1>2, GetKeyKeeps
<1>3. ASSUME NEW t \in Caller, NEW k \in Kid, Call(t, k)
      PROVE  IInv'
  BY <1>3 DEF Call, idpVars, cacheVars, fetchVars,
              IInv, TypeOK, Owned, Fetching, Aged, LastPublished
<1>4. ASSUME NEW S \in KeySets, Publish(S)
      PROVE  IInv'
  BY <1>4, PublishKeeps
<1>5. CASE Outage
  BY <1>5 DEF Outage, cacheVars, fetchVars, callVars,
              IInv, TypeOK, Owned, Fetching, Aged, LastPublished
<1>6. CASE Serve
  BY <1>6 DEF Serve, idpVars, cacheVars, callVars,
              IInv, TypeOK, Owned, Fetching, Aged, LastPublished
<1>7. CASE Tick
  BY <1>7 DEF Tick, idpVars, cacheVars, fetchVars, callVars,
              IInv, TypeOK, Owned, Fetching, Aged, LastPublished
<1> QED
  BY <1>1, <1>2, <1>3, <1>4, <1>5, <1>6, <1>7 DEF Next

\* The ages hold, however often the provider rotates its keys, goes and comes.
THEOREM Invariance == Spec => []IInv
  BY InitIInv, NextIInv, PTL DEF Spec

\* All variables keep their types; the cache never holds an unusable document.
THEOREM TypeCorrect == Spec => []TypeOK
<1>1. IInv => TypeOK
  BY DEF IInv
<1> QED
  BY Invariance, <1>1, PTL

-----------------------------------------------------------------------------

Recent(k) == now <= LastPublished(k) + FetchTimeout + (IF Refresh > 0 THEN Refresh ELSE 0)

\* A key from the cache is as recent as the cache, and that is young enough.
LEMMA CachedIsRecent ==
    ASSUME IInv, NEW t \in Caller, NEW k \in Kid, want[t] = {k}, Cached(t)
    PROVE  Recent(k)
<1>1. PICK S \in keys : k \in S
  BY DEF Cached, Holds
<1>2. lastFetch <= LastPublished(k) + FetchTimeout
  BY <1>1 DEF IInv, Aged
<1>3. now \in Int /\ lastFetch \in Int /\ LastPublished(k) \in Int
  BY DEF IInv, TypeOK, LastPublished
<1> QED
  BY <1>2, <1>3, CacheAssumption DEF Cached, Recent

\* So is a key from a document that has just arrived.
LEMMA ServedIsRecent ==
    ASSUME IInv, NEW t \in Caller, NEW k \in Kid, want[t] = {k}, FetchReturns(t), Holds(served, t)
    PROVE  Recent(k)
<1>1. PICK S \in served : k \in S
  BY DEF Holds
<1>2. fetchStart <= LastPublished(k)
  BY <1>1 DEF IInv, Aged
<1>3. now <= fetchStart + FetchTimeout
  BY DEF FetchReturns, IInv, Owned, Fetching
<1>4. now \in Int /\ fetchStart \in Int /\ LastPublished(k) \in Int
  BY DEF IInv, TypeOK, LastPublished
<1> QED
  BY <1>2, <1>3, <1>4, CacheAssumption DEF Recent

\* Of the steps of getKey, those two answer with a key that is no fallback.
LEMMA StepIsRecent ==
    ASSUME IInv, [Next]_vars, NEW t \in Caller, NEW k \in Kid,
           Answers(t, "key"), want[t] = {k}
    PROVE  Recent(k)
<1> USE DEF Answers, Return, Goto
<1>1. pc \in [Caller -> {"idle", "read", "lock", "check", "fetch"}]
  BY DEF IInv, TypeOK
<1>2. PICK u \in Caller : GetKey(u)
  BY DEF Next, vars, Call, Publish, Outage, Serve, Tick, callVars
<1>3. u = t
  BY <1>1, <1>2 DEF GetKey, Fetch, Read, Lock, Check, FetchReturns, FetchFails
<1>4. CASE Read(t) \/ Check(t)
  <2>1. Cached(t)
    BY <1>1, <1>4 DEF Read, Check
  <2> QED
    BY <2>1, CachedIsRecent
<1>5. CASE FetchReturns(t)
  <2>1. Holds(served, t)
    BY <1>5 DEF FetchReturns
  <2> QED
    BY <1>5, <2>1, ServedIsRecent
<1>6. CASE Lock(t) \/ FetchFails(t)
  BY <1>1, <1>6 DEF Lock, FetchFails
<1> QED
  BY <1>2, <1>3, <1>4, <1>5, <1>6 DEF GetKey, Fetch

\* A key that is not a fallback was published within the refresh interval and
\* one fetch, whoever waits for whom and whatever failed before.
THEOREM KeyIsRecentHolds == Spec => KeyIsRecent
<1>1. IInv /\ [Next]_vars =>
        [\A t \in Caller, k \in Kid : Answers(t, "key") /\ want[t] = {k}
            => now <= LastPublished(k) + FetchTimeout
                        + (IF Refresh > 0 THEN Refresh ELSE 0)]_vars
  BY StepIsRecent DEF Recent
<1> QED
  BY Invariance, <1>1, PTL DEF Spec, KeyIsRecent

-----------------------------------------------------------------------------
(* How long a lookup waits.                                                   *)

N == Cardinality(Caller)

\* The time n fetches may take.
Slots(n) == n * FetchTimeout

\* It grows by one timeout with each.
LEMMA SlotsAdd ==
    ASSUME NEW m \in Int, NEW n \in Int
    PROVE  /\ Slots(m) \in Int
           /\ Slots(m + 1) = Slots(m) + FetchTimeout
           /\ m <= n => Slots(m) <= Slots(n)
<1> USE CacheAssumption
<1>1. Slots(m) \in Int /\ Slots(n) \in Int
  BY DEF Slots
<1>2. Slots(m + 1) = Slots(m) + FetchTimeout
  BY DEF Slots
<1>3. ASSUME m <= n
      PROVE  Slots(m) <= Slots(n)
  <2>1. (n - m) * FetchTimeout >= 0
    BY <1>3
  <2>2. n * FetchTimeout = m * FetchTimeout + (n - m) * FetchTimeout
    OBVIOUS
  <2> QED
    BY <1>1, <2>1, <2>2 DEF Slots
<1> QED
  BY <1>1, <1>2, <1>3

\* By then the lock is free: a fetch that runs ends within its timeout, one that
\* may follow the second look would begin now.
FreeBy == IF holder = {} THEN now
          ELSE IF \E t \in holder : pc[t] = "fetch" THEN fetchStart + FetchTimeout
          ELSE now + FetchTimeout

\* The queue holds who waits for the lock, once.
Queued == /\ \A i, j \in 1..Len(queue) : queue[i] = queue[j] => i = j
          /\ \A t \in Caller : pc[t] = "lock" <=> \E i \in 1..Len(queue) : queue[i] = t

QInv == IInv /\ Queued

\* It is no further away than one fetch.
LEMMA FreeByIsNear ==
    ASSUME IInv
    PROVE  FreeBy \in Int /\ now \in Int /\ now <= FreeBy /\ FreeBy <= now + FetchTimeout
  BY CacheAssumption DEF IInv, TypeOK, Fetching, FreeBy

\* As long as one caller is elsewhere, the queue has room for it.
LEMMA QueueRoom ==
    ASSUME QInv, IsFiniteSet(Caller), NEW t \in Caller, pc[t] # "lock"
    PROVE  N \in Nat /\ Len(queue) \in Nat /\ Len(queue) <= N - 1
<1> DEFINE Others == Caller \ {t}
<1>1. IsFiniteSet(Others) /\ Cardinality(Others) = N - 1 /\ N \in Nat
  BY FS_RemoveElement, FS_CardinalityType DEF N
<1>2. queue \in Seq(Caller) /\ Len(queue) \in Nat
  BY DEF QInv, IInv, TypeOK
<1>3. \A i \in 1..Len(queue) : queue[i] \in Others
  BY <1>2, ElementOfSeq DEF QInv, Queued
<1>4. IsFiniteSet(1..Len(queue)) /\ Cardinality(1..Len(queue)) = Len(queue)
  BY <1>2, FS_Interval
<1>5. ASSUME Cardinality(Others) < Cardinality(1..Len(queue))
      PROVE  FALSE
  <2> DEFINE f == [i \in 1..Len(queue) |-> queue[i]]
  <2>1. f \in [1..Len(queue) -> Others]
    BY <1>3
  <2>2. \A i \in 1..Len(queue) : f[i] = queue[i]
    OBVIOUS
  <2> HIDE DEF f
  <2>3. \E i, j \in 1..Len(queue) : i # j /\ f[i] = f[j]
    BY <1>1, <1>4, <1>5, <2>1, FS_PigeonHole
  <2> QED
    BY <2>2, <2>3 DEF QInv, Queued
<1> QED
  BY <1>1, <1>2, <1>4, <1>5

\* A step that leaves the queue alone, and who is in it.
LEMMA QueueKept ==
    ASSUME Queued, queue' = queue, \A t \in Caller : pc'[t] = "lock" <=> pc[t] = "lock"
    PROVE  Queued'
  BY DEF Queued

\* A caller joins the queue at its end, and leaves it at its head.
LEMMA GetKeyQueued ==
    ASSUME QInv, NEW t \in Caller, GetKey(t)
    PROVE  Queued'
<1>1. /\ pc \in [Caller -> {"idle", "read", "lock", "check", "fetch"}]
      /\ queue \in Seq(Caller) /\ Len(queue) \in Nat
  BY DEF QInv, IInv, TypeOK
<1>2. Queued
  BY DEF QInv
<1>3. CASE Read(t) /\ ~Cached(t)
  <2>1. /\ queue' = Append(queue, t) /\ pc' = [pc EXCEPT ![t] = "lock"] /\ pc[t] = "read"
    BY <1>3 DEF Read, Goto
  <2>2. /\ Len(queue') = Len(queue) + 1
        /\ \A i \in 1..Len(queue) : queue'[i] = queue[i]
        /\ queue'[Len(queue) + 1] = t
    BY <1>1, <2>1, AppendProperties
  <2>3. \A i \in 1..Len(queue) : queue[i] # t
    BY <1>2, <2>1 DEF Queued
  <2>4. \A i, j \in 1..Len(queue') : queue'[i] = queue'[j] => i = j
    BY <1>1, <1>2, <2>2, <2>3 DEF Queued
  <2>5. ASSUME NEW u \in Caller
        PROVE  pc'[u] = "lock" <=> \E i \in 1..Len(queue') : queue'[i] = u
    <3>1. CASE u = t
      BY <1>1, <2>1, <2>2, <3>1
    <3>2. CASE u # t
      <4>1. pc'[u] = pc[u]
        BY <1>1, <2>1, <3>2
      <4>2. (\E i \in 1..Len(queue') : queue'[i] = u) <=> (\E i \in 1..Len(queue) : queue[i] = u)
        BY <1>1, <2>2, <3>2
      <4> QED
        BY <1>2, <4>1, <4>2 DEF Queued
    <3> QED
      BY <3>1, <3>2
  <2> QED
    BY <2>4, <2>5 DEF Queued
<1>4. CASE Lock(t)
  <2>1. /\ queue # <<>> /\ queue' = Tail(queue) /\ pc' = [pc EXCEPT ![t] = "check"]
        /\ queue[1] = t
    BY <1>1, <1>4 DEF Lock, Goto
  <2>2. /\ Len(queue) > 0
        /\ Len(queue') = Len(queue) - 1
        /\ \A i \in 1..Len(queue') : queue'[i] = queue[i + 1]
    BY <1>1, <2>1, HeadTailProperties, EmptySeq
  <2>3. \A i, j \in 1..Len(queue') : queue'[i] = queue'[j] => i = j
    BY <1>1, <1>2, <2>2 DEF Queued
  <2>4. ASSUME NEW u \in Caller
        PROVE  pc'[u] = "lock" <=> \E i \in 1..Len(queue') : queue'[i] = u
    <3>1. CASE u = t
      <4>1. \A i \in 1..Len(queue') : queue'[i] # t
        BY <1>1, <1>2, <2>1, <2>2 DEF Queued
      <4> QED
        BY <1>1, <2>1, <3>1, <4>1
    <3>2. CASE u # t
      <4>1. pc'[u] = pc[u]
        BY <1>1, <2>1, <3>2
      <4>2. ASSUME NEW i \in 1..Len(queue), queue[i] = u
            PROVE  \E j \in 1..Len(queue') : queue'[j] = u
        <5>1. i # 1 /\ i - 1 \in 1..Len(queue') /\ queue'[i - 1] = queue[(i - 1) + 1]
          BY <1>1, <2>1, <2>2, <3>2, <4>2
        <5> QED
          BY <4>2, <5>1
      <4>3. ASSUME NEW j \in 1..Len(queue'), queue'[j] = u
            PROVE  \E i \in 1..Len(queue) : queue[i] = u
        BY <1>1, <2>2, <4>3
      <4> QED
        BY <1>2, <4>1, <4>2, <4>3 DEF Queued
    <3> QED
      BY <3>1, <3>2
  <2> QED
    BY <2>3, <2>4 DEF Queued
<1>5. CASE (Read(t) /\ Cached(t)) \/ Check(t) \/ Fetch(t)
  <2>1. queue' = queue
    BY <1>5 DEF Read, Check, Fetch, FetchReturns, FetchFails, Unlock
  <2>2. \A u \in Caller : pc'[u] = "lock" <=> pc[u] = "lock"
    BY <1>1, <1>5 DEF Read, Check, Fetch, FetchReturns, FetchFails, Return, Goto
  <2> QED
    BY <1>2, <2>1, <2>2, QueueKept
<1> QED
  BY <1>3, <1>4, <1>5 DEF GetKey

\* Nothing else moves the queue.
LEMMA NextQInv == QInv /\ [Next]_vars => QInv'
<1> SUFFICES ASSUME QInv, [Next]_vars
             PROVE  Queued'
  BY NextIInv DEF QInv
<1>1. ASSUME NEW t \in Caller, GetKey(t)
      PROVE  Queued'
  BY <1>1, GetKeyQueued
<1>2. CASE \/ UNCHANGED vars
           \/ \E t \in Caller, k \in Kid : Call(t, k)
           \/ \E S \in KeySets : Publish(S)
           \/ Outage \/ Serve \/ Tick
  <2>1. queue' = queue
    BY <1>2 DEF vars, fetchVars, Call, Publish, Outage, Serve, Tick
  <2>2. \A u \in Caller : pc'[u] = "lock" <=> pc[u] = "lock"
    BY <1>2 DEF vars, callVars, Call, Publish, Outage, Serve, Tick, QInv, IInv, TypeOK
  <2> QED
    BY <2>1, <2>2, QueueKept DEF QInv
<1> QED
  BY <1>1, <1>2 DEF Next

-----------------------------------------------------------------------------

\* Whoever is read-locked out gets in once the lock is free; who is i-th in the
\* queue waits for the i fetches before its answer; and none of it adds up to
\* more than the callers and one more.
Waits == /\ \A t \in Caller : pc[t] = "read" => FreeBy <= since[t] + FetchTimeout
         /\ \A i \in 1..Len(queue) : FreeBy + Slots(i) <= since[queue[i]] + Slots(N + 1)
         /\ \A t \in holder : FreeBy <= since[t] + Slots(N + 1)

WInv == QInv /\ Waits

\* A step that puts nothing off: it admits no one and no reader.
SameWait == /\ \A t \in Caller : pc'[t] = "read" => pc[t] = "read"
            /\ \A t \in Caller : pc'[t] # "idle" => since'[t] = since[t]
            /\ queue' = queue
            /\ holder' \subseteq holder
            /\ FreeBy' <= FreeBy

\* Who is in the queue, and for how many fetches.
LEMMA InQueue ==
    ASSUME QInv, NEW i \in 1..Len(queue)
    PROVE  /\ queue[i] \in Caller /\ pc[queue[i]] = "lock"
           /\ i \in Nat /\ i >= 1 /\ Slots(i) \in Int
           /\ since[queue[i]] \in Int
<1>1. queue[i] \in Caller /\ Len(queue) \in Nat
  BY ElementOfSeq DEF QInv, IInv, TypeOK
<1>2. pc[queue[i]] = "lock"
  BY <1>1 DEF QInv, Queued
<1>3. i \in Nat /\ i >= 1
  BY <1>1
<1>4. Slots(i) \in Int
  BY <1>3, SlotsAdd
<1>5. since[queue[i]] \in Int
  BY <1>1, CacheAssumption DEF QInv, IInv, TypeOK
<1> QED
  BY <1>1, <1>2, <1>3, <1>4, <1>5

\* Such a step keeps the bounds.
LEMMA WaitsKept ==
    ASSUME WInv, QInv', SameWait, IsFiniteSet(Caller)
    PROVE  Waits'
<1> USE DEF SameWait
<1>1. N \in Nat /\ Slots(N + 1) \in Int
  BY FS_CardinalityType, SlotsAdd DEF N
<1>2. FreeBy \in Int /\ FreeBy' \in Int
  <2>1. FreeBy \in Int
    BY FreeByIsNear DEF WInv, QInv
  <2>2. FreeBy' \in Int
    BY CacheAssumption DEF QInv, IInv, TypeOK, FreeBy
  <2> QED
    BY <2>1, <2>2
<1>3. \A t \in Caller : since[t] \in Int
  BY CacheAssumption DEF WInv, QInv, IInv, TypeOK
<1>4. ASSUME NEW t \in Caller, pc'[t] = "read"
      PROVE  FreeBy' <= since'[t] + FetchTimeout
  BY <1>2, <1>3, <1>4, CacheAssumption DEF WInv, Waits
<1>5. ASSUME NEW i \in 1..Len(queue')
      PROVE  FreeBy' + Slots(i) <= since'[queue'[i]] + Slots(N + 1)
  <2>1. i \in 1..Len(queue) /\ queue'[i] = queue[i]
    BY <1>5
  <2>2. /\ queue[i] \in Caller /\ pc[queue[i]] = "lock"
        /\ Slots(i) \in Int /\ since[queue[i]] \in Int
    BY <2>1, InQueue DEF WInv
  <2>3. pc'[queue[i]] = "lock"
    BY <1>5, <2>1, <2>2 DEF QInv, Queued
  <2>4. FreeBy + Slots(i) <= since[queue[i]] + Slots(N + 1)
    BY <2>1 DEF WInv, Waits
  <2> QED
    BY <1>1, <1>2, <2>1, <2>2, <2>3, <2>4
<1>6. ASSUME NEW t \in holder'
      PROVE  FreeBy' <= since'[t] + Slots(N + 1)
  <2>1. t \in holder /\ t \in Caller
    BY <1>6 DEF WInv, QInv, IInv, TypeOK
  <2>2. pc'[t] # "idle"
    BY <1>6, <2>1 DEF QInv, IInv, Owned
  <2>3. FreeBy <= since[t] + Slots(N + 1)
    BY <2>1 DEF WInv, Waits
  <2> QED
    BY <1>1, <1>2, <1>3, <2>1, <2>2, <2>3
<1> QED
  BY <1>4, <1>5, <1>6 DEF Waits

\* Who returns, and who goes on to fetch, does not put it off.
LEMMA CheckFrees ==
    ASSUME QInv, NEW t \in Caller, (Read(t) /\ Cached(t)) \/ Check(t) \/ Fetch(t)
    PROVE  FreeBy' <= FreeBy
<1>1. /\ pc \in [Caller -> {"idle", "read", "lock", "check", "fetch"}]
      /\ now \in Int /\ FetchTimeout \in Int
  BY CacheAssumption DEF QInv, IInv, TypeOK
<1>2. /\ \A u \in Caller : pc[u] \in {"check", "fetch"} <=> u \in holder
      /\ \A u, v \in holder : u = v
  BY DEF QInv, IInv, Owned
<1>3. now <= FreeBy /\ FreeBy \in Int
  BY FreeByIsNear DEF QInv
<1>4. now' = now
  BY DEF Read, Check, Fetch, FetchReturns, FetchFails
<1>5. CASE holder' = {}
  BY <1>3, <1>4, <1>5 DEF FreeBy
<1>6. CASE holder' # {}
  <2>1. Check(t) /\ ~Cached(t)
    BY <1>2, <1>6 DEF Read, Check, Fetch, FetchReturns, FetchFails, Unlock
  <2>2. /\ t \in holder /\ holder' = holder /\ fetchStart' = now
        /\ pc[t] = "check" /\ pc' = [pc EXCEPT ![t] = "fetch"]
    BY <1>2, <2>1 DEF Check, Goto
  <2>3. FreeBy = now + FetchTimeout
    BY <1>2, <2>2 DEF FreeBy
  <2>4. FreeBy' = now + FetchTimeout
    BY <1>1, <2>2 DEF FreeBy
  <2> QED
    BY <1>1, <2>3, <2>4
<1> QED
  BY <1>5, <1>6

\* Nor does what happens elsewhere, or time that passes in a fetch.
LEMMA ElsewhereFrees ==
    ASSUME \/ UNCHANGED vars
           \/ \E S \in KeySets : Publish(S)
           \/ Outage \/ Serve
           \/ Tick /\ holder # {}
    PROVE  FreeBy' = FreeBy
<1>1. UNCHANGED <<holder, pc, fetchStart>>
  BY DEF vars, fetchVars, callVars, Publish, Outage, Serve, Tick
<1>2. CASE now' = now
  BY <1>1, <1>2 DEF FreeBy
<1>3. CASE Tick /\ holder # {}
  BY <1>1, <1>3 DEF Tick, FreeBy
<1> QED
  BY <1>2, <1>3 DEF vars, Publish, Outage, Serve

\* A caller joins behind at most N - 1 others, one fetch after it called; with
\* each that takes the lock the rest of the queue moves up by one.
LEMMA GetKeyWaits ==
    ASSUME WInv, IsFiniteSet(Caller), NEW t \in Caller, GetKey(t), QInv'
    PROVE  Waits'
<1>1. /\ pc \in [Caller -> {"idle", "read", "lock", "check", "fetch"}]
      /\ queue \in Seq(Caller) /\ Len(queue) \in Nat
      /\ holder \subseteq Caller
      /\ now \in Int /\ fetchStart \in Int /\ FetchTimeout \in Int /\ FetchTimeout >= 0
      /\ \A u \in Caller : since[u] \in Int
  BY CacheAssumption DEF WInv, QInv, IInv, TypeOK
<1>2. /\ \A u \in Caller : pc[u] \in {"check", "fetch"} <=> u \in holder
      /\ \A u, v \in holder : u = v
  BY DEF WInv, QInv, IInv, Owned
<1>3. N \in Nat /\ Slots(N) \in Int /\ Slots(N + 1) = Slots(N) + FetchTimeout
  BY FS_CardinalityType, SlotsAdd DEF N
<1>4. now <= FreeBy /\ FreeBy \in Int
  BY FreeByIsNear DEF WInv, QInv
<1>5. CASE Read(t) /\ ~Cached(t)
  <2>1. /\ holder = {} /\ holder' = holder /\ now' = now
        /\ pc' = [pc EXCEPT ![t] = "lock"] /\ since' = since
        /\ queue' = Append(queue, t) /\ pc[t] = "read"
    BY <1>5 DEF Read, Goto
  <2>2. FreeBy = now /\ FreeBy' = now
    BY <2>1 DEF FreeBy
  <2>3. Len(queue) <= N - 1
    BY <2>1, QueueRoom DEF WInv
  <2>4. now <= since[t] + FetchTimeout
    BY <2>1, <2>2 DEF WInv, Waits
  <2>5. /\ Len(queue') = Len(queue) + 1
        /\ \A i \in 1..Len(queue) : queue'[i] = queue[i]
        /\ queue'[Len(queue) + 1] = t
    BY <1>1, <2>1, AppendProperties
  <2>6. ASSUME NEW i \in 1..Len(queue')
        PROVE  now + Slots(i) <= since[queue'[i]] + Slots(N + 1)
    <3>1. CASE i \in 1..Len(queue)
      BY <2>2, <2>5, <3>1 DEF WInv, Waits
    <3>2. CASE i = Len(queue) + 1
      <4>1. Slots(i) \in Int /\ Slots(i) <= Slots(N)
        BY <1>1, <1>3, <2>3, <3>2, SlotsAdd
      <4> QED
        BY <1>1, <1>3, <2>4, <2>5, <3>2, <4>1
    <3> QED
      BY <1>1, <2>5, <3>1, <3>2
  <2>7. \A u \in Caller : pc'[u] = "read" => now <= since[u] + FetchTimeout
    BY <1>1, <2>1, <2>2 DEF WInv, Waits
  <2> QED
    BY <2>1, <2>2, <2>6, <2>7 DEF Waits
<1>6. CASE Lock(t)
  <2>1. /\ holder = {} /\ holder' = {t} /\ now' = now
        /\ pc' = [pc EXCEPT ![t] = "check"] /\ since' = since
        /\ queue # <<>> /\ queue' = Tail(queue) /\ queue[1] = t
        /\ \A u \in Caller : pc[u] # "read"
    BY <1>1, <1>6 DEF Lock, Goto
  <2>2. FreeBy = now /\ FreeBy' = now + FetchTimeout
    BY <1>1, <2>1 DEF FreeBy
  <2>3. /\ Len(queue) > 0
        /\ Len(queue') = Len(queue) - 1
        /\ \A i \in 1..Len(queue') : queue'[i] = queue[i + 1]
    BY <1>1, <2>1, HeadTailProperties, EmptySeq
  <2>4. ASSUME NEW i \in 1..Len(queue')
        PROVE  FreeBy' + Slots(i) <= since[queue'[i]] + Slots(N + 1)
    <3>1. i + 1 \in 1..Len(queue) /\ i \in Int
      BY <1>1, <2>3
    <3>2. now + Slots(i + 1) <= since[queue[i + 1]] + Slots(N + 1)
      BY <2>2, <3>1 DEF WInv, Waits
    <3>3. Slots(i) \in Int /\ Slots(i + 1) = Slots(i) + FetchTimeout
      BY <3>1, SlotsAdd
    <3>4. queue'[i] = queue[i + 1] /\ since[queue[i + 1]] \in Int
      BY <2>3, <3>1, InQueue DEF WInv
    <3> QED
      BY <1>1, <1>3, <2>2, <3>2, <3>3, <3>4
  <2>5. FreeBy' <= since[t] + Slots(N + 1)
    <3>1. now + Slots(1) <= since[t] + Slots(N + 1)
      BY <1>1, <2>1, <2>2, <2>3 DEF WInv, Waits
    <3>2. Slots(1) = FetchTimeout
      BY <1>1 DEF Slots
    <3> QED
      BY <2>2, <3>1, <3>2
  <2>6. \A u \in Caller : pc'[u] # "read"
    BY <1>1, <2>1
  <2> QED
    BY <2>1, <2>4, <2>5, <2>6 DEF Waits
<1>7. CASE (Read(t) /\ Cached(t)) \/ Check(t) \/ Fetch(t)
  <2>1. now' = now /\ queue' = queue /\ holder' \subseteq holder
    BY <1>7 DEF Read, Check, Fetch, FetchReturns, FetchFails, Unlock
  <2>2. \A u \in Caller : pc'[u] = "read" => pc[u] = "read"
    BY <1>1, <1>7 DEF Read, Check, Fetch, FetchReturns, FetchFails, Return, Goto
  <2>3. \A u \in Caller : pc'[u] # "idle" => since'[u] = since[u]
    BY <1>1, <1>7 DEF WInv, QInv, IInv, TypeOK,
         Read, Check, Fetch, FetchReturns, FetchFails, Return, Goto
  <2>4. FreeBy' <= FreeBy
    BY <1>7, CheckFrees DEF WInv
  <2> QED
    BY <2>1, <2>2, <2>3, <2>4, WaitsKept DEF SameWait
<1> QED
  BY <1>5, <1>6, <1>7 DEF GetKey

\* Time passes in a fetch only while anyone waits, and who calls has not waited.
LEMMA NextWInv == IsFiniteSet(Caller) /\ WInv /\ [Next]_vars => WInv'
<1> SUFFICES ASSUME IsFiniteSet(Caller), WInv, [Next]_vars
             PROVE  Waits'
  BY NextQInv DEF WInv
<1>1. QInv'
  BY NextQInv DEF WInv
<1>2. /\ pc \in [Caller -> {"idle", "read", "lock", "check", "fetch"}]
      /\ since \in [Caller -> 0..MaxTime]
      /\ holder \subseteq Caller
      /\ now \in Int /\ FetchTimeout \in Int /\ FetchTimeout >= 0
      /\ Len(queue) \in Nat
  BY CacheAssumption DEF WInv, QInv, IInv, TypeOK
<1>3. \A t \in Caller : pc[t] \in {"check", "fetch"} <=> t \in holder
  BY DEF WInv, QInv, IInv, Owned
<1>4. FreeBy \in Int /\ now <= FreeBy /\ FreeBy <= now + FetchTimeout
  BY FreeByIsNear DEF WInv, QInv
<1>5. ASSUME NEW t \in Caller, GetKey(t)
      PROVE  Waits'
  BY <1>1, <1>5, GetKeyWaits
<1>6. ASSUME NEW t \in Caller, NEW k \in Kid, Call(t, k)
      PROVE  Waits'
  <2>1. /\ pc[t] = "idle" /\ pc' = [pc EXCEPT ![t] = "read"]
        /\ since' = [since EXCEPT ![t] = now]
        /\ UNCHANGED <<now, queue, holder, fetchStart>>
    BY <1>6 DEF Call, fetchVars
  <2>2. FreeBy' = FreeBy
    BY <1>2, <1>3, <2>1 DEF FreeBy
  <2>3. \A u \in Caller : pc'[u] = "read" => FreeBy <= since'[u] + FetchTimeout
    BY <1>2, <1>4, <2>1 DEF WInv, Waits
  <2>4. \A i \in 1..Len(queue) : since'[queue[i]] = since[queue[i]]
    BY <1>2, <2>1, InQueue DEF WInv
  <2>5. \A u \in holder : since'[u] = since[u]
    BY <1>2, <1>3, <2>1
  <2> QED
    BY <2>1, <2>2, <2>3, <2>4, <2>5 DEF WInv, Waits
<1>7. CASE Tick /\ holder = {}
  <2>1. \A t \in Caller : pc'[t] = "idle"
    BY <1>7 DEF Tick, callVars
  <2>2. queue' = queue /\ holder' = {}
    BY <1>7 DEF Tick, fetchVars
  <2>3. \A i \in 1..Len(queue) : FALSE
    BY <1>7, InQueue DEF Tick, WInv
  <2> QED
    BY <2>1, <2>2, <2>3 DEF Waits
<1>8. CASE \/ UNCHANGED vars
           \/ \E S \in KeySets : Publish(S)
           \/ Outage \/ Serve
           \/ Tick /\ holder # {}
  <2>1. UNCHANGED <<queue, holder, pc, since, fetchStart>>
    BY <1>8 DEF vars, fetchVars, callVars, Publish, Outage, Serve, Tick
  <2>2. FreeBy' = FreeBy
    BY <1>8, ElsewhereFrees
  <2> QED
    BY <1>1, <1>4, <2>1, <2>2, WaitsKept DEF SameWait
<1> QED
  BY <1>5, <1>6, <1>7, <1>8 DEF Next

\* Nobody waits at first.
LEMMA InitWInv == Init => WInv
<1>1. Init => Queued
  BY DEF Init, Queued
<1>2. Init => Waits
  BY DEF Init, Waits
<1> QED
  BY <1>1, <1>2, InitIInv DEF WInv, QInv

\* A lookup waits for one fetch that keeps its RLock out, then for one fetch of
\* each caller in the queue, its own included, and not for more.
THEOREM AnsweredAfterQueueHolds ==
    ASSUME IsFiniteSet(Caller)
    PROVE  Spec => []AnsweredAfterQueue
<1>1. Init => WInv
  BY InitWInv
<1>2. ASSUME WInv, NEW t \in Caller, pc[t] # "idle"
      PROVE  now - since[t] <= (Cardinality(Caller) + 1) * FetchTimeout
  <2>1. /\ now \in Int /\ now <= FreeBy /\ FreeBy \in Int
    BY <1>2, FreeByIsNear DEF WInv, QInv
  <2>2. since[t] \in Int /\ FetchTimeout \in Int /\ FetchTimeout >= 0
    BY <1>2, CacheAssumption DEF WInv, QInv, IInv, TypeOK
  <2>3. /\ N \in Nat
        /\ Slots(N) \in Int /\ Slots(N + 1) = Slots(N) + FetchTimeout
        /\ Slots(N) >= 0
    <3>1. N \in Nat
      BY FS_CardinalityType DEF N
    <3>2. Slots(0) = 0
      BY <2>2 DEF Slots
    <3> QED
      BY <3>1, <3>2, SlotsAdd
  <2>4. now <= since[t] + Slots(N + 1)
    <3>1. CASE pc[t] = "read"
      BY <1>2, <2>1, <2>2, <2>3, <3>1 DEF WInv, Waits
    <3>2. CASE pc[t] = "lock"
      <4>1. PICK i \in 1..Len(queue) : queue[i] = t
        BY <1>2, <3>2 DEF WInv, QInv, Queued
      <4>2. i \in Nat /\ Slots(i) \in Int
        BY <1>2, InQueue DEF WInv
      <4>4. Slots(0) <= Slots(i) /\ Slots(0) = 0
        BY <2>2, <4>2, SlotsAdd DEF Slots
      <4>3. FreeBy + Slots(i) <= since[t] + Slots(N + 1)
        BY <1>2, <4>1 DEF WInv, Waits
      <4> QED
        BY <2>1, <2>2, <2>3, <4>2, <4>3, <4>4
    <3>3. CASE t \in holder
      BY <1>2, <2>1, <2>2, <2>3, <3>3 DEF WInv, Waits
    <3> QED
      BY <1>2, <3>1, <3>2, <3>3 DEF WInv, QInv, IInv, TypeOK, Owned
  <2> QED
    BY <2>1, <2>2, <2>3, <2>4 DEF Slots, N
<1>3. WInv => AnsweredAfterQueue
  BY <1>2 DEF AnsweredAfterQueue
<1> QED
  BY <1>1, <1>3, NextWInv, PTL DEF Spec

-----------------------------------------------------------------------------
(* Why nobody fetches again what came while it waited.                        *)

\* Entries outlive one fetch, and those of all callers but two: the one that
\* brought the document and the one that looks again.
LongRefresh == FetchTimeout < Refresh /\ (Cardinality(Caller) - 2) * FetchTimeout < Refresh

\* For who waits, a document with its key that came after it called is younger
\* than the fetches of the others.
Fresh == /\ \A i \in 1..Len(queue) : lastFetch >= since[queue[i]] /\ Holds(keys, queue[i])
              => FreeBy + Slots(i) <= lastFetch + Slots(N - 1)
         /\ \A t \in holder : pc[t] = "check" /\ lastFetch >= since[t] /\ Holds(keys, t)
              => FreeBy <= lastFetch + Slots(N - 1)

FInv == WInv /\ Fresh

\* A step that leaves the cache and what callers look for alone.
SameDocument ==
    /\ \A t \in Caller : pc'[t] # "idle" /\ pc[t] # "idle" => want'[t] = want[t]
    /\ \A t \in Caller : pc'[t] = "check" => pc[t] = "check"
    /\ UNCHANGED cacheVars

\* Such a step, if it puts nothing off, makes nothing stale.
LEMMA FreshKept ==
    ASSUME FInv, QInv', SameWait, SameDocument, IsFiniteSet(Caller)
    PROVE  Fresh'
<1> USE DEF SameWait, SameDocument, cacheVars
<1>1. N \in Nat /\ Slots(N - 1) \in Int
  BY FS_CardinalityType, SlotsAdd DEF N
<1>2. FreeBy \in Int /\ FreeBy' \in Int
  <2>1. FreeBy \in Int
    BY FreeByIsNear DEF FInv, WInv, QInv
  <2>2. FreeBy' \in Int
    BY CacheAssumption DEF QInv, IInv, TypeOK, FreeBy
  <2> QED
    BY <2>1, <2>2
<1>3. lastFetch \in Int /\ holder \subseteq Caller
  BY CacheAssumption DEF FInv, WInv, QInv, IInv, TypeOK
<1>4. ASSUME NEW i \in 1..Len(queue'),
             lastFetch' >= since'[queue'[i]], Holds(keys, queue[i])'
      PROVE  FreeBy' + Slots(i) <= lastFetch' + Slots(N - 1)
  <2>1. i \in 1..Len(queue) /\ queue'[i] = queue[i]
    BY <1>4
  <2>2. /\ queue[i] \in Caller /\ pc[queue[i]] = "lock" /\ Slots(i) \in Int
    BY <2>1, InQueue DEF FInv, WInv
  <2>3. pc'[queue[i]] = "lock"
    BY <1>4, <2>1, <2>2 DEF QInv, Queued
  <2>4. lastFetch >= since[queue[i]] /\ Holds(keys, queue[i])
    BY <1>4, <2>1, <2>2, <2>3 DEF Holds
  <2>5. FreeBy + Slots(i) <= lastFetch + Slots(N - 1)
    BY <2>1, <2>4 DEF FInv, Fresh
  <2> QED
    BY <1>1, <1>2, <1>3, <2>2, <2>5
<1>5. ASSUME NEW t \in holder', pc'[t] = "check", lastFetch' >= since'[t], Holds(keys, t)'
      PROVE  FreeBy' <= lastFetch' + Slots(N - 1)
  <2>1. t \in holder /\ t \in Caller
    BY <1>3, <1>5
  <2>2. pc[t] = "check" /\ lastFetch >= since[t] /\ Holds(keys, t)
    BY <1>5, <2>1 DEF Holds
  <2>3. FreeBy <= lastFetch + Slots(N - 1)
    BY <2>1, <2>2 DEF FInv, Fresh
  <2> QED
    BY <1>1, <1>2, <1>3, <2>3
<1> QED
  BY <1>4, <1>5 DEF Fresh

\* A caller with such a document does not join the queue, the document is still
\* usable; one that comes while callers wait is new, and at most N - 1 wait.
LEMMA GetKeyFresh ==
    ASSUME FInv, IsFiniteSet(Caller), LongRefresh, NEW t \in Caller, GetKey(t), QInv'
    PROVE  Fresh'
<1>1. /\ pc \in [Caller -> {"idle", "read", "lock", "check", "fetch"}]
      /\ queue \in Seq(Caller) /\ Len(queue) \in Nat
      /\ holder \subseteq Caller
      /\ now \in Int /\ lastFetch \in Int /\ Refresh \in Int
      /\ FetchTimeout \in Int /\ FetchTimeout >= 0
      /\ \A u \in Caller : since[u] \in Int
  BY CacheAssumption DEF FInv, WInv, QInv, IInv, TypeOK
<1>2. /\ \A u \in Caller : pc[u] \in {"check", "fetch"} <=> u \in holder
      /\ \A u, v \in holder : u = v
  BY DEF FInv, WInv, QInv, IInv, Owned
<1>3. N \in Nat /\ Slots(N - 1) \in Int
  BY FS_CardinalityType, SlotsAdd DEF N
<1>4. now <= FreeBy /\ FreeBy \in Int
  BY FreeByIsNear DEF FInv, WInv, QInv
<1>5. CASE Read(t) /\ ~Cached(t)
  <2>1. /\ holder = {} /\ holder' = holder /\ now' = now
        /\ pc' = [pc EXCEPT ![t] = "lock"] /\ since' = since /\ want' = want
        /\ keys' = keys /\ lastFetch' = lastFetch
        /\ queue' = Append(queue, t) /\ pc[t] = "read"
    BY <1>5 DEF Read, Goto, cacheVars
  <2>2. FreeBy = now /\ FreeBy' = now
    BY <2>1 DEF FreeBy
  <2>3. ~(lastFetch >= since[t] /\ Holds(keys, t))
    <3>1. now <= since[t] + FetchTimeout
      BY <2>1, <2>2 DEF FInv, WInv, Waits
    <3> QED
      BY <1>1, <1>5, <3>1 DEF Cached, LongRefresh
  <2>4. /\ Len(queue') = Len(queue) + 1
        /\ \A i \in 1..Len(queue) : queue'[i] = queue[i]
        /\ queue'[Len(queue) + 1] = t
    BY <1>1, <2>1, AppendProperties
  <2>5. ASSUME NEW i \in 1..Len(queue'), lastFetch >= since[queue'[i]], Holds(keys, queue'[i])
        PROVE  now + Slots(i) <= lastFetch + Slots(N - 1)
    <3>1. i \in 1..Len(queue)
      BY <1>1, <2>3, <2>4, <2>5
    <3> QED
      BY <2>2, <2>4, <2>5, <3>1 DEF FInv, Fresh
  <2> QED
    BY <2>1, <2>2, <2>5 DEF Fresh, Holds
<1>6. CASE Lock(t)
  <2>1. /\ holder = {} /\ holder' = {t} /\ now' = now
        /\ pc' = [pc EXCEPT ![t] = "check"] /\ since' = since /\ want' = want
        /\ keys' = keys /\ lastFetch' = lastFetch
        /\ queue # <<>> /\ queue' = Tail(queue) /\ queue[1] = t
    BY <1>1, <1>6 DEF Lock, Goto, cacheVars
  <2>2. FreeBy = now /\ FreeBy' = now + FetchTimeout
    BY <1>1, <2>1 DEF FreeBy
  <2>3. /\ Len(queue) > 0
        /\ Len(queue') = Len(queue) - 1
        /\ \A i \in 1..Len(queue') : queue'[i] = queue[i + 1]
    BY <1>1, <2>1, HeadTailProperties, EmptySeq
  <2>4. ASSUME NEW i \in 1..Len(queue'), lastFetch >= since[queue'[i]], Holds(keys, queue'[i])
        PROVE  FreeBy' + Slots(i) <= lastFetch + Slots(N - 1)
    <3>1. i + 1 \in 1..Len(queue) /\ i \in Int
      BY <1>1, <2>3
    <3>2. now + Slots(i + 1) <= lastFetch + Slots(N - 1)
      BY <2>2, <2>3, <2>4, <3>1 DEF FInv, Fresh
    <3>3. Slots(i) \in Int /\ Slots(i + 1) = Slots(i) + FetchTimeout
      BY <3>1, SlotsAdd
    <3> QED
      BY <1>1, <1>3, <2>2, <3>2, <3>3
  <2>5. ASSUME lastFetch >= since[t], Holds(keys, t)
        PROVE  FreeBy' <= lastFetch + Slots(N - 1)
    <3>1. now + Slots(1) <= lastFetch + Slots(N - 1)
      BY <1>1, <2>1, <2>2, <2>3, <2>5 DEF FInv, Fresh
    <3>2. Slots(1) = FetchTimeout
      BY <1>1 DEF Slots
    <3> QED
      BY <2>2, <3>1, <3>2
  <2> QED
    BY <2>1, <2>4, <2>5 DEF Fresh, Holds
<1>7. CASE FetchReturns(t)
  <2>1. /\ holder' = {} /\ queue' = queue /\ now' = now /\ lastFetch' = now
        /\ pc[t] = "fetch"
    BY <1>7 DEF FetchReturns, Unlock
  <2>2. FreeBy' = now
    BY <2>1 DEF FreeBy
  <2>3. Len(queue) <= N - 1
    BY <2>1, QueueRoom DEF FInv, WInv
  <2>4. ASSUME NEW i \in 1..Len(queue)
        PROVE  Slots(i) \in Int /\ Slots(i) <= Slots(N - 1)
    BY <1>1, <1>3, <2>3, SlotsAdd
  <2> QED
    BY <1>1, <1>3, <2>1, <2>2, <2>4 DEF Fresh
<1>8. CASE (Read(t) /\ Cached(t)) \/ Check(t) \/ FetchFails(t)
  <2>1. UNCHANGED <<now, queue, cacheVars>> /\ holder' \subseteq holder
    BY <1>8 DEF Read, Check, FetchFails, Unlock, cacheVars
  <2>2. \A u \in Caller : pc'[u] \in {"read", "check"} => pc[u] = pc'[u]
    BY <1>1, <1>8 DEF Read, Check, FetchFails, Return, Goto
  <2>3. \A u \in Caller : pc'[u] # "idle" => since'[u] = since[u] /\ want'[u] = want[u]
    BY <1>1, <1>8 DEF FInv, WInv, QInv, IInv, TypeOK, Read, Check, FetchFails, Return, Goto
  <2>4. FreeBy' <= FreeBy
    BY <1>8, CheckFrees DEF Fetch, FInv, WInv
  <2> QED
    BY <2>1, <2>2, <2>3, <2>4, FreshKept DEF SameWait, SameDocument
<1> QED
  BY <1>5, <1>6, <1>7, <1>8 DEF GetKey, Fetch

\* A call adds a reader only, and time passes without a fetch when nobody waits.
LEMMA NextFInv == IsFiniteSet(Caller) /\ LongRefresh /\ FInv /\ [Next]_vars => FInv'
<1> SUFFICES ASSUME IsFiniteSet(Caller), LongRefresh, FInv, [Next]_vars
             PROVE  Fresh'
  BY NextWInv DEF FInv
<1>1. WInv' /\ QInv'
  BY NextWInv DEF FInv, WInv
<1>2. /\ pc \in [Caller -> {"idle", "read", "lock", "check", "fetch"}]
      /\ since \in [Caller -> 0..MaxTime]
      /\ want \in [Caller -> SUBSET Kid]
      /\ holder \subseteq Caller
  BY DEF FInv, WInv, QInv, IInv, TypeOK
<1>3. \A t \in Caller : pc[t] \in {"check", "fetch"} <=> t \in holder
  BY DEF FInv, WInv, QInv, IInv, Owned
<1>4. ASSUME NEW t \in Caller, GetKey(t)
      PROVE  Fresh'
  BY <1>1, <1>4, GetKeyFresh
<1>5. ASSUME NEW t \in Caller, NEW k \in Kid, Call(t, k)
      PROVE  Fresh'
  <2>1. /\ pc[t] = "idle" /\ pc' = [pc EXCEPT ![t] = "read"]
        /\ since' = [since EXCEPT ![t] = now] /\ want' = [want EXCEPT ![t] = {k}]
        /\ UNCHANGED <<now, queue, holder, fetchStart, keys, lastFetch>>
    BY <1>5 DEF Call, fetchVars, cacheVars
  <2>2. FreeBy' = FreeBy
    BY <1>2, <1>3, <2>1 DEF FreeBy
  <2>3. \A i \in 1..Len(queue) : queue[i] \in Caller /\ queue[i] # t
    BY <2>1, InQueue DEF FInv, WInv
  <2>4. \A u \in holder : u \in Caller /\ u # t
    BY <1>2, <1>3, <2>1
  <2>5. \A u \in Caller : u # t => since'[u] = since[u] /\ want'[u] = want[u] /\ pc'[u] = pc[u]
    BY <1>2, <2>1
  <2> QED
    BY <2>1, <2>2, <2>3, <2>4, <2>5 DEF FInv, Fresh, Holds
<1>6. CASE Tick /\ holder = {}
  <2>1. queue' = queue /\ holder' = {}
    BY <1>6 DEF Tick, fetchVars
  <2>2. \A i \in 1..Len(queue) : FALSE
    BY <1>6, InQueue DEF Tick, FInv, WInv
  <2> QED
    BY <2>1, <2>2 DEF Fresh
<1>7. CASE \/ UNCHANGED vars
           \/ \E S \in KeySets : Publish(S)
           \/ Outage \/ Serve
           \/ Tick /\ holder # {}
  <2>1. UNCHANGED <<queue, holder, pc, since, want, fetchStart, cacheVars>>
    BY <1>7 DEF vars, fetchVars, callVars, cacheVars, Publish, Outage, Serve, Tick
  <2>2. FreeBy' = FreeBy
    BY <1>7, ElsewhereFrees
  <2>3. FreeBy' <= FreeBy
    BY <2>2, FreeByIsNear DEF FInv, WInv, QInv
  <2> QED
    BY <1>1, <2>1, <2>3, FreshKept DEF SameWait, SameDocument
<1> QED
  BY <1>4, <1>5, <1>6, <1>7 DEF Next

\* A caller does not fetch what was fetched while it waited, as long as the
\* refresh interval is above the wait for the lock.
THEOREM NoRedundantFetchHolds ==
    ASSUME IsFiniteSet(Caller), LongRefresh
    PROVE  Spec => NoRedundantFetch
<1>1. Init => FInv
  BY InitWInv DEF Init, FInv, Fresh
<1>2. ASSUME FInv, [Next]_vars, NEW t \in Caller, pc[t] # "fetch", pc'[t] = "fetch",
             lastFetch >= since[t]
      PROVE  ~Holds(keys, t)
  <2>1. pc \in [Caller -> {"idle", "read", "lock", "check", "fetch"}]
    BY <1>2 DEF FInv, WInv, QInv, IInv, TypeOK
  <2>2. PICK u \in Caller : GetKey(u)
    BY <1>2, <2>1 DEF Next, vars, callVars, Call, Publish, Outage, Serve, Tick
  <2>3. Check(t) /\ ~Cached(t)
    BY <1>2, <2>1, <2>2
       DEF GetKey, Fetch, Read, Lock, Check, FetchReturns, FetchFails, Return, Goto
  <2>4. t \in holder /\ pc[t] = "check"
    BY <1>2, <2>3 DEF Check, FInv, WInv, QInv, IInv, Owned
  <2>5. FreeBy = now + FetchTimeout
    BY <1>2, <2>4 DEF FreeBy, FInv, WInv, QInv, IInv, Owned
  <2>6. now \in Int /\ lastFetch \in Int /\ Refresh \in Int /\ FetchTimeout \in Int
        /\ FetchTimeout >= 0
    BY <1>2, CacheAssumption DEF FInv, WInv, QInv, IInv, TypeOK
  <2>7. N \in Nat /\ Slots(N - 2) \in Int /\ Slots(N - 1) = Slots(N - 2) + FetchTimeout
    <3>1. N \in Nat /\ (N - 2) + 1 = N - 1
      BY FS_CardinalityType DEF N
    <3> QED
      BY <3>1, SlotsAdd
  <2>8. Slots(N - 2) < Refresh
    BY DEF LongRefresh, Slots, N
  <2>9. ASSUME Holds(keys, t)
        PROVE  FALSE
    <3>1. FreeBy <= lastFetch + Slots(N - 1)
      BY <1>2, <2>4, <2>9 DEF FInv, Fresh
    <3>2. now - lastFetch < Refresh
      BY <2>5, <2>6, <2>7, <2>8, <3>1
    <3> QED
      BY <2>3, <2>6, <2>9, <3>2 DEF Cached, LongRefresh
  <2> QED
    BY <2>9
<1>3. FInv /\ [Next]_vars =>
        [\A t \in Caller : pc[t] # "fetch" /\ pc'[t] = "fetch" /\ lastFetch >= since[t]
           => ~Holds(keys, t)]_vars
  BY <1>2
<1> QED
  BY <1>1, <1>3, NextFInv, PTL DEF Spec, NoRedundantFetch

-----------------------------------------------------------------------------
(* The cache keeps its invariant: what the control plane does to it are its   *)
(* own steps, a reset or nothing.                                             *)

\* The variables of the control plane keep their types.
PlaneTyped == /\ rows \subseteq Sid
              /\ client \in [Sid -> {"new", "attaching", "open", "closed"}]
              /\ req \in [Request -> {"none", "verify", "record", "accept", "done"}]
              /\ token \in [Sid -> Tokens]
              /\ verified \in [Request -> SUBSET [at : Int, fresh : BOOLEAN]]

\* A process that ends leaves an empty cache; the other requests leave it alone.
LEMMA PlaneKeepsCache == PlaneTyped /\ QInv /\ [PlaneNext]_planeVars => QInv'
<1> SUFFICES ASSUME PlaneTyped, QInv, [PlaneNext]_planeVars
             PROVE  QInv'
  OBVIOUS
<1> USE PlaneAssumption
<1>1. CASE Next
  BY <1>1, NextQInv
<1>2. CASE /\ UNCHANGED <<now, idpVars, lookupVars>>
           /\ answer' \in {answer, "none"}
  BY <1>2, CacheAssumption
     DEF idpVars, lookupVars, cacheVars, fetchVars, callVars,
         QInv, Queued, IInv, TypeOK, Owned, Fetching, Aged, LastPublished
<1>3. CASE Stop
  <2>1. /\ keys' = {} /\ lastFetch' = 0
        /\ queue' = <<>> /\ holder' = {} /\ served' = {} /\ fetchStart' = 0
        /\ pc' = [r \in Caller |-> "idle"]
        /\ want' = [r \in Caller |-> {}] /\ since' = [r \in Caller |-> 0]
        /\ answer' = "none"
        /\ UNCHANGED <<now, published, retired, reachable>>
    BY <1>3 DEF Stop, idpVars, Auth!Stop
  <2>2. TypeOK'
    BY <2>1, CacheAssumption DEF QInv, IInv, TypeOK
  <2>3. Owned' /\ Fetching' /\ Aged'
    BY <2>1 DEF QInv, IInv, Owned, Fetching, Aged, LastPublished
  <2>4. Queued'
    BY <2>1 DEF Queued
  <2> QED
    BY <2>2, <2>3, <2>4 DEF QInv, IInv
<1>4. CASE Server \/ UNCHANGED planeVars \/ \E r \in Request : RefuseAtOnce(r)
  <2>1. UNCHANGED <<now, idpVars, lookupVars>> /\ answer' \in {answer, "none"}
    BY <1>4 DEF Server, RefuseAtOnce, planeVars, vars, idpVars, lookupVars,
         Auth!Attach, Auth!Close, Auth!Send, Auth!Record, Auth!RecordFails, Auth!Accept,
         Auth!Sweep, Auth!SweepFails, Auth!Start, Auth!Refuse
  <2> QED
    BY <1>2, <2>1
<1>5. CASE Provider \/ PlaneTick
  BY <1>1, <1>5 DEF Provider, PlaneTick, Next
<1>6. ASSUME NEW r \in Request, Lookup(r)
      PROVE  Next
  <2>1. r[1] \in Sid /\ token[r[1]] \in Tokens
    BY DEF Request, PlaneTyped
  <2>2. PICK k \in Kid : Call(r, k)
    BY <1>6, <2>1 DEF Lookup
  <2> QED
    BY <2>2 DEF Next
<1>7. ASSUME NEW r \in Request, LookupGoesOn(r) \/ KeyError(r) \/ KeyFound(r)
      PROVE  Next
  BY <1>7 DEF LookupGoesOn, KeyError, KeyFound, Next
<1> QED
  BY <1>1, <1>3, <1>4, <1>5, <1>6, <1>7 DEF PlaneNext, Handler

\* handleAuth, the sweeper and a verification put values of these types there.
LEMMA PlaneKeepsTypes == PlaneTyped /\ QInv /\ [PlaneNext]_planeVars => PlaneTyped'
<1> SUFFICES ASSUME PlaneTyped, QInv, [PlaneNext]_planeVars
             PROVE  PlaneTyped'
  OBVIOUS
<1> USE DEF PlaneTyped
<1>1. CASE UNCHANGED planeVars
  BY <1>1 DEF planeVars, serverVars, tokenVars
<1>2. CASE Server
  <2>1. UNCHANGED tokenVars
    BY <1>2 DEF Server
  <2>2. ASSUME NEW s \in Sid, Auth!Attach(s) \/ Auth!Close(s)
        PROVE  PlaneTyped'
    BY <2>1, <2>2 DEF Auth!Attach, Auth!Close, tokenVars
  <2>3. ASSUME NEW r \in Request, Auth!Send(r) \/ Auth!RecordFails(r)
        PROVE  PlaneTyped'
    BY <2>1, <2>3 DEF Auth!Send, Auth!RecordFails, Auth!Step, tokenVars
  <2>4. ASSUME NEW r \in Request, Auth!Record(r) \/ Auth!Accept(r)
        PROVE  PlaneTyped'
    <3>1. r[1] \in Sid
      BY DEF Request
    <3> QED
      BY <2>1, <2>4, <3>1 DEF Auth!Record, Auth!Accept, Auth!Step, tokenVars
  <2>5. CASE Auth!Sweep \/ Auth!SweepFails \/ Auth!Start
    BY <2>1, <2>5 DEF Auth!Sweep, Auth!SweepFails, Auth!Start, tokenVars
  <2> QED
    BY <1>2, <2>2, <2>3, <2>4, <2>5 DEF Server
<1>3. CASE Provider
  BY <1>3 DEF Provider, serverVars, tokenVars
<1>4. ASSUME NEW r \in Request, Lookup(r) \/ LookupGoesOn(r)
      PROVE  PlaneTyped'
  BY <1>4 DEF Lookup, LookupGoesOn, serverVars, tokenVars
<1>5. ASSUME NEW r \in Request, RefuseAtOnce(r) \/ KeyError(r)
      PROVE  PlaneTyped'
  BY <1>5 DEF RefuseAtOnce, KeyError, Auth!Refuse, Auth!Step, tokenVars
<1>6. ASSUME NEW r \in Request, KeyFound(r)
      PROVE  PlaneTyped'
  <2>1. now \in Int
    BY DEF QInv, IInv, TypeOK
  <2>2. {[at |-> now, fresh |-> answer' = "key"]} \in SUBSET [at : Int, fresh : BOOLEAN]
    BY <2>1
  <2>3. UNCHANGED <<rows, client, token>>
    BY <1>6 DEF KeyFound
  <2>4. /\ req' = [req EXCEPT ![r] = "record"] \/ req' = [req EXCEPT ![r] = "done"]
        /\ \/ \E V \in SUBSET [at : Int, fresh : BOOLEAN] :
                 verified' = [verified EXCEPT ![r] = V]
           \/ verified' = verified
    BY <1>6, <2>2 DEF KeyFound
  <2> QED
    BY <2>3, <2>4
<1>7. CASE PlaneTick
  BY <1>7 DEF PlaneTick, Auth!Tick, tokenVars
<1>8. CASE Stop
  <2>1. UNCHANGED <<token, verified, rows>>
    BY <1>8 DEF Stop, Auth!Stop, tokenVars
  <2>2. /\ client' = [s \in Sid |-> IF client[s] \in {"attaching", "open"} THEN "closed" ELSE client[s]]
        /\ req' = [r \in Request |-> IF req[r] = "none" THEN "none" ELSE "done"]
    BY <1>8 DEF Stop, Auth!Stop, Auth!Request, Request
  <2> QED
    BY <2>1, <2>2
<1> QED
  BY <1>1, <1>2, <1>3, <1>4, <1>5, <1>6, <1>7, <1>8 DEF PlaneNext, Handler

\* Who is in getKey is a request that is being verified, for the kid of a token
\* that the keyfunc did not refuse.
Looking == \A r \in Request : pc[r] # "idle" =>
              /\ req[r] = "verify"
              /\ ~KeyfuncRefuses(token[r[1]])
              /\ want[r] = token[r[1]].kid

PInv == QInv /\ PlaneTyped /\ Looking

\* A step of getKey moves one caller, who was in it already: the head of the
\* queue is waiting for the lock.
LEMMA GetKeyMovesOne ==
    ASSUME PInv, NEW r \in Request, GetKey(r)
    PROVE  /\ pc[r] # "idle" /\ now' = now /\ UNCHANGED idpVars
           /\ \A u \in Request : u # r => pc'[u] = pc[u] /\ want'[u] = want[u]
           /\ pc'[r] # "idle" => want'[r] = want[r]
<1>1. /\ pc \in [Caller -> {"idle", "read", "lock", "check", "fetch"}]
      /\ want \in [Caller -> SUBSET Kid]
      /\ r \in Caller /\ Request = Caller
      /\ queue \in Seq(Caller)
  BY PlaneAssumption DEF PInv, QInv, IInv, TypeOK
<1>2. CASE Read(r)
  BY <1>1, <1>2 DEF Read, Return, Goto
<1>3. CASE Lock(r)
  <2>1. pc[r] = "lock"
    <3>1. 1 \in 1..Len(queue) /\ queue[1] = r
      BY <1>1, <1>3 DEF Lock
    <3> QED
      BY <1>1, <3>1 DEF PInv, QInv, Queued
  <2> QED
    BY <1>1, <1>3, <2>1 DEF Lock, Goto
<1>4. CASE Check(r)
  BY <1>1, <1>4 DEF Check, Return, Goto
<1>5. CASE Fetch(r)
  BY <1>1, <1>5 DEF Fetch, FetchReturns, FetchFails, Return
<1> QED
  BY <1>2, <1>3, <1>4, <1>5 DEF GetKey

\* A request leaves the verifier when its lookup has ended, and not before.
LEMMA PlaneKeepsPInv == PInv /\ [PlaneNext]_planeVars => PInv'
<1> SUFFICES ASSUME PInv, [PlaneNext]_planeVars
             PROVE  Looking'
  BY PlaneKeepsCache, PlaneKeepsTypes DEF PInv
<1> USE DEF PInv, Looking
<1>1. /\ pc \in [Request -> {"idle", "read", "lock", "check", "fetch"}]
      /\ want \in [Request -> SUBSET Kid]
      /\ req \in [Request -> {"none", "verify", "record", "accept", "done"}]
      /\ \A r \in Request : r[1] \in Sid /\ token[r[1]] \in Tokens
  BY PlaneAssumption DEF QInv, IInv, TypeOK, PlaneTyped, Request
<1>2. CASE UNCHANGED planeVars
  BY <1>2 DEF planeVars, serverVars, tokenVars, vars, callVars
<1>3. CASE Server
  <2>1. UNCHANGED <<pc, want, token>>
    BY <1>3 DEF Server, tokenVars, lookupVars, callVars
  <2>2. \A r \in Request : req[r] = "verify" => req'[r] = "verify"
    BY <1>1, <1>3 DEF Server, Auth!Attach, Auth!Close, Auth!Send, Auth!Record, Auth!RecordFails,
         Auth!Accept, Auth!Sweep, Auth!SweepFails, Auth!Start, Auth!Step
  <2> QED
    BY <2>1, <2>2
<1>4. CASE Provider
  BY <1>4 DEF Provider, Publish, Outage, Serve, serverVars, tokenVars, callVars
<1>5. ASSUME NEW r \in Request, Lookup(r)
      PROVE  Looking'
  <2>1. PICK k \in token[r[1]].kid : Call(r, k)
    BY <1>5 DEF Lookup
  <2>2. {k} = token[r[1]].kid
    BY <1>1, PlaneAssumption
  <2>3. /\ pc' = [pc EXCEPT ![r] = "read"] /\ want' = [want EXCEPT ![r] = {k}]
        /\ req[r] = "verify" /\ ~KeyfuncRefuses(token[r[1]])
        /\ UNCHANGED <<req, token>>
    BY <1>5, <2>1 DEF Lookup, Call, serverVars, tokenVars
  <2> QED
    BY <1>1, <2>2, <2>3
<1>6. ASSUME NEW r \in Request, RefuseAtOnce(r)
      PROVE  Looking'
  <2>1. pc[r] = "idle"
    BY <1>6 DEF RefuseAtOnce
  <2>2. UNCHANGED <<pc, want, token>> /\ req' = [req EXCEPT ![r] = "done"]
    BY <1>6 DEF RefuseAtOnce, Auth!Refuse, Auth!Step, lookupVars, callVars, tokenVars
  <2> QED
    BY <1>1, <2>1, <2>2
<1>7. ASSUME NEW r \in Request, LookupGoesOn(r)
      PROVE  Looking'
  BY <1>7, GetKeyMovesOne DEF LookupGoesOn, serverVars, tokenVars
<1>8. ASSUME NEW r \in Request, KeyError(r) \/ KeyFound(r)
      PROVE  Looking'
  <2>1. GetKey(r) /\ pc'[r] = "idle" /\ token' = token
    BY <1>8 DEF KeyError, KeyFound, tokenVars
  <2>2. \A u \in Request : u # r => req'[u] = req[u]
    BY <1>1, <1>8 DEF KeyError, KeyFound, Auth!Refuse, Auth!Step
  <2> QED
    BY <2>1, <2>2, GetKeyMovesOne
<1>9. CASE PlaneTick
  BY <1>9 DEF PlaneTick, Auth!Tick, Tick, callVars, tokenVars
<1>10. CASE Stop
  BY <1>10 DEF Stop
<1> QED
  BY <1>2, <1>3, <1>4, <1>5, <1>6, <1>7, <1>8, <1>9, <1>10 DEF PlaneNext, Handler

\* At first nothing is under way.
LEMMA PlaneInitPInv == PlaneInit => PInv
<1> SUFFICES ASSUME PlaneInit
             PROVE  PInv
  OBVIOUS
<1>1. QInv
  BY InitWInv DEF PlaneInit, WInv
<1>2. PlaneTyped
  BY DEF PlaneInit, PlaneTyped
<1>3. Looking
  BY PlaneAssumption DEF PlaneInit, Init, Looking
<1> QED
  BY <1>1, <1>2, <1>3 DEF PInv

-----------------------------------------------------------------------------
(* The control plane implements Sessions: a verification that succeeds is its *)
(* Verify, one that fails its Refuse, what lookups and the provider do is     *)
(* nothing to it.                                                             *)

\* VerifyToken accepts good tokens only, before they expire.
LEMMA VerifiesIsGood ==
    ASSUME NEW tok \in Tokens, ~KeyfuncRefuses(tok), Verifies(tok)
    PROVE  Good(tok) /\ tok.kid = {tok.signer} /\ tok.signer \in Kid /\ now < tok.exp
<1> USE PlaneAssumption
<1>1. PICK k \in Kid : tok.kid = {k}
  BY DEF KeyfuncRefuses
<1>2. tok.alg = "RSA"
  BY DEF KeyfuncRefuses
<1>3. tok.signer = k /\ now < tok.exp /\ tok.sub # {}
  BY <1>1 DEF Verifies
<1>4. \A a \in Audience : a \in tok.aud
  BY DEF Verifies, AudienceMatches
<1>5. \A i \in Issuer : i \in tok.iss
  BY DEF Verifies, IssuerMatches
<1> QED
  BY <1>1, <1>2, <1>3, <1>4, <1>5 DEF Good

\* A server without sessions is one for Sessions.
LEMMA RefinedInit == PlaneInit => Auth!Init
<1> SUFFICES ASSUME PlaneInit
             PROVE  Auth!Init
  OBVIOUS
<1>1. Expiry \in [Sid -> {0} \cup {tok.exp : tok \in Tokens}]
  BY DEF PlaneInit, Expiry
<1> QED
  BY <1>1 DEF PlaneInit, Init, Auth!Init, Auth!Request, Request

\* Every step is one of Sessions, or changes nothing that it tells of.
LEMMA RefinedStep == PInv /\ [PlaneNext]_planeVars => [Auth!Next]_(Auth!vars)
<1> SUFFICES ASSUME PInv, [PlaneNext]_planeVars
             PROVE  Auth!Next \/ UNCHANGED Auth!vars
  OBVIOUS
<1>0. Auth!Request = Request
  BY DEF Auth!Request, Request
<1>1. ASSUME token' = token
      PROVE  Expiry' = Expiry
  BY <1>1 DEF Expiry, Good
<1>2. ASSUME UNCHANGED <<now, serverVars, token>>
      PROVE  UNCHANGED Auth!vars
  BY <1>1, <1>2 DEF serverVars, Auth!vars, Auth!serverVars
<1>3. CASE UNCHANGED planeVars \/ Provider
  BY <1>2, <1>3 DEF planeVars, vars, tokenVars, Provider, Publish, Outage, Serve
<1>4. CASE Server
  BY <1>0, <1>4 DEF Server, Auth!Next, Auth!Handler
<1>5. ASSUME NEW r \in Request, Lookup(r) \/ LookupGoesOn(r)
      PROVE  UNCHANGED Auth!vars
  <2>1. now' = now
    BY <1>5, GetKeyMovesOne DEF Lookup, LookupGoesOn, Call
  <2> QED
    BY <1>2, <1>5, <2>1 DEF Lookup, LookupGoesOn, tokenVars
<1>6. ASSUME NEW r \in Request, RefuseAtOnce(r) \/ KeyError(r)
      PROVE  Auth!Next
  BY <1>0, <1>6 DEF RefuseAtOnce, KeyError, Auth!Next, Auth!Handler
<1>7. ASSUME NEW r \in Request, KeyFound(r)
      PROVE  Auth!Next
  <2>1. /\ req[r] = "verify" /\ ~KeyfuncRefuses(token[r[1]])
        /\ now' = now
    BY <1>7, GetKeyMovesOne DEF KeyFound, PInv, Looking
  <2>2. /\ UNCHANGED <<now, up, started, nextSweep, failed, rows, created_at, client, recorded>>
        /\ Expiry' = Expiry
    BY <1>1, <1>7, <2>1 DEF KeyFound
  <2>3. r[1] \in Sid /\ token[r[1]] \in Tokens
    BY DEF PInv, PlaneTyped, Request
  <2>4. CASE Verifies(token[r[1]])
    <3>1. now < Expiry[r[1]]
      BY <2>1, <2>3, <2>4, VerifiesIsGood DEF Expiry
    <3>2. req' = [req EXCEPT ![r] = "record"]
      BY <1>7, <2>4 DEF KeyFound
    <3>3. Auth!Verify(r)
      BY <2>1, <2>2, <3>1, <3>2 DEF Auth!Verify, Auth!Step, Auth!serverVars
    <3> QED
      BY <1>0, <3>3 DEF Auth!Next, Auth!Handler
  <2>5. CASE ~Verifies(token[r[1]])
    <3>1. req' = [req EXCEPT ![r] = "done"]
      BY <1>7, <2>5 DEF KeyFound
    <3>2. Auth!Refuse(r)
      BY <2>1, <2>2, <3>1 DEF Auth!Refuse, Auth!Step, Auth!serverVars
    <3> QED
      BY <1>0, <3>2 DEF Auth!Next, Auth!Handler
  <2> QED
    BY <2>4, <2>5
<1>8. CASE PlaneTick \/ Stop
  BY <1>8 DEF PlaneTick, Stop, Auth!Next
<1> QED
  BY <1>3, <1>4, <1>5, <1>6, <1>7, <1>8 DEF PlaneNext, Handler

\* handleAuth over VerifyToken over the cache does what Sessions says of it, for
\* any tokens, rotations, outages and restarts.
THEOREM Refinement == PlaneSpec => ImplementsSessions
  BY PlaneInitPInv, PlaneKeepsPInv, RefinedInit, RefinedStep, PTL
     DEF PlaneSpec, ImplementsSessions, Auth!Spec

-----------------------------------------------------------------------------
(* A retired key is cut off.                                                  *)

\* Who got past the verifier was verified; so was one request of every
\* connection that is served.
Earned == /\ \A r \in Request : req[r] \in {"record", "accept"} => verified[r] # {}
          /\ \A s \in Sid : s \in rows \/ client[s] = "open"
                               => \E i \in Tries : verified[<<s, i>>] # {}

Window == FetchTimeout + (IF Refresh > 0 THEN Refresh ELSE 0)

\* It was verified before the token expired, with a key that was recent then.
Timely == \A r \in Request : \A v \in verified[r] :
             /\ v.at < token[r[1]].exp
             /\ token[r[1]].signer \in Kid
             /\ v.fresh => v.at <= LastPublished(token[r[1]].signer) + Window

RInv == PInv /\ Earned /\ Timely

\* The times keys were last published move forward only.
LEMMA LastPublishedGrows ==
    ASSUME PInv, [PlaneNext]_planeVars, NEW k \in Kid
    PROVE  /\ LastPublished(k) \in Int /\ LastPublished(k)' \in Int
           /\ LastPublished(k) <= LastPublished(k)'
<1>1. LastPublished(k) \in Int
  BY DEF PInv, QInv, IInv, TypeOK, LastPublished
<1>2. LastPublished(k)' \in Int
  <2>1. QInv'
    BY PlaneKeepsCache DEF PInv
  <2> QED
    BY <2>1 DEF QInv, IInv, TypeOK, LastPublished
<1>3. CASE UNCHANGED <<now, idpVars>>
  BY <1>1, <1>3 DEF LastPublished, idpVars
<1>4. CASE Provider
  <2>1. CASE \E P \in KeySets : Publish(P)
    BY <1>1, <1>2, <2>1, PublishKeepsAges DEF PInv, QInv
  <2>2. CASE Outage \/ Serve
    BY <1>1, <2>2 DEF Outage, Serve, LastPublished, idpVars
  <2> QED
    BY <1>2, <1>4, <1>1, <2>1, <2>2 DEF Provider
<1>5. CASE PlaneTick
  <2>1. now' = now + 1 /\ UNCHANGED idpVars /\ now \in Int
    BY <1>5 DEF PlaneTick, Tick, PInv, QInv, IInv, TypeOK
  <2>2. retired[k] \in Int
    BY DEF PInv, QInv, IInv, TypeOK
  <2> QED
    BY <1>1, <1>2, <2>1, <2>2 DEF LastPublished, idpVars
<1>6. CASE Server \/ Stop \/ UNCHANGED planeVars
  <2>1. UNCHANGED <<now, idpVars>>
    BY <1>6 DEF Server, Stop, planeVars, vars, Auth!Attach, Auth!Close, Auth!Send,
         Auth!Record, Auth!RecordFails, Auth!Accept, Auth!Sweep, Auth!SweepFails, Auth!Start,
        Auth!Stop
  <2> QED
    BY <1>1, <1>2, <1>3, <2>1
<1>7. ASSUME NEW r \in Request, Handler(r)
      PROVE  UNCHANGED <<now, idpVars>>
  <2>1. CASE Lookup(r) \/ RefuseAtOnce(r)
    BY <2>1 DEF Lookup, RefuseAtOnce, Call, Auth!Refuse
  <2>2. CASE LookupGoesOn(r) \/ KeyError(r) \/ KeyFound(r)
    BY <2>2, GetKeyMovesOne DEF LookupGoesOn, KeyError, KeyFound
  <2> QED
    BY <1>7, <2>1, <2>2 DEF Handler
<1> QED
  BY <1>1, <1>2, <1>3, <1>4, <1>5, <1>6, <1>7 DEF PlaneNext

\* Nothing but a verification changes what is known of verifications.
LEMMA VerifiedKept ==
    ASSUME [PlaneNext]_planeVars, \A r \in Request : ~KeyFound(r)
    PROVE  UNCHANGED tokenVars
  BY DEF PlaneNext, planeVars, Server, Provider, Handler, Lookup, RefuseAtOnce, LookupGoesOn,
         KeyError, PlaneTick, Stop

\* A verification that succeeds is in time, and its key recent.
LEMMA KeyFoundIsTimely ==
    ASSUME PInv, NEW r \in Request, KeyFound(r), Verifies(token[r[1]])
    PROVE  /\ now < token[r[1]].exp
           /\ token[r[1]].signer \in Kid
           /\ answer' = "key" => now <= LastPublished(token[r[1]].signer) + Window
<1>1. /\ ~KeyfuncRefuses(token[r[1]]) /\ want[r] = token[r[1]].kid
      /\ pc[r] # "idle" /\ GetKey(r) /\ pc'[r] = "idle"
  BY GetKeyMovesOne DEF KeyFound, PInv, Looking
<1>2. r[1] \in Sid /\ token[r[1]] \in Tokens /\ r \in Caller
  BY PlaneAssumption DEF PInv, PlaneTyped, Request
<1>3. /\ now < token[r[1]].exp
      /\ token[r[1]].signer \in Kid /\ want[r] = {token[r[1]].signer}
  BY <1>1, <1>2, VerifiesIsGood
<1>4. ASSUME answer' = "key"
      PROVE  Recent(token[r[1]].signer)
  <2>1. Next
    BY <1>1, <1>2 DEF Next
  <2> QED
    BY <1>1, <1>2, <1>3, <1>4, <2>1, StepIsRecent DEF Answers, PInv, QInv
<1>5. /\ now \in Int /\ FetchTimeout \in Int /\ Refresh \in Int
      /\ LastPublished(token[r[1]].signer) \in Int
  BY <1>3, CacheAssumption DEF PInv, QInv, IInv, TypeOK, LastPublished
<1> QED
  BY <1>3, <1>4, <1>5 DEF Recent, Window

\* Rows and connections come from requests past the verifier; what was verified
\* stays so, and recent, since keys are only ever published later.
LEMMA PlaneKeepsRInv == RInv /\ [PlaneNext]_planeVars => RInv'
<1> SUFFICES ASSUME RInv, [PlaneNext]_planeVars
             PROVE  Earned' /\ Timely'
  BY PlaneKeepsPInv DEF RInv
<1>1. /\ rows \subseteq Sid
      /\ client \in [Sid -> {"new", "attaching", "open", "closed"}]
      /\ req \in [Request -> {"none", "verify", "record", "accept", "done"}]
      /\ verified \in [Request -> SUBSET [at : Int, fresh : BOOLEAN]]
      /\ \A r \in Request : r[1] \in Sid /\ r[2] \in Tries /\ r = <<r[1], r[2]>>
      /\ \A r \in Request : token[r[1]] \in Tokens
  BY DEF RInv, PInv, PlaneTyped, Request
<1>2. FetchTimeout \in Int /\ Window \in Int
  BY CacheAssumption DEF Window
<1>3. ASSUME NEW r \in Request, KeyFound(r)
      PROVE  Earned' /\ Timely'
  <2>1. UNCHANGED <<rows, client, token>> /\ req[r] = "verify"
    BY <1>3, GetKeyMovesOne DEF KeyFound, RInv, PInv, Looking
  <2>2. CASE Verifies(token[r[1]])
    <3> DEFINE v == [at |-> now, fresh |-> answer' = "key"]
    <3>1. /\ req' = [req EXCEPT ![r] = "record"]
          /\ verified' = [verified EXCEPT ![r] = {v}]
      BY <1>3, <2>2 DEF KeyFound
    <3>2. /\ v.at < token[r[1]].exp
          /\ token[r[1]].signer \in Kid
          /\ v.fresh => v.at <= LastPublished(token[r[1]].signer) + Window
      BY <1>3, <2>2, KeyFoundIsTimely DEF RInv
    <3>3. v.at \in Int
      BY DEF RInv, PInv, QInv, IInv, TypeOK
    <3> HIDE DEF v
    <3>4. \A u \in Request : verified'[u] # {} <=> (u = r \/ verified[u] # {})
      BY <1>1, <3>1
    <3>5. Earned'
      <4>1. \A u \in Request : req'[u] \in {"record", "accept"} => verified'[u] # {}
        BY <1>1, <3>1, <3>4 DEF RInv, Earned
      <4>2. \A s \in Sid, i \in Tries : verified[<<s, i>>] # {} => verified'[<<s, i>>] # {}
        BY <3>4 DEF Request
      <4>3. \A s \in Sid : s \in rows \/ client[s] = "open"
                             => \E i \in Tries : verified'[<<s, i>>] # {}
        BY <4>2 DEF RInv, Earned
      <4> QED
        BY <2>1, <4>1, <4>3 DEF Earned
    <3>6. ASSUME NEW u \in Request, NEW w \in verified'[u]
          PROVE  /\ w.at < token[u[1]].exp
                 /\ token[u[1]].signer \in Kid
                 /\ w.fresh => w.at <= LastPublished(token[u[1]].signer) + Window
                 /\ w.at \in Int
      <4>1. CASE u = r
        BY <1>1, <3>1, <3>2, <3>3, <3>6, <4>1
      <4>2. CASE u # r
        BY <1>1, <3>1, <3>6, <4>2 DEF RInv, Timely
      <4> QED
        BY <4>1, <4>2
    <3>7. Timely'
      BY <1>2, <2>1, <3>6, LastPublishedGrows DEF RInv, Timely, Window
    <3> QED
      BY <3>5, <3>7
  <2>3. CASE ~Verifies(token[r[1]])
    <3>1. req' = [req EXCEPT ![r] = "done"] /\ verified' = verified
      BY <1>3, <2>3 DEF KeyFound
    <3>2. Earned'
      BY <1>1, <2>1, <3>1 DEF RInv, Earned
    <3>3. Timely'
      BY <1>1, <1>2, <2>1, <3>1, LastPublishedGrows DEF RInv, Timely, Window
    <3> QED
      BY <3>2, <3>3
  <2> QED
    BY <2>2, <2>3
<1>4. ASSUME \A r \in Request : ~KeyFound(r)
      PROVE  Timely'
  <2>1. UNCHANGED <<token, verified>>
    BY <1>4, VerifiedKept DEF tokenVars
  <2> QED
    BY <1>1, <1>2, <2>1, LastPublishedGrows DEF RInv, Timely, Window
<1> DEFINE Past(r) == req[r] \in {"record", "accept"}
<1>5. ASSUME UNCHANGED <<token, verified>>,
             \A r \in Request : req'[r] \in {"record", "accept"} => Past(r),
             \A s \in Sid : s \in rows' \/ client'[s] = "open" =>
                \/ s \in rows \/ client[s] = "open"
                \/ \E r \in Request : r[1] = s /\ Past(r)
      PROVE  Earned'
  <2>1. ASSUME NEW s \in Sid, NEW r \in Request, r[1] = s, Past(r)
        PROVE  \E i \in Tries : verified[<<s, i>>] # {}
    <3>1. r[2] \in Tries /\ <<s, r[2]>> = r
      BY <1>1, <2>1
    <3>2. verified[r] # {}
      BY <2>1 DEF RInv, Earned
    <3> QED
      BY <3>1, <3>2
  <2>2. \A r \in Request : req'[r] \in {"record", "accept"} => verified[r] # {}
    BY <1>5 DEF RInv, Earned
  <2>3. \A s \in Sid : s \in rows' \/ client'[s] = "open"
                          => \E i \in Tries : verified[<<s, i>>] # {}
    BY <1>5, <2>1 DEF RInv, Earned
  <2> QED
    BY <1>5, <2>2, <2>3 DEF Earned
<1>6. ASSUME \A r \in Request : ~KeyFound(r)
      PROVE  Earned'
  <2>1. UNCHANGED <<token, verified>>
    BY <1>6, VerifiedKept DEF tokenVars
  <2>2. CASE UNCHANGED <<rows, client, req>>
    BY <1>5, <2>1, <2>2
  <2>3. CASE Server
    <3>1. ASSUME NEW s \in Sid, Auth!Attach(s) \/ Auth!Close(s)
          PROVE  Earned'
      BY <1>1, <1>5, <2>1, <3>1 DEF Auth!Attach, Auth!Close
    <3>2. ASSUME NEW r \in Request, Auth!Send(r) \/ Auth!RecordFails(r)
          PROVE  Earned'
      BY <1>1, <1>5, <2>1, <3>2 DEF Auth!Send, Auth!RecordFails, Auth!Step
    <3>3. ASSUME NEW r \in Request, Auth!Record(r) \/ Auth!Accept(r)
          PROVE  Earned'
      BY <1>1, <1>5, <2>1, <3>3 DEF Auth!Record, Auth!Accept, Auth!Step
    <3>4. CASE Auth!Sweep \/ Auth!SweepFails \/ Auth!Start
      BY <1>1, <1>5, <2>1, <3>4 DEF Auth!Sweep, Auth!SweepFails, Auth!Start
    <3> QED
      BY <2>3, <3>1, <3>2, <3>3, <3>4 DEF Server
  <2>4. ASSUME NEW r \in Request, RefuseAtOnce(r) \/ KeyError(r)
        PROVE  Earned'
    BY <1>1, <1>5, <2>1, <2>4 DEF RefuseAtOnce, KeyError, Auth!Refuse, Auth!Step
  <2>5. CASE Stop
    <3>1. \A r \in Request : req'[r] \notin {"record", "accept"}
      BY <2>5 DEF Stop, Auth!Stop, Auth!Request, Request
    <3>2. rows' = rows /\ \A s \in Sid : client'[s] # "open"
      BY <1>1, <2>5 DEF Stop, Auth!Stop
    <3> QED
      BY <1>5, <2>1, <3>1, <3>2
  <2>6. CASE UNCHANGED planeVars \/ Provider \/ PlaneTick
             \/ \E r \in Request : Lookup(r) \/ LookupGoesOn(r)
    BY <2>2, <2>6 DEF planeVars, serverVars, Provider, PlaneTick, Auth!Tick, Lookup, LookupGoesOn
  <2> QED
    BY <1>6, <2>3, <2>4, <2>5, <2>6 DEF PlaneNext, Handler
<1> QED
  BY <1>3, <1>4, <1>6

\* A connection is served, or has its row, on the strength of a verification in
\* time, with a recent key unless the cache fell back.
THEOREM RetiredKeyIsCutOffHolds == PlaneSpec => []RetiredKeyIsCutOff
<1>1. PlaneInit => RInv
  BY PlaneInitPInv DEF PlaneInit, RInv, Earned, Timely
<1>2. RInv => RetiredKeyIsCutOff
  <2> SUFFICES ASSUME RInv
               PROVE  RetiredKeyIsCutOff
    OBVIOUS
  <2>1. \A s \in Sid, i \in Tries : <<s, i>> \in Request /\ <<s, i>>[1] = s
    BY DEF Request
  <2>2. \A s \in Sid, i \in Tries : \A v \in verified[<<s, i>>] :
          /\ v.at < token[s].exp
          /\ token[s].signer \in Kid
          /\ v.fresh => v.at <= LastPublished(token[s].signer) + Window
          /\ v.at \in Int
    BY <2>1 DEF RInv, Timely, PInv, PlaneTyped
  <2>3. \A k \in Kid : LastPublished(k) \in Int
    BY DEF RInv, PInv, QInv, IInv, TypeOK, LastPublished
  <2> QED
    BY <2>2, <2>3, CacheAssumption DEF RInv, Earned, RetiredKeyIsCutOff, Window
<1> QED
  BY <1>1, <1>2, PlaneKeepsRInv, PTL DEF PlaneSpec
=============================================================================
