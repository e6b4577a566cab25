------------------------------ MODULE JwksCache ------------------------------
(* jwksCache of src/permissions/jwt.go: the handlers of concurrent            *)
(* authentications look up RSA keys by kid in a document cached under an      *)
(* RWMutex, and fetch it while they hold the write lock.  The identity        *)
(* provider is external; keys are told apart by their kid alone.              *)

EXTENDS Integers, Sequences, FiniteSets

CONSTANTS Caller,        \* handlers that call getKey
          Kid,
          KeySets,       \* the documents the provider may publish, {} for one of no use
          Refresh,       \* JWT_JWKS_REFRESH_INTERVAL
          FetchTimeout,  \* http.Client.Timeout
          MaxTime        \* bound: the clock

ASSUME CacheAssumption == /\ KeySets \subseteq SUBSET Kid
                          /\ Refresh \in Int
                          /\ FetchTimeout \in Nat
                          /\ MaxTime \in Nat

VARIABLES now,
          published,  \* keys the provider publishes
          retired,    \* history: when each other key was last published
          reachable,  \* does the provider answer?
          keys,       \* c.keys: {S}, or {} for nil
          lastFetch,  \* c.lastFetch
          queue,      \* callers waiting in c.mu.Lock, oldest first
          holder,     \* who holds c.mu for writing: {t} or {}
          served,     \* the document on its way to the holder: {S} or {}
          fetchStart, \* when the holder called fetch
          pc,         \* where each caller is in getKey
          want,       \* what it looks up: {kid}, or {} when it is elsewhere
          since,      \* when it called
          answer      \* what the call that just ended returned

idpVars == <<published, retired, reachable>>
cacheVars == <<keys, lastFetch>>
fetchVars == <<queue, holder, served, fetchStart>>
callVars == <<pc, want, since>>
vars == <<now, idpVars, cacheVars, fetchVars, callVars, answer>>

TypeOK == /\ now \in 0..MaxTime
          /\ published \in KeySets
          /\ retired \in [Kid -> Int]
          /\ reachable \in BOOLEAN
          /\ keys \in SUBSET (KeySets \ {{}})
          /\ lastFetch \in 0..MaxTime
          /\ queue \in Seq(Caller)
          /\ holder \in SUBSET Caller
          /\ served \in SUBSET KeySets
          /\ fetchStart \in 0..MaxTime
          /\ pc \in [Caller -> {"idle", "read", "lock", "check", "fetch"}]
          /\ want \in [Caller -> SUBSET Kid]
          /\ since \in [Caller -> 0..MaxTime]
          /\ answer \in {"none", "key", "stale", "error"}

Never == -1

Init == /\ now = 0
        /\ published \in KeySets
        /\ retired = [k \in Kid |-> Never]
        /\ reachable = TRUE
        /\ keys = {}
        /\ lastFetch = 0
        /\ queue = <<>> /\ holder = {} /\ served = {} /\ fetchStart = 0
        /\ pc = [t \in Caller |-> "idle"]
        /\ want = [t \in Caller |-> {}]
        /\ since = [t \in Caller |-> 0]
        /\ answer = "none"

-----------------------------------------------------------------------------
(* The provider rotates its keys, and goes and comes.                         *)

Publish(S) == /\ S # published
              /\ published' = S
              /\ retired' = [k \in Kid |-> IF k \in S THEN Never
                                          ELSE IF k \in published THEN now ELSE retired[k]]
              /\ answer' = "none"
              /\ UNCHANGED <<now, reachable, cacheVars, fetchVars, callVars>>

Outage == /\ reachable' = ~reachable
          /\ answer' = "none"
          /\ UNCHANGED <<now, published, retired, cacheVars, fetchVars, callVars>>

-----------------------------------------------------------------------------
(* getKey.                                                                    *)

Holds(docs, t) == \E S \in docs : want[t] \subseteq S

\* Mutant: an entry serves as long as it is there.
CachedForever(t) == Refresh > 0 /\ Holds(keys, t)

\* cached: an entry younger than the refresh interval.
Cached(t) == Refresh > 0 /\ now - lastFetch < Refresh /\ Holds(keys, t)

Return(t, a) == /\ pc' = [pc EXCEPT ![t] = "idle"]
                /\ want' = [want EXCEPT ![t] = {}]
                /\ since' = [since EXCEPT ![t] = 0]
                /\ answer' = a

Goto(t, to) == /\ pc' = [pc EXCEPT ![t] = to]
               /\ answer' = "none"
               /\ UNCHANGED <<want, since>>

Call(t, k) == /\ pc[t] = "idle"
              /\ pc' = [pc EXCEPT ![t] = "read"]
              /\ want' = [want EXCEPT ![t] = {k}]
              /\ since' = [since EXCEPT ![t] = now]
              /\ answer' = "none"
              /\ UNCHANGED <<now, idpVars, cacheVars, fetchVars>>

\* The look under RLock, which a writer keeps out.
Read(t) == /\ pc[t] = "read" /\ holder = {}
           /\ IF Cached(t) THEN Return(t, "key") /\ UNCHANGED queue
                           ELSE Goto(t, "lock") /\ queue' = Append(queue, t)
           /\ UNCHANGED <<now, idpVars, cacheVars, holder, served, fetchStart>>

\* When a writer leaves, the readers it kept out go before the next one; a
\* writer that waited long is not overtaken (sync.Mutex's starvation mode).
Lock(t) == /\ queue # <<>> /\ Head(queue) = t /\ holder = {}
           /\ \A u \in Caller : pc[u] # "read"
           /\ queue' = Tail(queue)
           /\ holder' = {t}
           /\ Goto(t, "check")
           /\ UNCHANGED <<now, idpVars, cacheVars, served, fetchStart>>

\* Mutant: no second look.
CheckSkipped(t) == /\ pc[t] = "check"
                   /\ Goto(t, "fetch")
                   /\ fetchStart' = now
                   /\ UNCHANGED <<now, idpVars, cacheVars, queue, holder, served>>

\* The second look, under the write lock; then fetch.
Check(t) == /\ pc[t] = "check"
            /\ IF Cached(t)
                 THEN /\ Return(t, "key")
                      /\ holder' = {}
                      /\ UNCHANGED fetchStart
                 ELSE /\ Goto(t, "fetch")
                      /\ fetchStart' = now
                      /\ UNCHANGED holder
            /\ UNCHANGED <<now, idpVars, cacheVars, queue, served>>

\* The provider answers the request; the document takes its time to arrive.
Serve == /\ \E t \in holder : pc[t] = "fetch"
         /\ reachable /\ served = {}
         /\ served' = {published}
         /\ answer' = "none"
         /\ UNCHANGED <<now, idpVars, cacheVars, queue, holder, fetchStart, callVars>>

Unlock == holder' = {} /\ served' = {} /\ fetchStart' = 0 /\ UNCHANGED queue

\* Mutant: an unusable document is cached like any other.
FetchReturnsUnusable(t) ==
    /\ pc[t] = "fetch" /\ served # {}
    /\ keys' = served
    /\ lastFetch' = now
    /\ Unlock
    /\ Return(t, IF Holds(served, t) THEN "key" ELSE "error")
    /\ UNCHANGED <<now, idpVars>>

FetchReturns(t) ==
    /\ pc[t] = "fetch" /\ served # {} /\ served # {{}}
    /\ keys' = served
    /\ lastFetch' = now
    /\ Unlock
    /\ Return(t, IF Holds(served, t) THEN "key" ELSE "error")
    /\ UNCHANGED <<now, idpVars>>

\* The provider cannot be reached, is too slow, or serves what parseJWKSKeys
\* refuses.
FetchErr == ~reachable \/ now = fetchStart + FetchTimeout \/ served = {{}}

\* Mutant: a failed fetch counts as a refresh.
FetchFailsRefreshed(t) ==
    /\ pc[t] = "fetch"
    /\ FetchErr
    /\ lastFetch' = now
    /\ Unlock
    /\ Return(t, IF Holds(keys, t) THEN "stale" ELSE "error")
    /\ UNCHANGED <<now, idpVars, keys>>

\* Mutant: a failed fetch is tried again.
FetchFailsRetried(t) ==
    /\ pc[t] = "fetch"
    /\ FetchErr
    /\ fetchStart' = now
    /\ served' = {}
    /\ Goto(t, "fetch")
    /\ UNCHANGED <<now, idpVars, cacheVars, queue, holder>>

\* A failed fetch falls back to the old keys, however old.
FetchFails(t) ==
    /\ pc[t] = "fetch"
    /\ FetchErr
    /\ Unlock
    /\ Return(t, IF Holds(keys, t) THEN "stale" ELSE "error")
    /\ UNCHANGED <<now, idpVars, cacheVars>>

\* Time passes in the network only: the other steps of getKey are instant
\* beside it.  http.Client.Timeout ends a fetch in time.
Tick == /\ now < MaxTime
        /\ holder = {} => \A t \in Caller : pc[t] = "idle"
        /\ \A t \in holder : pc[t] = "fetch" /\ now < fetchStart + FetchTimeout
        /\ now' = now + 1
        /\ answer' = "none"
        /\ UNCHANGED <<idpVars, cacheVars, fetchVars, callVars>>

Fetch(t) == FetchReturns(t) \/ FetchFails(t)
GetKey(t) == Read(t) \/ Lock(t) \/ Check(t) \/ Fetch(t)

Next == \/ \E t \in Caller : GetKey(t) \/ \E k \in Kid : Call(t, k)
        \/ \E S \in KeySets : Publish(S)
        \/ Outage \/ Serve \/ Tick

Spec == Init /\ [][Next]_vars

-----------------------------------------------------------------------------
(* Properties.                                                                *)

LastPublished(k) == IF k \in published THEN now ELSE retired[k]

Answers(t, a) == pc[t] # "idle" /\ pc'[t] = "idle" /\ answer' = a

\* A key that is not a fallback was published within the refresh interval and
\* one fetch: failed fetches and waiting for the lock do not stretch its life
\* (getKey).
KeyIsRecent ==
    [][\A t \in Caller, k \in Kid : Answers(t, "key") /\ want[t] = {k}
           => now <= LastPublished(k) + FetchTimeout + (IF Refresh > 0 THEN Refresh ELSE 0)]_vars

\* A caller does not fetch what was fetched while it waited: if a document
\* with its key arrived since it called, it takes it from there (the second
\* look of getKey).  That needs a refresh interval above the time of one fetch
\* and of those of all callers but two: the document may grow old in the queue.
NoRedundantFetch ==
    [][\A t \in Caller : pc[t] # "fetch" /\ pc'[t] = "fetch" /\ lastFetch >= since[t]
           => ~Holds(keys, t)]_vars

\* A lookup waits for one fetch that keeps its RLock out, then for one fetch of
\* each caller in the queue, its own included, and not for more (getKey, with
\* fetch under the lock).
AnsweredAfterQueue == \A t \in Caller :
    pc[t] # "idle" => now - since[t] <= (Cardinality(Caller) + 1) * FetchTimeout
=============================================================================
