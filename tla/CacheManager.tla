---------------------------- MODULE CacheManager ----------------------------
(***************************************************************************)
(* cache.Manager (back/internal/infrastructure/cache/cache.go): the cache  *)
(* every finder of the university repository shares.  The manager is a     *)
(* mutex around a go-cache map, so each method is one atomic step.         *)
(*                                                                         *)
(* Keys are tuples of strings, the fields of the formatted key:            *)
(* "departments:1:2" is <<"departments", "1", "2">>.  The hit and miss     *)
(* counters and the log lines are left out.                                *)
(***************************************************************************)
EXTENDS Naturals, FiniteSets

CONSTANTS
    Keys,           \* the keys some finder looks up and stores
    MaxCacheSize,   \* maxCacheSize: no entry is added, or served, at this size
    NoEntry         \* marks a key without an entry

ASSUME CacheAssumption ==
    /\ IsFiniteSet(Keys)
    /\ MaxCacheSize \in Nat \ {0}

VARIABLE cache      \* cache[k]: NoEntry, or the entry of k and whether its TTL ran out

Present(k) == cache[k] # NoEntry

\* go-cache's ItemCount: expired entries count until the janitor removes them.
ItemCount == Cardinality({k \in Keys : Present(k)})

IsFull == ItemCount >= MaxCacheSize

\* GetFromCache finds nothing, without looking, while the cache is full; an
\* expired entry is not found but stays where it is.
Found(k) ==
    /\ ~ IsFull
    /\ Present(k)
    /\ ~ cache[k].expired

\* Faulty variants of SetCache: the size is compared with > instead of >=; the value
\* is stored without its expiry.
SetCacheOneTooMany(k, v) ==
    cache' = IF ItemCount > MaxCacheSize THEN cache
             ELSE [cache EXCEPT ![k] = [val |-> v, expired |-> FALSE]]
SetCacheBare(k, v) == cache' = IF IsFull THEN cache ELSE [cache EXCEPT ![k] = v]

\* SetCache is silently ignored while the cache is full, also for a key that
\* already has an entry; otherwise the TTL of the key starts again.
SetCache(k, v) ==
    cache' = IF IsFull THEN cache
             ELSE [cache EXCEPT ![k] = [val |-> v, expired |-> FALSE]]

\* go-cache's Delete of every key of ks; deleting an absent key does nothing.
DeleteKeys(ks) ==
    cache' = [k \in Keys |-> IF k \in ks THEN NoEntry ELSE cache[k]]

CacheKeyAllUniversities == <<"universities", "all">>
CacheKeyUniversity(id) == <<"universities", id>>
CacheKeyDepartment(u, d) == <<"departments", u, d>>

\* Faulty variant of RelatedKeys: the list of all universities is forgotten.
RelatedKeysWithoutList(id) == {CacheKeyUniversity(id), CacheKeyDepartment(id, "*")}

\* The keys ClearAllRelatedCache deletes.  The last one is meant as a pattern,
\* but go-cache's Delete takes it as it is: no entry is ever stored under it.
RelatedKeys(id) ==
    {CacheKeyAllUniversities, CacheKeyUniversity(id), CacheKeyDepartment(id, "*")}

ClearAllRelatedCache(id) == DeleteKeys(RelatedKeys(id))

ClearSubjectsCache(testTypeID) == DeleteKeys({<<"subjects", testTypeID, "*">>})

\* Faulty variants of Expire and DeleteExpired: entries are set without an expiry; the
\* janitor finds expired entries and leaves them.
ExpireNever(k) == Present(k) /\ FALSE /\ UNCHANGED cache
DeleteNothing == (\E k \in Keys : Present(k) /\ cache[k].expired) /\ UNCHANGED cache

\* The entry of k outlives cacheDuration (5 minutes after it was stored).
Expire(k) ==
    /\ Present(k)
    /\ ~ cache[k].expired
    /\ cache' = [cache EXCEPT ![k].expired = TRUE]

\* go-cache's janitor (every cacheCleanupInterval) removes the expired entries.
DeleteExpired ==
    /\ \E k \in Keys : Present(k) /\ cache[k].expired
    /\ cache' = [k \in Keys |-> IF Present(k) /\ cache[k].expired
                                THEN NoEntry ELSE cache[k]]
=============================================================================
