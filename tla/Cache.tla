------------------------------- MODULE Cache -------------------------------
(***************************************************************************)
(* The cache of the Go backend (cache.go): Redis, and a map in the memory  *)
(* of the process that takes over for a minute after Redis has failed and  *)
(* that answers whatever Redis does not hold.  Nothing copies a value from *)
(* one to the other.                                                       *)
(***************************************************************************)
EXTENDS Naturals

CONSTANTS
    Keys,  \* what is cached
    Miss   \* no value

VARIABLES
    redis,    \* redis[k]: the value Redis holds
    local,    \* local[k]: the value memoryStore holds
    disabled  \* now is before disabledUntil

cacheVars == <<redis, local, disabled>>

CacheInit ==
    /\ redis = [k \in Keys |-> Miss]
    /\ local = [k \in Keys |-> Miss]
    /\ disabled = FALSE

\* What get returns when Redis answers, and when it may be left alone.
Either(k) == IF redis[k] = Miss THEN local[k] ELSE redis[k]
Cached(k) == IF disabled THEN local[k] ELSE Either(k)

\* An entry whose time to live is over is gone when the next get looks for it.
Aged(store) == {[k \in Keys |-> IF k \in gone THEN Miss ELSE store[k]] : gone \in SUBSET Keys}
Expire == redis' \in Aged(redis) /\ local' \in Aged(local)

\* Redis takes the value and memoryStore is left as it is.
Set(k, v) ==
    /\ IF disabled
       THEN local' = [local EXCEPT ![k] = v] /\ UNCHANGED redis
       ELSE redis' = [redis EXCEPT ![k] = v] /\ UNCHANGED local
    /\ UNCHANGED disabled

\* The call to Redis fails, after Redis has done its work or without it.
SetFails(k, v) ==
    /\ ~disabled
    /\ redis' \in {redis, [redis EXCEPT ![k] = v]}
    /\ local' = [local EXCEPT ![k] = v]
    /\ disabled' = TRUE

\* The minute of disableRedis is over.
Reenable ==
    /\ disabled
    /\ disabled' = FALSE
    /\ UNCHANGED <<redis, local>>

\* The process starts again with an empty map; Redis is another process.
Restarted ==
    /\ local' = [k \in Keys |-> Miss]
    /\ disabled' = FALSE
    /\ UNCHANGED redis

=============================================================================
