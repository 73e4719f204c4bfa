---------------------------- MODULE KeyRetriever ----------------------------
(***************************************************************************)
(* DefaultKeyRetriever of src/authn/jwks.go: resolving a JWT key id to a   *)
(* signing key through a local cache, a singleflight group that collapses  *)
(* concurrent JWKS fetches into one, and a negative cache of known-invalid *)
(* key ids.                                                                *)
(*                                                                         *)
(* Every caller is a goroutine running Get(ctx, keyID).  The local cache   *)
(* is a locked map, so each cache Get or Set is one atomic step; so is the *)
(* singleflight Do bookkeeping (it runs under the group's mutex).  The     *)
(* fetch itself, each cache write of a fetched key, and the re-check after *)
(* the flight are separate steps, so other callers interleave with them.   *)
(*                                                                         *)
(* Data is abstracted to key ids: a cache entry is either absent, the      *)
(* empty placeholder of a known-invalid id, or a (JSON-encoded) key.  The  *)
(* JWKS endpoint serves a set of key ids that the environment may rotate.  *)
(***************************************************************************)
EXTENDS FiniteSets

CONSTANTS
    Callers,    \* goroutines calling Get concurrently
    KeyIDs,     \* key ids that tokens may carry
    KeySets     \* the key sets the JWKS endpoint may serve over time

ASSUME KeySetsAssumption == KeySets \subseteq SUBSET KeyIDs /\ KeySets # {}

VARIABLES
    cache,      \* key id -> "absent" | "invalid" (empty placeholder) | "valid"
    pc,         \* caller -> where it is in Get
    key,        \* caller -> the key id of its current (or last) Get
    ret,        \* caller -> outcome of its last Get
    upstream,   \* the key set the endpoint currently serves
    fetched,    \* the key set the current flight's fetch returned
    pending,    \* keys of fetched that the flight has not written yet
    served      \* history: the key sets of all flights that completed

vars == <<cache, pc, key, ret, upstream, fetched, pending, served>>

Entry == {"absent", "invalid", "valid"}
PC == {"idle", "do", "wait", "fetch", "store", "recheck", "setEmpty"}
Outcome == {"none", "key", "invalid", "fetchErr"}

\* The caller that runs the singleflight function, if any.
Leaders == {c \in Callers : pc[c] \in {"fetch", "store"}}
\* Callers blocked in Do on the in-flight call (c.wg.Wait()).
Waiters == {c \in Callers : pc[c] = "wait"}

\* Return from Get with outcome o; the caller becomes idle.
Return(c, o) ==
    /\ pc' = [pc EXCEPT ![c] = "idle"]
    /\ ret' = [ret EXCEPT ![c] = o]

Init ==
    /\ cache = [k \in KeyIDs |-> "absent"]
    /\ pc = [c \in Callers |-> "idle"]
    /\ key \in [Callers -> KeyIDs]
    /\ ret = [c \in Callers |-> "none"]
    /\ upstream \in KeySets
    /\ fetched = {}
    /\ pending = {}
    /\ served = {}

\* Mutant: the jwk == nil check is dropped; a placeholder hit returns a nil
\* key and no error.
GetNoNilCheck(c, k) ==
    /\ pc[c] = "idle"
    /\ key' = [key EXCEPT ![c] = k]
    /\ \/ cache[k] \in {"valid", "invalid"} /\ Return(c, "key")
       \/ /\ cache[k] = "absent"
          /\ pc' = [pc EXCEPT ![c] = "do"]
          /\ ret' = [ret EXCEPT ![c] = "none"]
    /\ UNCHANGED <<cache, upstream, fetched, pending, served>>

(***************************************************************************)
(* Get: the first getCachedItem.  A cached key is returned, the empty      *)
(* placeholder yields ErrInvalidSigningKey, a miss goes on to s.s.Do.      *)
(***************************************************************************)
Get(c, k) ==
    /\ pc[c] = "idle"
    /\ key' = [key EXCEPT ![c] = k]
    /\ \/ cache[k] = "valid" /\ Return(c, "key")
       \/ cache[k] = "invalid" /\ Return(c, "invalid")
       \/ /\ cache[k] = "absent"
          /\ pc' = [pc EXCEPT ![c] = "do"]
          /\ ret' = [ret EXCEPT ![c] = "none"]
    /\ UNCHANGED <<cache, upstream, fetched, pending, served>>

(* s.s.Do("fetch", ...) with no call in flight: c runs the function.       *)
StartFlight(c) ==
    /\ pc[c] = "do"
    /\ Leaders = {}
    /\ pc' = [pc EXCEPT ![c] = "fetch"]
    /\ UNCHANGED <<cache, key, ret, upstream, fetched, pending, served>>

(* s.s.Do("fetch", ...) while a call is in flight: c waits for its result. *)
JoinFlight(c) ==
    /\ pc[c] = "do"
    /\ Leaders # {}
    /\ pc' = [pc EXCEPT ![c] = "wait"]
    /\ UNCHANGED <<cache, key, ret, upstream, fetched, pending, served>>

(* fetchJWKS succeeds: the body decodes to the endpoint's current set.     *)
FetchOk(c) ==
    /\ pc[c] = "fetch"
    /\ fetched' = upstream
    /\ pending' = upstream
    /\ pc' = [pc EXCEPT ![c] = "store"]
    /\ UNCHANGED <<cache, key, ret, upstream, served>>

\* Mutant: the error of s.s.Do is ignored and Get goes on to the re-check.
FetchFailIgnored(c) ==
    /\ pc[c] = "fetch"
    /\ LET out == Waiters \cup {c} IN
         pc' = [d \in Callers |-> IF d \in out THEN "recheck" ELSE pc[d]]
    /\ UNCHANGED <<cache, key, ret, upstream, fetched, pending, served>>

\* Mutant: the fetch error is reported as ErrInvalidSigningKey.
FetchFailAsInvalid(c) ==
    /\ pc[c] = "fetch"
    /\ LET out == Waiters \cup {c} IN
         /\ pc' = [d \in Callers |-> IF d \in out THEN "idle" ELSE pc[d]]
         /\ ret' = [d \in Callers |-> IF d \in out THEN "invalid" ELSE ret[d]]
    /\ UNCHANGED <<cache, key, upstream, fetched, pending, served>>

(* fetchJWKS fails (request error, status not 200, undecodable body, or    *)
(* the leader's ctx canceled).  The flight ends; the leader and every      *)
(* waiter get the error and Get returns it, caching nothing.               *)
FetchFail(c) ==
    /\ pc[c] = "fetch"
    /\ LET out == Waiters \cup {c} IN
         /\ pc' = [d \in Callers |-> IF d \in out THEN "idle" ELSE pc[d]]
         /\ ret' = [d \in Callers |-> IF d \in out THEN "fetchErr" ELSE ret[d]]
    /\ UNCHANGED <<cache, key, upstream, fetched, pending, served>>

(* One iteration of the loop over jwks.Keys: setCachedItem, NoExpiration.  *)
StoreKey(c) ==
    /\ pc[c] = "store"
    /\ \E k \in pending :
         /\ cache' = [cache EXCEPT ![k] = "valid"]
         /\ pending' = pending \ {k}
    /\ UNCHANGED <<pc, key, ret, upstream, fetched, served>>

(* The function returns nil; singleflight marks the call done and removes *)
(* it from the group under its mutex, releasing all waiters at once.       *)
FinishFlight(c) ==
    /\ pc[c] = "store"
    /\ pending = {}
    /\ LET out == Waiters \cup {c} IN
         pc' = [d \in Callers |-> IF d \in out THEN "recheck" ELSE pc[d]]
    /\ served' = served \cup {fetched}
    /\ fetched' = {}
    /\ UNCHANGED <<cache, key, ret, upstream, pending>>

(* The second getCachedItem after a successful flight.                     *)
Recheck(c) ==
    /\ pc[c] = "recheck"
    /\ \/ cache[key[c]] = "valid" /\ Return(c, "key")
       \/ cache[key[c]] = "invalid" /\ Return(c, "invalid")
       \/ /\ cache[key[c]] = "absent"
          /\ pc' = [pc EXCEPT ![c] = "setEmpty"]
          /\ ret' = ret
    /\ UNCHANGED <<cache, key, upstream, fetched, pending, served>>

(* setEmptyCacheItem: the id is cached as invalid for cacheTTL, and Get    *)
(* returns ErrInvalidSigningKey.                                           *)
SetEmpty(c) ==
    /\ pc[c] = "setEmpty"
    /\ cache' = [cache EXCEPT ![key[c]] = "invalid"]
    /\ Return(c, "invalid")
    /\ UNCHANGED <<key, upstream, fetched, pending, served>>

\* Mutant: fetched keys are cached with cacheTTL instead of NoExpiration.
ExpireAny(k) ==
    /\ cache[k] # "absent"
    /\ cache' = [cache EXCEPT ![k] = "absent"]
    /\ UNCHANGED <<pc, key, ret, upstream, fetched, pending, served>>

(* The local cache drops an entry whose TTL ran out.  Only placeholders    *)
(* have one (cacheTTL); keys are stored with cache.NoExpiration.           *)
Expire(k) ==
    /\ cache[k] = "invalid"
    /\ cache' = [cache EXCEPT ![k] = "absent"]
    /\ UNCHANGED <<pc, key, ret, upstream, fetched, pending, served>>

(* The endpoint starts serving another key set (key rotation).             *)
Rotate ==
    /\ \E S \in KeySets \ {upstream} : upstream' = S
    /\ UNCHANGED <<cache, pc, key, ret, fetched, pending, served>>

\* The steps a caller's goroutine takes by itself once Get has started.
Step(c) ==
    \/ StartFlight(c) \/ JoinFlight(c)
    \/ FetchOk(c) \/ FetchFail(c) \/ StoreKey(c) \/ FinishFlight(c)
    \/ Recheck(c) \/ SetEmpty(c)

Next ==
    \/ \E c \in Callers, k \in KeyIDs : Get(c, k)
    \/ \E c \in Callers : Step(c)
    \/ \E k \in KeyIDs : Expire(k)
    \/ Rotate

(* No fairness: the fetch uses http.DefaultClient, which has no timeout,  *)
(* and singleflight's Do ignores a waiter's ctx, so nothing in the code   *)
(* makes a Get return.                                                     *)
Spec == Init /\ [][Next]_vars

-----------------------------------------------------------------------------
TypeOK ==
    /\ cache \in [KeyIDs -> Entry]
    /\ pc \in [Callers -> PC]
    /\ key \in [Callers -> KeyIDs]
    /\ ret \in [Callers -> Outcome]
    /\ upstream \in KeySets
    /\ fetched \in SUBSET KeyIDs
    /\ pending \in SUBSET KeyIDs
    /\ served \in SUBSET SUBSET KeyIDs

\* Every key the JWKS endpoint has returned: the completed fetches and the
\* one being stored.
KeysFromEndpoint == fetched \cup UNION served

\* Some completed fetch of the key set did not contain k.
Justified(k) == \E S \in served : k \notin S

(* The negative cache is only written for ids a successful fetch lacked:  *)
(* a failed fetch (network error, ctx canceled) never leaves a key id     *)
(* marked invalid (jwks.go Get, the err check before setEmptyCacheItem).  *)
NegativeCacheSound ==
    \A k \in KeyIDs : cache[k] = "invalid" => Justified(k)

(* Get reports ErrInvalidSigningKey for an id only if some completed fetch *)
(* lacked it: neither a failed fetch nor a waiter released before the     *)
(* leader stored the keys can make a valid key look invalid.              *)
InvalidVerdictSound ==
    \A c \in Callers : ret[c] = "invalid" => Justified(key[c])

(* A key id that every completed fetch returned is in the cache as a key: *)
(* all keys are stored before the flight releases its waiters, keys never *)
(* expire, and no placeholder overwrites them (jwks.go Get and setCachedItem). *)
ServedKeysCached ==
    \A k \in KeyIDs :
        (served # {} /\ \A S \in served : k \in S) => cache[k] = "valid"

(* spec.md 4.2 and 8: a remote fetch is triggered only on a genuine cache  *)
(* miss, so N simultaneous Gets for one key id make exactly one fetch.     *)
(* The code checks the cache before s.s.Do, and a caller whose miss came   *)
(* before a flight ended starts a second fetch after it.                   *)
FetchOnlyOnMiss ==
    [][\A c \in Callers :
         (pc[c] = "do" /\ pc'[c] = "fetch") => cache[key[c]] = "absent"]_vars

(* spec.md 4.2: a key set is cached with no expiry and a key id is marked  *)
(* known-invalid only if still absent after a successful fetch.  A key     *)
(* cached as valid is never replaced by the empty placeholder.             *)
ValidKeyNeverInvalidated ==
    [][\A k \in KeyIDs : cache[k] = "valid" => cache'[k] # "invalid"]_vars

-----------------------------------------------------------------------------
(* The refinement mapping to KeyProvider: a caller anywhere inside Get is  *)
(* waiting; the endpoint's answers are the completed fetches and the one   *)
(* whose keys the leader is storing.                                        *)
Answers == served \cup {S \in {fetched} : \E c \in Callers : pc[c] = "store"}

KP == INSTANCE KeyProvider
        WITH kpc <- [c \in Callers |-> IF pc[c] = "idle" THEN "idle" ELSE "busy"],
             kkey <- key, kret <- ret, endpoint <- upstream, answers <- Answers

(* DefaultKeyRetriever.Get keeps the key provider's contract: its cache,   *)
(* singleflight and negative cache only ever answer what the endpoint      *)
(* said: a key some fetch returned, ErrInvalidSigningKey for an id some    *)
(* fetch lacked, or the fetch error (jwks.go Get).                         *)
RefinesKeyProvider == KP!KSafety

=============================================================================
