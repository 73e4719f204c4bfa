----------------------------- MODULE AuthzCheck -----------------------------
(***************************************************************************)
(* LegacyClientImpl.Check (src/pkg/ac/client/client_test.go, the authz     *)
(* client) run by concurrent goroutines that share the permission cache    *)
(* and the remote authz service.                                           *)
(*                                                                         *)
(* The decision up to retrievePermissions is pure (AuthzPolicy!PreCheck)   *)
(* and is one step.  retrievePermissions is three: the cache Get, the      *)
(* remote Read on the context made by newOutgoingContext, and the cache    *)
(* Set, each an atomic call into a locked cache or a single RPC; other     *)
(* goroutines, TTL expiry and permission changes interleave between them.  *)
(* newOutgoingContext's watcher goroutine is modelled with the caller's    *)
(* context: it exits only when that context is done.  Cache entries and    *)
(* callers carry, as history, the triple their controller was read for.    *)
(***************************************************************************)
EXTENDS AuthzPolicy

CONSTANTS
    Callers,        \* goroutines calling Check
    Requests,       \* the CheckRequests they send
    Grants,         \* the Read responses the authz service may give
    CacheFaults,    \* whether the (pluggable) cache's Get/Set may fail
    BackgroundCtx   \* whether a caller may pass a never-canceled context

ASSUME CheckAssumption ==
    /\ Requests # {}
    /\ Grants \subseteq Responses \ {NoResponse} /\ Grants # {}
    /\ CacheFaults \in BOOLEAN
    /\ BackgroundCtx \in BOOLEAN

\* Requests that reach retrievePermissions, their triples and cache keys.
Retrieving == {r \in Requests : PreCheck(r) = "retrieve"}
Triples == {Triple(r) : r \in Retrieving}
Keys == {CacheKey(t) : t \in Triples}
\* The triple tag of a caller that has read no controller yet.
NoTriple == <<>>

VARIABLES
    cache,      \* partial function: cache key -> <<triple read, controller>>
    upstream,   \* triple -> the response the authz service gives now
    pc,         \* caller -> "idle" | "cache" | "read" | "set"
    req,        \* caller -> its current (or last) request
    ctrl,       \* caller -> the controller built from its Read
    src,        \* caller -> the triple its controller was read for
    ret,        \* caller -> Check's result ("none" while running)
    ctxBg,      \* caller -> its context is never canceled
    ctxDone,    \* caller -> its context is done
    watcher     \* caller -> the newOutgoingContext goroutine is running

vars == <<cache, upstream, pc, req, ctrl, src, ret, ctxBg, ctxDone, watcher>>

Key(c) == CacheKey(Triple(req[c]))

Finish(c, r) ==
    /\ pc' = [pc EXCEPT ![c] = "idle"]
    /\ ret' = [ret EXCEPT ![c] = r]

Init ==
    /\ cache = [k \in {} |-> <<NoTriple, NoPermissions>>]
    /\ upstream \in [Triples -> Grants]
    /\ pc = [c \in Callers |-> "idle"]
    /\ req = [c \in Callers |-> CHOOSE r \in Requests : TRUE]
    /\ ctrl = [c \in Callers |-> NoPermissions]
    /\ src = [c \in Callers |-> NoTriple]
    /\ ret = [c \in Callers |-> "none"]
    /\ ctxBg = [c \in Callers |-> FALSE]
    /\ ctxDone = [c \in Callers |-> TRUE]
    /\ watcher = [c \in Callers |-> FALSE]

(***************************************************************************)
(* Check up to retrievePermissions, on a fresh context; a caller starts    *)
(* its next request once the watcher of the previous one has exited.       *)
(***************************************************************************)
Start(c, r, bg) ==
    /\ pc[c] = "idle"
    /\ ~watcher[c]
    /\ req' = [req EXCEPT ![c] = r]
    /\ ctrl' = [ctrl EXCEPT ![c] = NoPermissions]
    /\ src' = [src EXCEPT ![c] = NoTriple]
    /\ ctxBg' = [ctxBg EXCEPT ![c] = bg]
    /\ ctxDone' = [ctxDone EXCEPT ![c] = FALSE]
    /\ IF PreCheck(r) = "retrieve"
       THEN /\ pc' = [pc EXCEPT ![c] = "cache"]
            /\ ret' = [ret EXCEPT ![c] = "none"]
       ELSE Finish(c, PreCheck(r))
    /\ UNCHANGED <<cache, upstream, watcher>>

\* Mutant: a hit decides on the zero controller, not on the decoded one.
CacheGetZeroController(c) ==
    /\ pc[c] = "cache"
    /\ \/ /\ CacheFaults
          /\ Finish(c, "CacheError")
          /\ UNCHANGED src
       \/ /\ Key(c) \in DOMAIN cache
          /\ src' = [src EXCEPT ![c] = cache[Key(c)][1]]
          /\ Finish(c, PostCheck(req[c], NoPermissions))
       \/ /\ Key(c) \notin DOMAIN cache
          /\ pc' = [pc EXCEPT ![c] = "read"]
          /\ UNCHANGED <<src, ret>>
    /\ UNCHANGED <<cache, upstream, req, ctrl, ctxBg, ctxDone, watcher>>

(* getCachedController: a hit is decoded and decides; ErrNotFound goes on  *)
(* to the Read; any other cache error is returned.                         *)
CacheGet(c) ==
    /\ pc[c] = "cache"
    /\ \/ /\ CacheFaults
          /\ Finish(c, "CacheError")
          /\ UNCHANGED src
       \/ /\ Key(c) \in DOMAIN cache
          /\ src' = [src EXCEPT ![c] = cache[Key(c)][1]]
          /\ Finish(c, PostCheck(req[c], cache[Key(c)][2]))
       \/ /\ Key(c) \notin DOMAIN cache
          /\ pc' = [pc EXCEPT ![c] = "read"]
          /\ UNCHANGED <<src, ret>>
    /\ UNCHANGED <<cache, upstream, req, ctrl, ctxBg, ctxDone, watcher>>

(* newOutgoingContext starts the watcher, then clientV1.Read.  Any RPC    *)
(* error, a canceled outCtx among them, is ErrReadPermission; on success   *)
(* newController.  The watcher cancels outCtx from its own goroutine, so   *)
(* even a done caller context may or may not stop the Read in time.       *)
Read(c) ==
    /\ pc[c] = "read"
    /\ watcher' = [watcher EXCEPT ![c] = TRUE]
    /\ \/ /\ Finish(c, "ReadPermission")
          /\ UNCHANGED <<ctrl, src>>
       \/ /\ ctrl' = [ctrl EXCEPT ![c] = NewController(upstream[Triple(req[c])])]
          /\ src' = [src EXCEPT ![c] = Triple(req[c])]
          /\ pc' = [pc EXCEPT ![c] = "set"]
          /\ ret' = ret
    /\ UNCHANGED <<cache, upstream, req, ctxBg, ctxDone>>

(* cacheController writes the controller with the default expiry; a Set    *)
(* error is returned (false, err); otherwise Check decides on it.          *)
CacheSet(c) ==
    /\ pc[c] = "set"
    /\ \/ /\ CacheFaults
          /\ Finish(c, "CacheError")
          /\ UNCHANGED cache
       \/ /\ cache' = [k \in DOMAIN cache \cup {Key(c)} |->
                          IF k = Key(c) THEN <<src[c], ctrl[c]>> ELSE cache[k]]
          /\ Finish(c, PostCheck(req[c], ctrl[c]))
    /\ UNCHANGED <<upstream, req, ctrl, src, ctxBg, ctxDone, watcher>>

(* The caller's context ends (request finished or client gone).            *)
CancelCtx(c) ==
    /\ ~ctxBg[c] /\ ~ctxDone[c]
    /\ ctxDone' = [ctxDone EXCEPT ![c] = TRUE]
    /\ UNCHANGED <<cache, upstream, pc, req, ctrl, src, ret, ctxBg, watcher>>

(* The watcher's select: case <-ctx.Done(): cancel().  Its other case,     *)
(* <-outCtx.Done(), needs cancel, which only this case calls.              *)
WatcherExit(c) ==
    /\ watcher[c] /\ ctxDone[c]
    /\ watcher' = [watcher EXCEPT ![c] = FALSE]
    /\ UNCHANGED <<cache, upstream, pc, req, ctrl, src, ret, ctxBg, ctxDone>>

(* A cache entry reaches cache.DefaultExpiration.                          *)
Expire(k) ==
    /\ k \in DOMAIN cache
    /\ cache' = [j \in DOMAIN cache \ {k} |-> cache[j]]
    /\ UNCHANGED <<upstream, pc, req, ctrl, src, ret, ctxBg, ctxDone, watcher>>

(* A permission change in the authz service.                               *)
ChangeGrant(t, g) ==
    /\ upstream[t] # g
    /\ upstream' = [upstream EXCEPT ![t] = g]
    /\ UNCHANGED <<cache, pc, req, ctrl, src, ret, ctxBg, ctxDone, watcher>>

Step(c) == CacheGet(c) \/ Read(c) \/ CacheSet(c)

Next ==
    \/ \E c \in Callers, r \in Requests, bg \in {FALSE, BackgroundCtx} :
          Start(c, r, bg)
    \/ \E c \in Callers : Step(c) \/ CancelCtx(c) \/ WatcherExit(c)
    \/ \E k \in Keys : Expire(k)
    \/ \E t \in Triples, g \in Grants : ChangeGrant(t, g)

(* Goroutines run, and a request-scoped context is canceled once Check     *)
(* has returned (the server ends the request).                             *)
Fairness ==
    \A c \in Callers :
        /\ WF_vars(Step(c))
        /\ WF_vars(WatcherExit(c))
        /\ WF_vars(pc[c] = "idle" /\ CancelCtx(c))

Spec == Init /\ [][Next]_vars /\ Fairness

-----------------------------------------------------------------------------
Results == {"none", "allow", "deny", "MissingStackID", "MissingAction",
            "MissingCaller", "MissingSubject", "ReadPermission", "CacheError"}

TypeOK ==
    /\ DOMAIN cache \subseteq Keys
    /\ \A k \in DOMAIN cache : cache[k] \in Triples \X Controllers
    /\ upstream \in [Triples -> Grants]
    /\ pc \in [Callers -> {"idle", "cache", "read", "set"}]
    /\ req \in [Callers -> Requests]
    /\ ctrl \in [Callers -> Controllers]
    /\ src \in [Callers -> Triples \cup {NoTriple}]
    /\ ret \in [Callers -> Results]
    /\ ctxBg \in [Callers -> BOOLEAN]
    /\ ctxDone \in [Callers -> BOOLEAN]
    /\ watcher \in [Callers -> BOOLEAN]

(* A user's request is allowed only on a controller that the authz         *)
(* service returned for that very (stack, subject, action): no cached      *)
(* answer for another user, action or tenant is ever used (Check,          *)
(* retrievePermissions, controllerCacheKey).                               *)
AllowOnlyIfGranted ==
    \A c \in Callers :
        (ret[c] = "allow" /\ req[c] \in Retrieving) => src[c] = Triple(req[c])

(* spec.md 8 (idempotence) and 1 (cache-stampede prevention): within one  *)
(* TTL window, Checks with identical inputs issue one Read, later ones are *)
(* served from the cache.  A caller that has completed a Read is about to  *)
(* write an entry that is not there yet (retrievePermissions, no           *)
(* deduplication between the cache miss and the Read).                     *)
OneReadPerWindow ==
    \A c \in Callers : pc[c] = "set" => Key(c) \notin DOMAIN cache

(* spec.md 5 and 9: the cancellation watcher of newOutgoingContext must    *)
(* terminate, so that no watcher outlives its call indefinitely.           *)
WatcherTerminates == \A c \in Callers : watcher[c] ~> ~watcher[c]

-----------------------------------------------------------------------------
(* The refinement mapping to AuthzContract: a caller anywhere inside       *)
(* retrievePermissions is running; what is remembered for a triple is the  *)
(* controllers of the cache entries read for it and those that callers     *)
(* about to write the cache read for it.                                   *)
Known ==
    {cache[k] : k \in DOMAIN cache}
    \cup {<<src[c], ctrl[c]>> : c \in {d \in Callers : pc[d] = "set"}}

AC == INSTANCE AuthzContract
        WITH apc <- [c \in Callers |-> IF pc[c] = "idle" THEN "idle" ELSE "busy"],
             areq <- req, aret <- ret, aupstream <- upstream, aknown <- Known

(* Check keeps the authz contract (spec.md 4.3, 8): whether its verdict    *)
(* comes from a cache hit, a fresh Read or is written back, it is the      *)
(* verdict on a Read response the service gave for the request's own      *)
(* (stack, subject, action), possibly stale, never another triple's        *)
(* (Check, retrievePermissions, getCachedController, cacheController).     *)
RefinesAuthzContract == AC!ASafety

=============================================================================
