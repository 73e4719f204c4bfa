-------------------------- MODULE AuthzCheck_proofs --------------------------
(***************************************************************************)
(* Proofs about AuthzCheck (LegacyClientImpl.Check and retrievePermissions *)
(* in src/pkg/ac/client/client_test.go) for every set of callers,          *)
(* requests, Read responses, kinds and ids.                                *)
(*                                                                         *)
(* The permission cache is sound exactly when controllerCacheKey tells     *)
(* apart the triples the requests can produce (KeysInjective): every cache *)
(* entry is then tagged with the one triple whose key it sits under, and a *)
(* hit returns a controller read for the caller's own triple.  Run         *)
(* authz_key_collision shows requests for which the key is not injective.  *)
(***************************************************************************)
EXTENDS AuthzCheck, TLAPS

\* controllerCacheKey tells the triples of the requests apart.
KeysInjective ==
    \A t1, t2 \in Triples : CacheKey(t1) = CacheKey(t2) => t1 = t2

\* Each entry sits under the key of the triple it was read for.
EntriesTagged == \A k \in DOMAIN cache : CacheKey(cache[k][1]) = k
\* A caller inside retrievePermissions has a request that reached it.
InFlight == \A c \in Callers : pc[c] # "idle" => req[c] \in Retrieving
\* A caller about to write the cache read its controller for its triple.
SetReady == \A c \in Callers : pc[c] = "set" => src[c] = Triple(req[c])

AInv ==
    /\ TypeOK
    /\ EntriesTagged
    /\ InFlight
    /\ SetReady
    /\ AllowOnlyIfGranted

-----------------------------------------------------------------------------
(* newController builds a controller of the type the cache holds.          *)
LEMMA NewControllerType ==
    ASSUME NEW g \in Responses \ {NoResponse}
    PROVE  NewController(g) \in Controllers
<1>1. g \in [found : BOOLEAN, data : SUBSET Objects]
  BY DEF Responses
<1>2. CASE ~g.found
  BY <1>1, <1>2 DEF NewController, NoPermissions, Controllers
<1>3. CASE g.found
  <2>1. {<<o.kind, o.id>> : o \in {p \in g.data : p.id # "*"}}
          \subseteq (Kinds \cup {"*"}) \X Ids
    BY <1>1 DEF Objects
  <2>2. {o.kind : o \in {p \in g.data : p.id = "*"}} \subseteq Kinds \cup {"*"}
    BY <1>1 DEF Objects
  <2>3. QED
    BY <1>1, <1>3, <2>1, <2>2 DEF NewController, Controllers
<1>4. QED
  BY <1>2, <1>3

(* Check's early decisions are results, or "retrieve".                     *)
LEMMA PreCheckType ==
    ASSUME NEW r
    PROVE  PreCheck(r) \in Results \cup {"retrieve"}
  BY DEF PreCheck, Validate, Results

(* Check's decision on a controller is allow or deny.                      *)
LEMMA PostCheckType ==
    ASSUME NEW r, NEW ctl
    PROVE  PostCheck(r, ctl) \in {"allow", "deny"}
  BY DEF PostCheck

-----------------------------------------------------------------------------
LEMMA AInvInit == Init => AInv
<1> SUFFICES ASSUME Init PROVE AInv
  OBVIOUS
<1>1. (CHOOSE r \in Requests : TRUE) \in Requests
  BY CheckAssumption
<1>2. NoPermissions \in Controllers
  BY DEF NoPermissions, Controllers
<1>3. DOMAIN cache = {}
  BY DEF Init
<1>4. TypeOK
  BY <1>1, <1>2, <1>3 DEF Init, TypeOK, Results
<1>5. QED
  BY <1>3, <1>4 DEF Init, AInv, EntriesTagged, InFlight, SetReady,
     AllowOnlyIfGranted

\* Shorthands for the proof steps below.
LEMMA RetrievingTriple ==
    ASSUME NEW r \in Retrieving
    PROVE  Triple(r) \in Triples /\ CacheKey(Triple(r)) \in Keys
  BY DEF Triples, Keys

LEMMA AInvStep == KeysInjective /\ AInv /\ [Next]_vars => AInv'
<1> SUFFICES ASSUME KeysInjective, AInv, [Next]_vars PROVE AInv'
  OBVIOUS
<1> USE DEF AInv, TypeOK
<1>1. ASSUME NEW c \in Callers, NEW r \in Requests,
             NEW bg \in {FALSE, BackgroundCtx}, Start(c, r, bg)
      PROVE AInv'
  <2>1. CASE PreCheck(r) = "retrieve"
    <3>a. r \in Retrieving
      BY <2>1 DEF Retrieving
    <3>b. /\ pc' = [pc EXCEPT ![c] = "cache"]
          /\ ret' = [ret EXCEPT ![c] = "none"]
      BY <1>1, <2>1 DEF Start
    <3>c. TypeOK'
      BY <1>1, <3>b, CheckAssumption DEF Start, Results, NoPermissions, Controllers
    <3>d. EntriesTagged' /\ InFlight'
      BY <1>1, <3>a, <3>b DEF Start, EntriesTagged, InFlight
    <3>e. SetReady' /\ AllowOnlyIfGranted'
      BY <1>1, <3>b DEF Start, SetReady, AllowOnlyIfGranted
    <3>f. QED
      BY <3>c, <3>d, <3>e
  <2>2. CASE PreCheck(r) # "retrieve"
    <3>a. PreCheck(r) \in Results
      BY <2>2, PreCheckType
    <3>b. r \notin Retrieving
      BY <2>2 DEF Retrieving
    <3>c. /\ pc' = [pc EXCEPT ![c] = "idle"]
          /\ ret' = [ret EXCEPT ![c] = PreCheck(r)]
      BY <1>1, <2>2 DEF Start, Finish
    <3>d. TypeOK'
      BY <1>1, <3>a, <3>c, CheckAssumption
      DEF Start, NoPermissions, Controllers
    <3>e. QED
      BY <1>1, <3>b, <3>c, <3>d
      DEF Start, EntriesTagged, InFlight, SetReady, AllowOnlyIfGranted
  <2>3. QED
    BY <2>1, <2>2
<1>2. ASSUME NEW c \in Callers, CacheGet(c) PROVE AInv'
  <2>0. req[c] \in Retrieving
    BY <1>2 DEF CacheGet, InFlight
  <2>1. CASE CacheFaults /\ Finish(c, "CacheError") /\ UNCHANGED src
    BY <1>2, <2>1 DEF CacheGet, Finish, Results, EntriesTagged, InFlight,
       SetReady, AllowOnlyIfGranted
  \* A hit: the entry's tag has the caller's key, so it is the caller's
  \* triple.
  <2>2. CASE /\ Key(c) \in DOMAIN cache
             /\ src' = [src EXCEPT ![c] = cache[Key(c)][1]]
             /\ Finish(c, PostCheck(req[c], cache[Key(c)][2]))
    <3>1. cache[Key(c)][1] \in Triples
      BY <2>2
    <3>2. CacheKey(cache[Key(c)][1]) = CacheKey(Triple(req[c]))
      BY <2>2 DEF EntriesTagged, Key
    <3>3. cache[Key(c)][1] = Triple(req[c])
      BY <2>0, <3>1, <3>2, RetrievingTriple DEF KeysInjective
    <3>4. PostCheck(req[c], cache[Key(c)][2]) \in Results
      BY PostCheckType DEF Results
    <3>5. QED
      BY <1>2, <2>2, <3>3, <3>4 DEF CacheGet, Finish, EntriesTagged,
         InFlight, SetReady, AllowOnlyIfGranted
  <2>3. CASE /\ Key(c) \notin DOMAIN cache
             /\ pc' = [pc EXCEPT ![c] = "read"]
             /\ UNCHANGED <<src, ret>>
    BY <1>2, <2>0, <2>3 DEF CacheGet, EntriesTagged, InFlight, SetReady,
       AllowOnlyIfGranted
  <2>4. QED
    BY <1>2, <2>1, <2>2, <2>3 DEF CacheGet
<1>3. ASSUME NEW c \in Callers, Read(c) PROVE AInv'
  <2>0. req[c] \in Retrieving
    BY <1>3 DEF Read, InFlight
  <2>1. CASE Finish(c, "ReadPermission") /\ UNCHANGED <<ctrl, src>>
    BY <1>3, <2>1 DEF Read, Finish, Results, EntriesTagged, InFlight,
       SetReady, AllowOnlyIfGranted
  <2>2. CASE /\ ctrl' = [ctrl EXCEPT ![c] = NewController(upstream[Triple(req[c])])]
             /\ src' = [src EXCEPT ![c] = Triple(req[c])]
             /\ pc' = [pc EXCEPT ![c] = "set"]
             /\ ret' = ret
    <3>1. Triple(req[c]) \in Triples
      BY <2>0, RetrievingTriple
    <3>2. NewController(upstream[Triple(req[c])]) \in Controllers
      BY <3>1, CheckAssumption, NewControllerType
    <3>3. QED
      BY <1>3, <2>2, <3>1, <3>2 DEF Read, EntriesTagged, InFlight, SetReady,
         AllowOnlyIfGranted
  <2>3. QED
    BY <1>3, <2>1, <2>2 DEF Read
<1>4. ASSUME NEW c \in Callers, CacheSet(c) PROVE AInv'
  <2>0. req[c] \in Retrieving /\ src[c] = Triple(req[c])
    BY <1>4 DEF CacheSet, InFlight, SetReady
  <2>1. CASE CacheFaults /\ Finish(c, "CacheError") /\ UNCHANGED cache
    BY <1>4, <2>1 DEF CacheSet, Finish, Results, EntriesTagged, InFlight,
       SetReady, AllowOnlyIfGranted
  \* The entry written is tagged with the triple of its key.
  <2>2. CASE /\ cache' = [k \in DOMAIN cache \cup {Key(c)} |->
                            IF k = Key(c) THEN <<src[c], ctrl[c]>> ELSE cache[k]]
             /\ Finish(c, PostCheck(req[c], ctrl[c]))
    <3>1. Key(c) \in Keys /\ src[c] \in Triples
      BY <2>0, RetrievingTriple DEF Key
    <3>2. CacheKey(src[c]) = Key(c)
      BY <2>0 DEF Key
    <3>3. PostCheck(req[c], ctrl[c]) \in Results
      BY PostCheckType DEF Results
    <3>4. TypeOK'
      BY <1>4, <2>2, <3>1, <3>3 DEF CacheSet, Finish
    <3>5. EntriesTagged'
      BY <2>2, <3>2 DEF EntriesTagged
    <3>6. QED
      BY <1>4, <2>0, <2>2, <3>4, <3>5 DEF CacheSet, Finish, InFlight,
         SetReady, AllowOnlyIfGranted
  <2>3. QED
    BY <1>4, <2>1, <2>2 DEF CacheSet
<1>5. ASSUME NEW c \in Callers, CancelCtx(c) PROVE AInv'
  BY <1>5 DEF CancelCtx, EntriesTagged, InFlight, SetReady,
     AllowOnlyIfGranted
<1>6. ASSUME NEW c \in Callers, WatcherExit(c) PROVE AInv'
  BY <1>6 DEF WatcherExit, EntriesTagged, InFlight, SetReady,
     AllowOnlyIfGranted
<1>7. ASSUME NEW k \in Keys, Expire(k) PROVE AInv'
  BY <1>7 DEF Expire, EntriesTagged, InFlight, SetReady, AllowOnlyIfGranted
<1>8. ASSUME NEW t \in Triples, NEW g \in Grants, ChangeGrant(t, g)
      PROVE AInv'
  BY <1>8 DEF ChangeGrant, EntriesTagged, InFlight, SetReady,
     AllowOnlyIfGranted
<1>9. CASE UNCHANGED vars
  BY <1>9 DEF vars, EntriesTagged, InFlight, SetReady, AllowOnlyIfGranted
<1>10. QED
  BY <1>1, <1>2, <1>3, <1>4, <1>5, <1>6, <1>7, <1>8, <1>9 DEF Next, Step

-----------------------------------------------------------------------------
(* For every set of callers, requests, Read responses, kinds and ids whose *)
(* triples controllerCacheKey tells apart: however Checks interleave with  *)
(* cache faults, Read failures, expiry and permission changes, a request   *)
(* is allowed only on a controller the authz service returned for that    *)
(* very (stack, subject, action) (Check, retrievePermissions,              *)
(* cacheController, getCachedController).                                  *)
THEOREM AuthzCacheSafety ==
    ASSUME KeysInjective
    PROVE  Spec => []AllowOnlyIfGranted
<1>1. AInv => AllowOnlyIfGranted
  BY DEF AInv
<1>2. AInv /\ [Next]_vars => AInv'
  BY AInvStep
<1>3. QED
  BY <1>1, <1>2, AInvInit, PTL DEF Spec

-----------------------------------------------------------------------------
(***************************************************************************)
(* Refinement: AuthzCheck implements AuthzContract under the mapping of    *)
(* AuthzCheck.  What the contract remembers for a triple is the cache      *)
(* entries tagged with it and the controllers callers about to write the   *)
(* cache read for it.  A successful Read adds the controller of what the  *)
(* service grants now (AServe); a write-back or an expiry only drops       *)
(* pairs (Forget); every verdict is Check's on a remembered pair of the    *)
(* caller's own triple, which EntriesTagged, SetReady and KeysInjective    *)
(* give.                                                                   *)
(***************************************************************************)
\* The abstract view of pc: inside retrievePermissions or not.
Busy == [c \in Callers |-> IF pc[c] = "idle" THEN "idle" ELSE "busy"]

LEMMA ATriplesAreTriples == AC!ATriples = Triples
  BY DEF AC!ATriples, Triples, Retrieving

LEMMA RefInit == Init => AC!AInit
<1> SUFFICES ASSUME Init PROVE AC!AInit
  OBVIOUS
<1>1. Known = {}
  BY DEF Init, Known
<1>2. QED
  BY <1>1, ATriplesAreTriples DEF Init, AC!AInit

(* A step that writes no cache entry, moves no caller into or out of "set" *)
(* and leaves the controllers and tags of callers alone keeps Known.      *)
LEMMA KnownUnchanged ==
    ASSUME UNCHANGED <<cache, ctrl, src>>,
           \A d \in Callers : pc'[d] = "set" <=> pc[d] = "set"
    PROVE  Known' = Known
  BY DEF Known

LEMMA RefStep ==
    KeysInjective /\ AInv /\ [Next]_vars => [AC!ANext]_AC!avars
<1> SUFFICES ASSUME KeysInjective, AInv, [Next]_vars
             PROVE  [AC!ANext]_AC!avars
  OBVIOUS
<1> USE DEF AInv, TypeOK
\* A reply of c with o from a state where it is running.
<1>r. ASSUME NEW c \in Callers, NEW o,
             pc[c] # "idle", o \in AC!Verdicts(req[c]),
             pc' = [pc EXCEPT ![c] = "idle"], ret' = [ret EXCEPT ![c] = o],
             Known' \subseteq Known, UNCHANGED <<req, upstream>>
      PROVE  AC!ANext
  <2>1. AC!AReply(c, o)
    BY <1>r DEF AC!AReply, AC!Forget
  <2>2. QED
    BY <1>r, <2>1 DEF AC!ANext
<1>1. ASSUME NEW c \in Callers, NEW r \in Requests,
             NEW bg \in {FALSE, BackgroundCtx}, Start(c, r, bg)
      PROVE  AC!ANext
  <2>1. pc[c] = "idle" /\ pc'[c] # "set"
    BY <1>1 DEF Start, Finish
  <2>2. Known' = Known
    BY <1>1, <2>1 DEF Start, Finish, Known
  <2>3. AC!ACall(c, r)
    BY <1>1, <2>1, <2>2 DEF Start, Finish, AC!ACall
  <2>4. QED
    BY <2>3 DEF AC!ANext
<1>2. ASSUME NEW c \in Callers, CacheGet(c) PROVE [AC!ANext]_AC!avars
  <2>0. pc[c] = "cache" /\ req[c] \in Retrieving
    BY <1>2 DEF CacheGet, AInv, InFlight
  <2>s. \A d \in Callers : pc'[d] = "set" <=> pc[d] = "set"
    BY <1>2, <2>0 DEF CacheGet, Finish
  <2>k. Known' = Known
    BY <1>2, <2>s DEF CacheGet, Known
  <2>1. CASE CacheFaults /\ Finish(c, "CacheError") /\ UNCHANGED src
    <3>1. "CacheError" \in AC!Verdicts(req[c])
      BY <2>1 DEF AC!Verdicts
    <3>2. QED
      BY <1>2, <2>0, <2>1, <2>k, <3>1, <1>r DEF CacheGet, Finish
  <2>2. CASE /\ Key(c) \in DOMAIN cache
             /\ src' = [src EXCEPT ![c] = cache[Key(c)][1]]
             /\ Finish(c, PostCheck(req[c], cache[Key(c)][2]))
    \* The entry under the caller's key is tagged with its own triple.
    <3>1. cache[Key(c)] \in Triples \X Controllers
      BY <2>2
    <3>2. cache[Key(c)][1] = Triple(req[c])
      <4>1. CacheKey(cache[Key(c)][1]) = CacheKey(Triple(req[c]))
        BY <2>2 DEF EntriesTagged, Key
      <4>2. QED
        BY <2>0, <3>1, <4>1, RetrievingTriple DEF KeysInjective
    <3>3. <<Triple(req[c]), cache[Key(c)][2]>> \in Known
      BY <2>2, <3>1, <3>2 DEF Known
    <3>4. PostCheck(req[c], cache[Key(c)][2]) \in AC!Verdicts(req[c])
      BY <3>3 DEF AC!Verdicts
    <3>5. QED
      BY <1>2, <2>0, <2>2, <2>k, <3>4, <1>r DEF CacheGet, Finish
  <2>3. CASE /\ Key(c) \notin DOMAIN cache
             /\ pc' = [pc EXCEPT ![c] = "read"]
             /\ UNCHANGED <<src, ret>>
    <3>1. Busy' = Busy
      BY <2>0, <2>3 DEF Busy
    <3>2. QED
      BY <1>2, <2>3, <2>k, <3>1 DEF CacheGet, AC!avars, Busy
  <2>4. QED
    BY <1>2, <2>1, <2>2, <2>3 DEF CacheGet
<1>3. ASSUME NEW c \in Callers, Read(c) PROVE [AC!ANext]_AC!avars
  <2>0. pc[c] = "read" /\ req[c] \in Retrieving
    BY <1>3 DEF Read, AInv, InFlight
  <2>1. CASE Finish(c, "ReadPermission") /\ UNCHANGED <<ctrl, src>>
    <3>1. Known' = Known
      BY <1>3, <2>0, <2>1, KnownUnchanged DEF Read, Finish
    <3>2. "ReadPermission" \in AC!Verdicts(req[c])
      BY DEF AC!Verdicts
    <3>3. AC!ANext
      BY <1>3, <2>0, <2>1, <3>1, <3>2, <1>r DEF Read, Finish
    <3>4. QED
      BY <3>3
  \* The controller read joins what is remembered for the caller's triple.
  <2>2. CASE /\ ctrl' = [ctrl EXCEPT ![c] = NewController(upstream[Triple(req[c])])]
             /\ src' = [src EXCEPT ![c] = Triple(req[c])]
             /\ pc' = [pc EXCEPT ![c] = "set"]
             /\ ret' = ret
    <3> DEFINE t == Triple(req[c])
    <3>1. t \in AC!ATriples
      BY <2>0, RetrievingTriple, ATriplesAreTriples
    <3>2. Known' = Known \cup {<<t, NewController(upstream[t])>>}
      BY <1>3, <2>0, <2>2 DEF Read, Known
    <3>3. Busy' = Busy
      BY <2>0, <2>2 DEF Busy
    <3>4. AC!AServe(t)
      BY <1>3, <2>2, <3>2, <3>3 DEF Read, AC!AServe, Busy
    <3>5. QED
      BY <3>1, <3>4 DEF AC!ANext
  <2>3. QED
    BY <1>3, <2>1, <2>2 DEF Read
<1>4. ASSUME NEW c \in Callers, CacheSet(c) PROVE AC!ANext
  <2>0. pc[c] = "set" /\ src[c] = Triple(req[c])
    BY <1>4 DEF CacheSet, AInv, SetReady
  \* The caller's pair was remembered; afterwards it is, at most, in the
  \* entry written, which replaces the entry under the same key.
  <2>1. <<Triple(req[c]), ctrl[c]>> \in Known
    BY <2>0 DEF Known
  <2>2. CASE CacheFaults /\ Finish(c, "CacheError") /\ UNCHANGED cache
    <3>0. \A d \in Callers : pc'[d] = "set" => pc[d] = "set"
      BY <2>2 DEF Finish
    <3>1. Known' \subseteq Known
      BY <1>4, <2>2, <3>0 DEF CacheSet, Known
    <3>2. "CacheError" \in AC!Verdicts(req[c])
      BY <2>2 DEF AC!Verdicts
    <3>p. Busy' = [Busy EXCEPT ![c] = "idle"] /\ Busy[c] = "busy"
      BY <2>0, <2>2 DEF Finish, Busy
    <3>3. AC!AReply(c, "CacheError")
      BY <1>4, <2>2, <3>p, <3>1, <3>2 DEF CacheSet, Finish, AC!AReply, AC!Forget, Busy
    <3>4. QED
      BY <3>p, <3>2, <3>3 DEF AC!ANext, Busy
  <2>3. CASE /\ cache' = [k \in DOMAIN cache \cup {Key(c)} |->
                            IF k = Key(c) THEN <<src[c], ctrl[c]>> ELSE cache[k]]
             /\ Finish(c, PostCheck(req[c], ctrl[c]))
    <3>0. \A d \in Callers : pc'[d] = "set" => pc[d] = "set"
      BY <2>3 DEF Finish
    <3>a. \A k \in DOMAIN cache' : cache'[k] \in Known
      BY <2>1, <2>0, <2>3 DEF Known
    <3>b. \A d \in {e \in Callers : pc'[e] = "set"} : <<src'[d], ctrl'[d]>> \in Known
      BY <1>4, <3>0 DEF CacheSet, Known
    <3>1. Known' \subseteq Known
      BY <3>a, <3>b DEF Known
    <3>2. PICK o \in AC!Verdicts(req[c]) : o = PostCheck(req[c], ctrl[c])
      BY <2>1 DEF AC!Verdicts
    <3>p. Busy' = [Busy EXCEPT ![c] = "idle"] /\ Busy[c] = "busy"
      BY <2>0, <2>3 DEF Finish, Busy
    <3>3. AC!AReply(c, o)
      BY <1>4, <2>3, <3>p, <3>1, <3>2 DEF CacheSet, Finish, AC!AReply, AC!Forget, Busy
    <3>4. QED
      BY <3>p, <3>2, <3>3 DEF AC!ANext, Busy
  <2>4. QED
    BY <1>4, <2>2, <2>3 DEF CacheSet
<1>5. ASSUME NEW c \in Callers, CancelCtx(c) \/ WatcherExit(c)
      PROVE  UNCHANGED AC!avars
  <2>1. Known' = Known
    BY <1>5, KnownUnchanged DEF CancelCtx, WatcherExit
  <2>2. QED
    BY <1>5, <2>1 DEF CancelCtx, WatcherExit, AC!avars
<1>6. ASSUME NEW k \in Keys, Expire(k) PROVE AC!ANext
  <2>1. Known' \subseteq Known
    BY <1>6 DEF Expire, Known
  <2>2. AC!AForget
    BY <1>6, <2>1 DEF Expire, AC!AForget, AC!Forget
  <2>3. QED
    BY <2>2 DEF AC!ANext
<1>7. ASSUME NEW t \in Triples, NEW g \in Grants, ChangeGrant(t, g)
      PROVE  AC!ANext
  <2>1. Known' = Known
    BY <1>7, KnownUnchanged DEF ChangeGrant
  <2>2. AC!AChange(t, g)
    BY <1>7, <2>1 DEF ChangeGrant, AC!AChange
  <2>3. QED
    BY <2>2, ATriplesAreTriples DEF AC!ANext
<1>8. CASE UNCHANGED vars
  BY <1>8 DEF vars, Known, AC!avars
<1>9. QED
  BY <1>1, <1>2, <1>3, <1>4, <1>5, <1>6, <1>7, <1>8 DEF Next, Step

(* For every set of callers, requests, Read responses, kinds and ids whose *)
(* triples controllerCacheKey tells apart: every behaviour of concurrent   *)
(* Checks, with cache hits, Reads, write-backs, cache faults, expiry and   *)
(* permission changes, is a behaviour of the authz contract: each verdict  *)
(* is Check's on a Read response the service gave for the request's own   *)
(* triple (Check, retrievePermissions, getCachedController,                *)
(* cacheController).                                                       *)
THEOREM AuthzCheckRefinement ==
    ASSUME KeysInjective
    PROVE  Spec => RefinesAuthzContract
<1>1. Spec => []AInv
  BY AInvInit, AInvStep, PTL DEF Spec
<1>2. QED
  BY <1>1, RefInit, RefStep, PTL DEF Spec, RefinesAuthzContract, AC!ASafety

=============================================================================
