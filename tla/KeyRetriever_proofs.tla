------------------------- MODULE KeyRetriever_proofs -------------------------
(***************************************************************************)
(* Proofs about KeyRetriever (src/authn/jwks.go) for every set of callers, *)
(* key ids and served key sets.                                            *)
(*                                                                         *)
(* NegativeCacheSound, InvalidVerdictSound and ServedKeysCached are not    *)
(* inductive on their own: a caller between the flight's end and its       *)
(* re-check, or about to write the placeholder, carries knowledge that is  *)
(* not in the cache.  IInv adds what those callers know, and what the      *)
(* leader has written so far.                                              *)
(***************************************************************************)
EXTENDS KeyRetriever, TLAPS

\* A caller released by a successful flight knows served is not empty.
ReleasedAfterFetch ==
    \A c \in Callers : pc[c] \in {"recheck", "setEmpty"} => served # {}

\* A caller about to write the placeholder re-checked the cache and found
\* its key id absent, which only happens to an id some fetch lacked.
SetEmptyJustified ==
    \A c \in Callers : pc[c] = "setEmpty" => Justified(key[c])

\* Keys the leader already wrote are in the cache, unless a placeholder
\* that some completed fetch justifies has since replaced them.
StoredSoFar ==
    \A k \in fetched \ pending : cache[k] = "valid" \/ Justified(k)

\* At most one caller runs the singleflight function.
OneLeader ==
    \A c, d \in Callers :
        (pc[c] \in {"fetch", "store"} /\ pc[d] \in {"fetch", "store"}) => c = d

\* A fetch result exists only while its leader stores it.
FlightResult ==
    /\ pending \subseteq fetched
    /\ fetched # {} => \E c \in Callers : pc[c] = "store"

\* A cached key, and a key Get returned, came from the endpoint.
CachedFromEndpoint ==
    \A k \in KeyIDs : cache[k] = "valid" => k \in KeysFromEndpoint
KeyFromEndpoint ==
    \A c \in Callers : ret[c] = "key" => key[c] \in KeysFromEndpoint

EInv == OneLeader /\ FlightResult /\ CachedFromEndpoint /\ KeyFromEndpoint

IInv ==
    /\ TypeOK
    /\ NegativeCacheSound
    /\ InvalidVerdictSound
    /\ ServedKeysCached
    /\ ReleasedAfterFetch
    /\ SetEmptyJustified
    /\ StoredSoFar

-----------------------------------------------------------------------------
(* Every step of the key retriever keeps the state well typed.            *)
LEMMA TypeStep == TypeOK /\ [Next]_vars => TypeOK'
<1> SUFFICES ASSUME TypeOK, [Next]_vars PROVE TypeOK'
  OBVIOUS
<1> USE KeySetsAssumption DEF TypeOK, Entry, PC, Outcome
<1>1. ASSUME NEW c \in Callers, NEW k \in KeyIDs, Get(c, k) PROVE TypeOK'
  BY <1>1 DEF Get, Return
<1>2. ASSUME NEW c \in Callers, StartFlight(c) PROVE TypeOK'
  BY <1>2 DEF StartFlight
<1>3. ASSUME NEW c \in Callers, JoinFlight(c) PROVE TypeOK'
  BY <1>3 DEF JoinFlight
<1>4. ASSUME NEW c \in Callers, FetchOk(c) PROVE TypeOK'
  BY <1>4 DEF FetchOk
<1>5. ASSUME NEW c \in Callers, FetchFail(c) PROVE TypeOK'
  BY <1>5 DEF FetchFail
<1>6. ASSUME NEW c \in Callers, StoreKey(c) PROVE TypeOK'
  BY <1>6 DEF StoreKey
<1>7. ASSUME NEW c \in Callers, FinishFlight(c) PROVE TypeOK'
  BY <1>7 DEF FinishFlight
<1>8. ASSUME NEW c \in Callers, Recheck(c) PROVE TypeOK'
  BY <1>8 DEF Recheck, Return
<1>9. ASSUME NEW c \in Callers, SetEmpty(c) PROVE TypeOK'
  BY <1>9 DEF SetEmpty, Return
<1>10. ASSUME NEW k \in KeyIDs, Expire(k) PROVE TypeOK'
  BY <1>10 DEF Expire
<1>11. CASE Rotate
  BY <1>11 DEF Rotate
<1>12. CASE UNCHANGED vars
  BY <1>12 DEF vars
<1>13. QED
  BY <1>1, <1>2, <1>3, <1>4, <1>5, <1>6, <1>7, <1>8, <1>9, <1>10,
     <1>11, <1>12 DEF Next, Step

(* Type correctness of every reachable state.                              *)
LEMMA TypeCorrect == Spec => []TypeOK
<1>1. Init => TypeOK
  BY KeySetsAssumption DEF Init, TypeOK, Entry, PC, Outcome
<1>2. QED
  BY <1>1, TypeStep, PTL DEF Spec

-----------------------------------------------------------------------------
(* IInv is an inductive invariant of the key retriever.                    *)
LEMMA IInvInit == Init => IInv
  BY KeySetsAssumption
  DEF Init, IInv, TypeOK, Entry, PC, Outcome, NegativeCacheSound,
      InvalidVerdictSound, ServedKeysCached, ReleasedAfterFetch,
      SetEmptyJustified, StoredSoFar

LEMMA IInvStep == IInv /\ [Next]_vars => IInv'
<1> SUFFICES ASSUME IInv, [Next]_vars PROVE IInv'
  OBVIOUS
<1> USE KeySetsAssumption DEF IInv, TypeOK, Entry, PC, Outcome,
        NegativeCacheSound, InvalidVerdictSound, ServedKeysCached,
        ReleasedAfterFetch, SetEmptyJustified, StoredSoFar, Justified
<1>1. ASSUME NEW c \in Callers, NEW k \in KeyIDs, Get(c, k) PROVE IInv'
  BY <1>1 DEF Get, Return
<1>2. ASSUME NEW c \in Callers, StartFlight(c) PROVE IInv'
  BY <1>2 DEF StartFlight
<1>3. ASSUME NEW c \in Callers, JoinFlight(c) PROVE IInv'
  BY <1>3 DEF JoinFlight
<1>4. ASSUME NEW c \in Callers, FetchOk(c) PROVE IInv'
  BY <1>4 DEF FetchOk
<1>5. ASSUME NEW c \in Callers, FetchFail(c) PROVE IInv'
  BY <1>5 DEF FetchFail, Waiters
<1>6. ASSUME NEW c \in Callers, StoreKey(c) PROVE IInv'
  BY <1>6 DEF StoreKey
<1>7. ASSUME NEW c \in Callers, FinishFlight(c) PROVE IInv'
  \* The completed fetch joins served: all its keys were written (pending
  \* is empty), so each is cached or already justified by an older fetch.
  <2>1. ServedKeysCached'
    BY <1>7 DEF FinishFlight
  \* The released callers see a non-empty served.
  <2>2. ReleasedAfterFetch'
    BY <1>7 DEF FinishFlight, Waiters
  <2>3. QED
    BY <1>7, <2>1, <2>2 DEF FinishFlight, Waiters
<1>8. ASSUME NEW c \in Callers, Recheck(c) PROVE IInv'
  \* An id absent at the re-check is justified: had every completed fetch
  \* returned it, ServedKeysCached would have it cached, and served is
  \* not empty after the flight.
  <2>1. CASE cache[key[c]] = "absent"
    <3>1. Justified(key[c])
      BY <2>1, <1>8 DEF Recheck
    <3>2. QED
      BY <1>8, <2>1, <3>1 DEF Recheck, Return
  <2>2. CASE cache[key[c]] # "absent"
    BY <1>8, <2>2 DEF Recheck, Return
  <2>3. QED
    BY <2>1, <2>2
<1>9. ASSUME NEW c \in Callers, SetEmpty(c) PROVE IInv'
  BY <1>9 DEF SetEmpty, Return
<1>10. ASSUME NEW k \in KeyIDs, Expire(k) PROVE IInv'
  BY <1>10 DEF Expire
<1>11. CASE Rotate
  BY <1>11 DEF Rotate
<1>12. CASE UNCHANGED vars
  BY <1>12 DEF vars
<1>13. QED
  BY <1>1, <1>2, <1>3, <1>4, <1>5, <1>6, <1>7, <1>8, <1>9, <1>10,
     <1>11, <1>12 DEF Next, Step

-----------------------------------------------------------------------------
(* EInv: keys in the cache or handed to a caller came from the endpoint.   *)
LEMMA EInvInit == Init => EInv
  BY DEF Init, EInv, OneLeader, FlightResult, CachedFromEndpoint,
         KeyFromEndpoint

(* No step forgets a key the endpoint returned.                            *)
LEMMA EndpointMonotone ==
    TypeOK /\ EInv /\ [Next]_vars => KeysFromEndpoint \subseteq KeysFromEndpoint'
<1> SUFFICES ASSUME TypeOK, EInv, [Next]_vars
             PROVE KeysFromEndpoint \subseteq KeysFromEndpoint'
  OBVIOUS
<1> USE DEF KeysFromEndpoint
\* A fetch only starts from an empty result: the one leader is not storing.
<1>1. ASSUME NEW c \in Callers, FetchOk(c) PROVE fetched = {}
  BY <1>1 DEF FetchOk, EInv, OneLeader, FlightResult, TypeOK, PC
<1>2. ASSUME NEW c \in Callers, FinishFlight(c)
      PROVE KeysFromEndpoint \subseteq KeysFromEndpoint'
  BY <1>2 DEF FinishFlight
<1>3. QED
  BY <1>1, <1>2 DEF Next, Step, Get, StartFlight, JoinFlight, FetchOk,
     FetchFail, StoreKey, FinishFlight, Recheck, SetEmpty, Expire, Rotate,
     Return, vars

LEMMA EInvStep == TypeOK /\ EInv /\ [Next]_vars => EInv'
<1> SUFFICES ASSUME TypeOK, EInv, [Next]_vars PROVE EInv'
  OBVIOUS
<1>0. KeysFromEndpoint \subseteq KeysFromEndpoint'
  BY EndpointMonotone
<1> USE DEF EInv, TypeOK, Entry, PC, Outcome
<1>1. ASSUME NEW c \in Callers, NEW k \in KeyIDs, Get(c, k) PROVE EInv'
  BY <1>0, <1>1 DEF Get, Return, OneLeader, FlightResult,
     CachedFromEndpoint, KeyFromEndpoint
<1>2. ASSUME NEW c \in Callers, StartFlight(c) PROVE EInv'
  BY <1>0, <1>2 DEF StartFlight, Leaders, OneLeader, FlightResult,
     CachedFromEndpoint, KeyFromEndpoint
<1>3. ASSUME NEW c \in Callers, JoinFlight(c) PROVE EInv'
  BY <1>0, <1>3 DEF JoinFlight, OneLeader, FlightResult, CachedFromEndpoint,
     KeyFromEndpoint
<1>4. ASSUME NEW c \in Callers, FetchOk(c) PROVE EInv'
  \* fetched was empty, so nothing was in it that the new result drops.
  <2>1. fetched = {}
    BY <1>4 DEF FetchOk, OneLeader, FlightResult
  <2>2. QED
    BY <1>0, <1>4, <2>1 DEF FetchOk, OneLeader, FlightResult,
       CachedFromEndpoint, KeyFromEndpoint, KeysFromEndpoint
<1>5. ASSUME NEW c \in Callers, FetchFail(c) PROVE EInv'
  \* The failing leader was the only one and held no result.
  <2>1. fetched = {}
    BY <1>5 DEF FetchFail, OneLeader, FlightResult
  <2>2. QED
    BY <1>0, <1>5, <2>1 DEF FetchFail, Waiters, OneLeader, FlightResult,
       CachedFromEndpoint, KeyFromEndpoint
<1>6. ASSUME NEW c \in Callers, StoreKey(c) PROVE EInv'
  BY <1>0, <1>6 DEF StoreKey, OneLeader, FlightResult, CachedFromEndpoint,
     KeyFromEndpoint, KeysFromEndpoint
<1>7. ASSUME NEW c \in Callers, FinishFlight(c) PROVE EInv'
  BY <1>0, <1>7 DEF FinishFlight, Waiters, OneLeader, FlightResult,
     CachedFromEndpoint, KeyFromEndpoint
<1>8. ASSUME NEW c \in Callers, Recheck(c) PROVE EInv'
  BY <1>0, <1>8 DEF Recheck, Return, OneLeader, FlightResult,
     CachedFromEndpoint, KeyFromEndpoint
<1>9. ASSUME NEW c \in Callers, SetEmpty(c) PROVE EInv'
  BY <1>0, <1>9 DEF SetEmpty, Return, OneLeader, FlightResult,
     CachedFromEndpoint, KeyFromEndpoint
<1>10. ASSUME NEW k \in KeyIDs, Expire(k) PROVE EInv'
  BY <1>0, <1>10 DEF Expire, OneLeader, FlightResult, CachedFromEndpoint,
     KeyFromEndpoint
<1>11. CASE Rotate
  BY <1>0, <1>11 DEF Rotate, OneLeader, FlightResult, CachedFromEndpoint,
     KeyFromEndpoint
<1>12. CASE UNCHANGED vars
  BY <1>12 DEF vars, OneLeader, FlightResult, CachedFromEndpoint,
     KeyFromEndpoint, KeysFromEndpoint
<1>13. QED
  BY <1>1, <1>2, <1>3, <1>4, <1>5, <1>6, <1>7, <1>8, <1>9, <1>10,
     <1>11, <1>12 DEF Next, Step

-----------------------------------------------------------------------------
(* For every set of callers, key ids and served key sets: a key id is in   *)
(* the negative cache, or Get reports it invalid, only if a completed JWKS *)
(* fetch lacked it (fetch failures never poison the negative cache), and a *)
(* key id every completed fetch returned stays cached as a key (jwks.go    *)
(* Get, setCachedItem, setEmptyCacheItem).                                 *)
THEOREM KeyCacheSafety ==
    Spec => [](NegativeCacheSound /\ InvalidVerdictSound /\ ServedKeysCached)
<1>1. IInv => NegativeCacheSound /\ InvalidVerdictSound /\ ServedKeysCached
  BY DEF IInv
<1>2. QED
  BY <1>1, IInvInit, IInvStep, PTL DEF Spec

(* Get's ErrInvalidSigningKey verdicts are sound in every reachable state: *)
(* neither a failed fetch nor a waiter released early makes a served key   *)
(* look invalid (jwks.go Get).                                             *)
THEOREM InvalidVerdictTheorem == Spec => []InvalidVerdictSound
  BY KeyCacheSafety, PTL

(* A key id every completed fetch returned stays cached as a key in every  *)
(* reachable state: keys are stored before waiters are released and never *)
(* expire or get overwritten (jwks.go Get, setCachedItem).                 *)
THEOREM ServedKeysTheorem == Spec => []ServedKeysCached
  BY KeyCacheSafety, PTL

-----------------------------------------------------------------------------
(***************************************************************************)
(* Refinement: KeyRetriever implements KeyProvider under the mapping of    *)
(* KeyRetriever.  The invariants IInv and EInv supply what the abstract    *)
(* Reply and Lookup demand of an outcome: a cached or returned key is in   *)
(* an answer of the endpoint, a placeholder or invalid verdict is          *)
(* justified by a completed fetch, and at most one flight exists.          *)
(***************************************************************************)
\* The abstract view of pc: inside Get or not.
Busy == [c \in Callers |-> IF pc[c] = "idle" THEN "idle" ELSE "busy"]
\* Some caller is storing a fetched key set.
Storing == \E c \in Callers : pc[c] = "store"

(* What the endpoint returned is among the abstract answers, and a         *)
(* justified id is lacking from one of them.                               *)
LEMMA AnswersCover ==
    ASSUME TypeOK, EInv
    PROVE  /\ KeysFromEndpoint \subseteq UNION Answers
           /\ \A k \in KeyIDs : Justified(k) => \E S \in Answers : k \notin S
<1>1. fetched # {} => fetched \in Answers
  BY DEF EInv, FlightResult, Answers
<1>2. served \subseteq Answers
  BY DEF Answers
<1>3. QED
  BY <1>1, <1>2 DEF KeysFromEndpoint, Justified

LEMMA RefInit == Init => KP!KInit
  BY DEF Init, KP!KInit, Answers

(* A step that moves no caller into or out of "store", and changes        *)
(* neither served nor fetched, leaves the answers alone.                   *)
LEMMA AnswersSame ==
    (\A d \in Callers : pc'[d] = "store" <=> pc[d] = "store")
    /\ UNCHANGED <<served, fetched>> => Answers' = Answers
  BY DEF Answers

(* A Get that starts is a Lookup answered from the cache, or a Call.       *)
LEMMA RefGet ==
    ASSUME TypeOK, IInv, EInv,
           NEW c \in Callers, NEW k \in KeyIDs, Get(c, k)
    PROVE  KP!Lookup(c, k) \/ KP!Call(c, k)
<1>0. /\ KeysFromEndpoint \subseteq UNION Answers
      /\ \A j \in KeyIDs : Justified(j) => \E S \in Answers : j \notin S
  BY AnswersCover
<1>1. pc[c] = "idle" /\ pc' \in [Callers -> PC]
  BY TypeStep DEF Get, TypeOK, Next
<1>2. Answers' = Answers
  BY <1>1, AnswersSame DEF Get, Return, TypeOK
<1>3. CASE cache[k] = "valid" /\ Return(c, "key")
  <2>1. "key" \in KP!Allowed(k) \ {"fetchErr"}
    BY <1>0, <1>3 DEF CachedFromEndpoint, EInv, KP!Allowed
  <2>2. QED
    BY <1>1, <1>2, <1>3, <2>1 DEF Get, Return, KP!Lookup, TypeOK
<1>4. CASE cache[k] = "invalid" /\ Return(c, "invalid")
  <2>1. "invalid" \in KP!Allowed(k) \ {"fetchErr"}
    BY <1>0, <1>4 DEF NegativeCacheSound, IInv, KP!Allowed
  <2>2. QED
    BY <1>1, <1>2, <1>4, <2>1 DEF Get, Return, KP!Lookup, TypeOK
<1>5. CASE /\ cache[k] = "absent"
           /\ pc' = [pc EXCEPT ![c] = "do"]
           /\ ret' = [ret EXCEPT ![c] = "none"]
  BY <1>1, <1>2, <1>5 DEF Get, KP!Call, TypeOK
<1>6. QED
  BY <1>3, <1>4, <1>5 DEF Get

\* The key provider's steps other than a starting Get.
KPMove ==
    \/ KP!Answer
    \/ \E F \in SUBSET Callers, o \in {"key", "invalid", "fetchErr"} : KP!Reply(F, o)

(* A step of a caller inside Get is an answer of the endpoint, a reply to  *)
(* some waiting Gets, or invisible.                                        *)
LEMMA RefInner ==
    ASSUME TypeOK, IInv, EInv, NEW c \in Callers, Step(c)
    PROVE  [KPMove]_KP!kvars
<1>0. /\ KeysFromEndpoint \subseteq UNION Answers
      /\ \A j \in KeyIDs : Justified(j) => \E S \in Answers : j \notin S
  BY AnswersCover
<1>p. pc' \in [Callers -> PC]
  BY TypeStep DEF TypeOK, Next
<1>2. CASE StartFlight(c) \/ JoinFlight(c)
  <2>1. Answers' = Answers
    BY <1>2, <1>p, AnswersSame DEF StartFlight, JoinFlight, TypeOK
  <2>2. QED
    BY <1>2, <2>1 DEF StartFlight, JoinFlight, TypeOK, KP!kvars
<1>3. CASE FetchOk(c)
  <2>1. ~Storing /\ Storing'
    BY <1>3 DEF FetchOk, EInv, OneLeader, Storing, TypeOK
  <2>2. Answers = served /\ Answers' = served \cup {upstream}
    BY <1>3, <2>1 DEF FetchOk, Storing, Answers
  <2>3. KP!Answer
    BY <1>3, <2>2 DEF FetchOk, KP!Answer, TypeOK
  <2>4. QED
    BY <2>3 DEF KPMove
<1>4. CASE FetchFail(c)
  <2>1. ~Storing /\ ~Storing'
    BY <1>4 DEF FetchFail, EInv, OneLeader, Storing, Waiters, TypeOK
  <2>2. Answers' = Answers
    BY <1>4, <2>1 DEF FetchFail, Storing, Answers
  <2>3. \A d \in Waiters \cup {c} : pc[d] # "idle" /\ "fetchErr" \in KP!Allowed(key[d])
    BY <1>4 DEF FetchFail, Waiters, KP!Allowed
  <2>4. Busy' = [d \in Callers |-> IF d \in Waiters \cup {c} THEN "idle" ELSE Busy[d]]
    BY <1>4 DEF FetchFail, Busy
  <2>5. ret' = [d \in Callers |-> IF d \in Waiters \cup {c} THEN "fetchErr" ELSE ret[d]]
    BY <1>4 DEF FetchFail
  <2>6. \A d \in Waiters \cup {c} : Busy[d] = "busy"
    BY <2>3, Zenon DEF Busy, Waiters
  <2>7. KP!Reply(Waiters \cup {c}, "fetchErr")
    BY <1>4, <2>2, <2>3, <2>4, <2>5, <2>6 DEF FetchFail, KP!Reply, Busy
  <2>8. Waiters \cup {c} \in SUBSET Callers
    BY DEF Waiters
  <2>9. QED
    BY <2>7, <2>8 DEF KPMove
<1>5. CASE StoreKey(c)
  BY <1>5 DEF StoreKey, Answers, KP!kvars
<1>6. CASE FinishFlight(c)
  <2>1. Storing /\ ~Storing'
    BY <1>6 DEF FinishFlight, EInv, OneLeader, Storing, Waiters, TypeOK
  <2>2. Answers' = Answers
    BY <1>6, <2>1 DEF FinishFlight, Storing, Answers
  <2>3. QED
    BY <1>6, <2>2 DEF FinishFlight, Waiters, TypeOK, KP!kvars
<1>7. CASE Recheck(c)
  <2>0. pc[c] = "recheck"
    BY <1>7 DEF Recheck
  <2>1. Answers' = Answers
    BY <1>7, <1>p, <2>0, AnswersSame DEF Recheck, Return, TypeOK
  <2>2. CASE cache[key[c]] = "valid" /\ Return(c, "key")
    <3>1. "key" \in KP!Allowed(key[c])
      BY <1>0, <2>2 DEF CachedFromEndpoint, EInv, KP!Allowed, TypeOK
    <3>2. KP!Reply({c}, "key")
      BY <1>7, <2>0, <2>1, <2>2, <3>1 DEF Recheck, Return, KP!Reply, TypeOK
    <3>3. QED
      BY <3>2 DEF KPMove
  <2>3. CASE cache[key[c]] = "invalid" /\ Return(c, "invalid")
    <3>1. "invalid" \in KP!Allowed(key[c])
      BY <1>0, <2>3 DEF NegativeCacheSound, IInv, KP!Allowed, TypeOK
    <3>2. KP!Reply({c}, "invalid")
      BY <1>7, <2>0, <2>1, <2>3, <3>1 DEF Recheck, Return, KP!Reply, TypeOK
    <3>3. QED
      BY <3>2 DEF KPMove
  <2>4. CASE cache[key[c]] = "absent" /\ pc' = [pc EXCEPT ![c] = "setEmpty"]
                                      /\ ret' = ret
    BY <1>7, <2>0, <2>1, <2>4 DEF Recheck, TypeOK, KP!kvars
  <2>5. QED
    BY <1>7, <2>2, <2>3, <2>4 DEF Recheck
<1>8. CASE SetEmpty(c)
  <2>0. pc[c] = "setEmpty"
    BY <1>8 DEF SetEmpty
  <2>1. Answers' = Answers
    BY <1>8, <1>p, <2>0, AnswersSame DEF SetEmpty, Return, TypeOK
  <2>2. "invalid" \in KP!Allowed(key[c])
    BY <1>0, <2>0 DEF SetEmptyJustified, IInv, KP!Allowed, TypeOK
  <2>3. KP!Reply({c}, "invalid")
    BY <1>8, <2>0, <2>1, <2>2 DEF SetEmpty, Return, KP!Reply, TypeOK
  <2>4. QED
    BY <2>3 DEF KPMove
<1>9. QED
  BY <1>2, <1>3, <1>4, <1>5, <1>6, <1>7, <1>8 DEF Step

LEMMA RefStep ==
    TypeOK /\ IInv /\ EInv /\ [Next]_vars => [KP!KNext]_KP!kvars
<1> SUFFICES ASSUME TypeOK, IInv, EInv, [Next]_vars
             PROVE  [KP!KNext]_KP!kvars
  OBVIOUS
<1>1. ASSUME NEW c \in Callers, NEW k \in KeyIDs, Get(c, k) PROVE KP!KNext
  BY <1>1, RefGet DEF KP!KNext
<1>2. ASSUME NEW c \in Callers, Step(c) PROVE [KP!KNext]_KP!kvars
  BY <1>2, RefInner DEF KPMove, KP!KNext
<1>3. ASSUME NEW k \in KeyIDs, Expire(k) PROVE UNCHANGED KP!kvars
  BY <1>3 DEF Expire, Answers, KP!kvars
<1>4. CASE Rotate
  <2>1. KP!RotateKeys
    BY <1>4 DEF Rotate, KP!RotateKeys, Answers
  <2>2. QED
    BY <2>1 DEF KP!KNext
<1>5. CASE UNCHANGED vars
  BY <1>5 DEF vars, Answers, KP!kvars
<1>6. QED
  BY <1>1, <1>2, <1>3, <1>4, <1>5 DEF Next

(* For every set of callers, key ids and served key sets: every behaviour *)
(* of DefaultKeyRetriever.Get, with its cache, singleflight flight and    *)
(* negative cache, is a behaviour of the key provider's contract: each    *)
(* answer is a key some fetch returned, ErrInvalidSigningKey for an id    *)
(* some completed fetch lacked, or the fetch error (jwks.go Get).         *)
THEOREM KeyRetrieverRefinement == Spec => RefinesKeyProvider
<1>1. Spec => [](TypeOK /\ IInv /\ EInv)
  <2>1. Init => TypeOK /\ IInv /\ EInv
    BY IInvInit, EInvInit DEF IInv
  <2>2. TypeOK /\ IInv /\ EInv /\ [Next]_vars => (TypeOK /\ IInv /\ EInv)'
    BY IInvStep, EInvStep DEF IInv
  <2>3. QED
    BY <2>1, <2>2, PTL DEF Spec
<1>2. QED
  BY <1>1, RefInit, RefStep, PTL DEF Spec, RefinesKeyProvider, KP!KSafety

=============================================================================
