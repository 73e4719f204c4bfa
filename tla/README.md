# TLA+ models of authlib

This directory holds TLA+ models of the two engines of the library:

- **Token Verification Engine**: `src/authn/jwks.go` and `src/authn/verifier.go`.
- **Permission Decision Engine**: `LegacyClientImpl` in `src/pkg/ac/client/client_test.go`, from line 106 on.

For each engine there are TLC configurations that model-check small instances, and TLAPS proofs, for every instance, of their main safety properties, of the decision policy, and of the refinements of the key retriever, the verifier and the authz check to their contracts.

## The system and how its parts interact

| Part (spec.md 2) | Source | State | Operations |
|---|---|---|---|
| Cache Abstraction | `cache` package (not in `src/`) | key → bytes with a TTL | Get, Set, expiry |
| Key Provider | `jwks.go` | local cache: key id → JSON key or empty placeholder; singleflight group | `Get`, `fetchJWKS`, `getCachedItem`, `setCachedItem`, `setEmptyCacheItem` |
| Token Verifier | `verifier.go` | none of its own; uses the Key Provider | `Verify`, `validType`, `getKeyID`, `mapErr` |
| Permission Cache Codec | `client_test.go` 530-567 | entries in the pluggable cache | `controllerCacheKey`, `cacheController`, `getCachedController` |
| Permission Decision Engine | `client_test.go` 285-524 | the cache, plus one watcher goroutine per Read | `Validate`, `Check`, `validateNamespace`, `retrievePermissions`, `newOutgoingContext`, `newController`, `controller.Check` |

Every request runs in its own goroutine. The two engines share nothing but the cache type.

**Key Provider.** Concurrent `Get` calls on one `DefaultKeyRetriever` share two things:

- the local cache, which is locked, so each Get or Set is atomic;
- the singleflight group, whose bookkeeping runs under its mutex.

The fetch, each cache write of a fetched key, the re-check and the placeholder write are separate steps. Other callers interleave between them.

**Permission Decision Engine.** Concurrent `Check` calls share the permission cache and the remote authz service. `retrievePermissions` works in three steps:

1. a cache Get;
2. a Read on a context derived by `newOutgoingContext`;
3. a cache Set.

The cache may fail. Entries expire, and permissions change upstream at any time.

## Modules

| Module | Models | State ↔ code |
|---|---|---|
| `KeyRetriever` | `DefaultKeyRetriever.Get` and its helpers | see below |
| `Verifier` | `VerifierBase.Verify` over `KeyRetriever` | see below |
| `AuthzPolicy` | the pure decision of `Check`, `newController`, `controller.Check`, `controllerCacheKey` | operators, no variables |
| `AuthzCheck` | `Check` run concurrently, with `retrievePermissions`, the permission cache and the `newOutgoingContext` watcher | see below |
| `KeyProvider` | the abstract contract of `Get` (spec.md 4.2) | see below |
| `AuthzContract` | the abstract contract of `Check` (spec.md 4.3, 8) | see below |
| `VerifierContract` | the abstract contract of `Verify` over `KeyProvider` (spec.md 4.1, 4.2) | see below |
| `KeyRetriever_proofs` | TLAPS proofs about `KeyRetriever`, and its refinement of `KeyProvider` | — |
| `Verifier_proofs` | TLAPS proofs about `Verifier`, and its refinement of `VerifierContract` | — |
| `AuthzCheck_proofs` | TLAPS proofs about `AuthzCheck`, and its refinement of `AuthzContract` | — |
| `AuthzPolicy_proofs` | TLAPS proofs about `AuthzPolicy` | — |
| `MC_*` | TLC instances | — |

**KeyRetriever.** The variables correspond to the code as follows:

- `cache[k]` is absent, `"invalid"` (the empty placeholder) or `"valid"` (a stored key).
- `pc[c]` is the caller's place in `Get`:
  - `idle`;
  - `do`, a miss about to call `s.s.Do`;
  - `fetch` and `store`, the singleflight leader running `fetchJWKS` and the `setCachedItem` loop;
  - `wait`, blocked in `Do`;
  - `recheck`, the second `getCachedItem`;
  - `setEmpty`.
- `upstream` is the key set the endpoint serves.
- `fetched` and `pending` are the current flight's key set and the part of it not yet written.
- `served` is a history of completed fetches.

The actions are `Get`, `StartFlight`, `JoinFlight`, `FetchOk`, `FetchFail`, `StoreKey`, `FinishFlight`, `Recheck` and `SetEmpty`. `FinishFlight` releases every waiter, as singleflight does. There are two environment actions:

- `Expire` drops only placeholders, because keys are stored with `NoExpiration`.
- `Rotate` changes the endpoint's key set.

**KeyProvider.** This is what `Get` promises, with no cache, no singleflight and no placeholders. `Get(k)` may answer in three ways:

- a key, only if some answer of the endpoint contained `k`;
- `ErrInvalidSigningKey`, only if some answer lacked `k`;
- a fetch error.

`Lookup` answers at once from what is known. `Call` starts waiting, `Answer` records the endpoint's reply to a fetch, and `Reply` answers a set of waiting Gets in one step. The contract is a safety specification only. It promises no answer, because the code does not bound how long a fetch takes (see **Fairness**). The runs check it as the property `RefinesKeyProvider`.

`KeyRetriever` instantiates it as `KP` with this refinement mapping:

- a caller anywhere inside `Get` is `busy`;
- `answers` is `served` plus the key set the leader is storing (`Answers`).

The mapped steps are as follows:

- `FetchOk` is `Answer`.
- `FetchFail` is one `Reply` of the fetch error to the leader and every waiter.
- A cache hit is `Lookup`, and `Recheck` and `SetEmpty` are `Reply`.
- The other steps are stutters.

**Verifier.** Per caller, `vpc`, `tok` and `vret` are added to KeyRetriever's variables.

- `BeginVerify` does the checks before `keys.Get`: parse, `validType` and `getKeyID`. If they pass, it starts `Get` on the key id.
- `KeysStep` is a step of that `Get`.
- `EndVerify` maps `Get`'s outcome to Verify's result. On a key it runs `parsed.Claims` and then `claims.Validate` (`ValidateClaims`, which returns go-jose's error). That error goes through `mapErr` (`CheckClaims`).

A token is a record of what the checks read:

- whether it parses;
- its headers' `typ` (absent, one of the two types, or a non-string JSON value);
- its headers' `kid`;
- the key that signed it (`Forged`: one the endpoint never had);
- whether its audience passes, and whether the present is before its `nbf` (`notYet`), after its `exp` (`expired`) or before its `iat` (`future`).

The model relies on three facts about go-jose v3:

- `typ` is an extra header of any JSON type.
- A token with several signatures never verifies with one key.
- `Validate` with `Time` set checks the audience, then `nbf`, `exp` and `iat`, in that order. It returns `ErrNotValidYet` and `ErrIssuedInTheFuture` for the first and last, and `mapErr` passes those through unchanged.

**VerifierContract.** This is `Verify` over the key provider's contract instead of the retriever. It has `KeyProvider`'s variables and `Verify`'s own (`vpc`, `tok`, `vret`). A Verify either fails at once through its own pre-checks, or asks the provider for the token's key id (`Lookup` or `Call`). The pre-checks are `validType` and `getKeyID`, which the contract takes as parameters. Once the provider has answered, the Verify returns:

- the fetch error or `ErrInvalidSigningKey`, as the provider answered them;
- claims exactly when the provider returned the key and the token is `ValidFor` it: a single signature made with that key, an accepted audience, and `nbf`, `exp` and `iat` all satisfied;
- otherwise an error that names a check the token fails (`ClaimErrors`), whichever such check comes first.

`Verifier` maps the retriever onto the provider as `KeyRetriever` does, and `Verify`'s own variables map to themselves.

**AuthzPolicy.** The model is exact at the level of the decision. Subjects and actions are sequences of symbols, because `controllerCacheKey` joins them with `-` and its collisions matter. A stack id is one symbol, since its decimal digits contain no `-`.

`Resource.Scope`, `splitScope` and `claims.NamespaceMatches` live outside `src/`. They are modelled from spec.md 3 and 4.3: a scope is `(kind, id)`, `*` is the wildcard id, and a claims namespace is the stack it was issued for.

**AuthzCheck.** These are the variables:

- `cache` is a partial function from cache key to an entry. An entry is the triple the controller was read for (a history tag) and the controller.
- `upstream` is the service's answer per triple.
- `pc[c]` is `idle`, `cache`, `read` or `set`.
- `req`, `ctrl`, `src` and `ret` are the caller's request, its controller, the triple that controller was read for, and Check's result.
- `ctxBg`, `ctxDone` and `watcher` model the caller's context (never canceled, done) and the `newOutgoingContext` goroutine.

These are the actions:

- `Start` runs Check up to `retrievePermissions`.
- `CacheGet`, `Read` and `CacheSet` are the three steps of `retrievePermissions`, each with its error branch.
- `CancelCtx`, `WatcherExit`, `Expire` and `ChangeGrant` are the environment and the watcher goroutine.

AuthzCheck caches the abstract controller itself. The gob encoding in `cacheController` and the decoding in `getCachedController` are library code and are not modelled. A decode error is one of the cache faults.

**AuthzContract.** This is what `Check` promises, with no cache layout, no watcher and no codec. A call whose request needs no Read is answered at once with the early decision. Any other call returns one of three results: `ErrReadPermission`; a cache error, if the cache can fail; or Check's verdict on the controller of a Read response that the service gave for the request's own triple and that is still remembered (`aknown`). The service answers with what it grants now (`AServe`), and grants change (`AChange`). What is remembered may be forgotten (`AForget`, or on a reply), and it may be stale. The contract takes the policy operators (`Triple`, `PreCheck`, `PostCheck`, `NewController`) as constant parameters, and `AuthzCheck` supplies its own.

`AuthzCheck` maps onto it as follows:

- a caller is busy when its `pc` is not `idle`;
- `req`, `ret` and `upstream` map to themselves;
- `aknown` is `Known`: the pairs of the cache entries, and the `(src, ctrl)` of callers about to write the cache.

`Read` may succeed even when the caller's context is already done. The watcher cancels `outCtx` from its own goroutine, so the cancellation can arrive after the RPC has finished.

## Runs

| Run | Config | Expect | Shows |
|---|---|---|---|
| kr_safety | `MC_KeyRetriever.cfg` | pass | 3 callers, 2 key ids, a rotation that adds a key. `NegativeCacheSound`, `InvalidVerdictSound`, `ServedKeysCached` hold, and the retriever implements `KeyProvider` (`RefinesKeyProvider`) (66,788 states). |
| kr_redundant_fetch | `MC_KeyRetriever_fetch.cfg` | violation | `FetchOnlyOnMiss`: a second JWKS fetch for a cached key (spec.md 4.2/8 say one). |
| kr_rotation_race | `MC_KeyRetriever_race.cfg` | violation | `ValidKeyNeverInvalidated`: a stale re-check's placeholder overwrites a freshly cached key. |
| verifier_accept | `MC_Verifier.cfg` | pass | 2 verifying callers, 12 kinds of token, including one before its `nbf` and one issued in the future. Only tokens signed by an endpoint-served key, with a good audience and a `nbf`/`exp`/`iat` window that holds, are accepted. Verify implements `VerifierContract` (`RefinesVerifierContract`) (91,514 states). |
| verifier_typ | `MC_Verifier_typ.cfg` | violation | `TypHeaderEnforced`: a non-string `typ` header passes `validType`. |
| verifier_expired | `MC_Verifier_expired.cfg` | violation | `ExpiredReportedAsExpired`: an expired token with a bad signature or audience is not reported as expired. |
| policy_token_auth | `MC_AuthzPolicy.cfg` | pass | Every request over 3 stacks, 2 kinds, 2 ids, all claim shapes, ≤2 granted objects: Check's decision = spec policy (`MC_DecisionMatchesSpec`). (627,750 inputs). |
| policy_no_token_auth | `MC_AuthzPolicy_noauth.cfg` | pass | The same, with access-token checking disabled. |
| authz_cache | `MC_AuthzCheck.cfg` | pass | 2 concurrent Checks, 3 user requests, cache faults, Read failures, expiry, grant changes. `AllowOnlyIfGranted` holds, and Check implements `AuthzContract` (`RefinesAuthzContract`) (696,968 states up to caller symmetry). |
| authz_key_collision | `MC_AuthzCheck_collision.cfg` | violation | `AllowOnlyIfGranted`: users `u-r`/`r` and `u`/`r-r` share a cache key. |
| authz_read_stampede | `MC_AuthzCheck_herd.cfg` | violation | `OneReadPerWindow`: two concurrent Checks with identical inputs both miss the cache and both Read (spec.md 8 says one Read per TTL window; spec.md 1 promises stampede prevention). |
| authz_watcher_leak | `MC_AuthzCheck_leak.cfg` | violation | `WatcherTerminates`: the watcher of a never-canceled context runs forever. |

Each property of a passing run has a mutant in `PROJECT.json`. A mutant is a plausible bug in the mapped code, such as:

- a fetch error ignored or reported as an invalid key;
- keys stored with a TTL;
- the signature not checked;
- the identity namespace not checked;
- the action dropped from the cache key;
- `Get`'s `jwk == nil` check dropped, which turns a placeholder hit into a nil key and no error;
- a cache hit decided on the zero controller instead of the decoded one;
- a token with several signatures accepted when one of them is good.

TLC finds each one.

**Bounds.**

- *Key Provider.* Three callers are needed for a leader, a waiter and a late caller. Two key ids and two key sets are enough for a key to appear at the endpoint, which is the rotation case of the race.
- *Policy runs.* They enumerate every request shape the code branches on: non-positive stack, empty action, missing or foreign-namespace claims, empty subject, service permissions, delegated permissions, resource and contextual resource. They also enumerate every Read response with at most two objects over two kinds and two ids, wildcards included.
- *AuthzCheck.* It uses two callers and three triples, two of which differ only in an action containing `-`. That is the smallest instance in which a correct cache key and a colliding one differ.
  The run declares the two callers symmetric (`MC_Symmetry`). Callers are interchangeable in the code, and the configuration checks only safety properties, so the reduction is sound.
  Each request's delegated set is built inside its own record, not shared between records. This keeps TLC's workers from normalising one shared set value concurrently, which had made the state counts vary between runs.

**Fairness.** The key retriever and the verifier assume no fairness, and no liveness property is claimed for them. `fetchJWKS` uses `http.DefaultClient`, which has no timeout, and spec.md 7 says no timeouts are imposed beyond the caller's context. `singleflight`'s `Do` also ignores a waiter's ctx. So a hung JWKS endpoint blocks the leader and every waiter on the same key id, and nothing in the code makes a Get return. What the model does show is safety: when a flight ends, `FinishFlight` or `FetchFail` releases all its waiters in the same step.

WatcherTerminates assumes three things:

- the caller's steps are fair;
- the watcher's `select` runs once a context is done;
- a request-scoped context is eventually canceled after Check returns.

The leak needs none of these. It appears exactly for a context that is never canceled, which the code's contract allows.

## Proofs

`KeyRetriever_proofs` proves the following with TLAPS, for every set of callers, key ids and key sets allowed by `KeySetsAssumption`:

- `TypeCorrect`: `Spec => []TypeOK`.
- `KeyCacheSafety`: `Spec => [](NegativeCacheSound /\ InvalidVerdictSound /\ ServedKeysCached)`.

The three invariants are not inductive on their own. The inductive invariant `IInv` adds three facts:

- `ReleasedAfterFetch`: a caller at re-check or placeholder write was released by a successful flight, so `served` is non-empty.
- `SetEmptyJustified`: a caller about to write the placeholder found its id absent after such a flight, so some completed fetch lacked it.
- `StoredSoFar`: every key the leader has already written is cached, or justified by an older fetch.

TLC checked `IInv` as an invariant before it was proved.

`IInvInit` and `IInvStep` are proved one action at a time. The argument for the key step, `Recheck`, runs as follows. An id absent at the re-check would be cached if every completed fetch had returned it (`ServedKeysCached`), and `served` is non-empty (`ReleasedAfterFetch`). So some fetch lacked it.

The key-provider invariants say what the cache holds. The Verifier also needs to know where a key handed to a caller came from. A second inductive invariant `EInv` of `KeyRetriever_proofs` adds:

- `OneLeader`: at most one caller runs the flight.
- `FlightResult`: the keys still to write are part of the fetched set, and a fetched set exists only while its leader fetches or stores.
- `CachedFromEndpoint` and `KeyFromEndpoint`: a cached valid key, and a key `Get` returned, are in `KeysFromEndpoint` (the current flight's set and every completed fetch).

`EndpointMonotone` shows that `KeysFromEndpoint` only grows, so a fact about it survives every step.

`Verifier_proofs` proves `VerifierSafety`: `VSpec => []AcceptedTokensValid`, under `KeySetsAssumption` and `VerifierAssumption`. Its steps are these:

- `VNextIsNext`: every Verifier step is a key-retriever step or a stutter of it, so `TypeOK` and `EInv` carry over.
- `VerifyingKey`: a caller inside `keys.Get` asked for `getKeyID` of its token.
- At `EndVerify`, `CheckClaims` returns claims only when the single signer is the key `Get` returned. That key is from the endpoint by `KeyFromEndpoint`.

`getKeyID` is a `CHOOSE` of the smallest header index with a kid. `NatSetHasMin` proves that this index exists with `WellFoundedInduction`'s `WFMin` on `<` over `Nat`. That theorem takes no operator parameter, so the provers can use it.

`AuthzCheck_proofs` proves `AuthzCacheSafety`: `Spec => []AllowOnlyIfGranted` for every instance in which `controllerCacheKey` is injective on the requests' triples (`KeysInjective`). Its inductive invariant `AInv` adds:

- `EntriesTagged`: every cache entry sits under the key of the triple it was read for.
- `InFlight`: a caller inside `retrievePermissions` has a request that reached it.
- `SetReady`: a caller about to write the cache read its controller for its own triple.

On a hit, the entry's tag has the caller's key, so by injectivity it is the caller's triple. The run `authz_key_collision` shows the requests for which that fails.

`KeyRetriever_proofs` also proves `KeyRetrieverRefinement`: `Spec => RefinesKeyProvider`. The proof has two parts:

- `RefInit`: initial states map to initial states.
- `RefStep`: under `TypeOK`, `IInv` and `EInv`, each step maps to a `KeyProvider` step or a stutter.

The invariants supply what an abstract answer needs:

- `CachedFromEndpoint` and `AnswersCover` give, for a returned key, an answer that contained it.
- `NegativeCacheSound` and `SetEmptyJustified` give, for an invalid verdict, an answer that lacked the id.
- `OneLeader` shows that `FetchOk`, `FetchFail` and `FinishFlight` change `Answers` only as `Answer` does, or not at all.

`InvalidVerdictTheorem` and `ServedKeysTheorem` state the other two conjuncts of `KeyCacheSafety` on their own.

`AuthzCheck_proofs` also proves `AuthzCheckRefinement`: `Spec => RefinesAuthzContract`, under `KeysInjective`. `RefInit` maps the initial state to the contract's: `Known` is empty. `RefStep` maps each step under `AInv`:

- `Start` is `ACall`.
- A cache hit is `AReply` with Check's verdict on the entry. By `EntriesTagged` and injectivity, the entry is a remembered pair for the caller's own triple.
- A successful `Read` is `AServe` of the caller's triple, and a failed one is `AReply` with `ErrReadPermission`.
- A successful `CacheSet` is `AReply`: by `SetReady`, the caller's pair is remembered for its own triple. The entry it overwrites and the caller's own pair drop out of `Known` (`Forget`).
- A cache fault is `AReply` with the cache error.
- `Expire` is `AForget` and `ChangeGrant` is `AChange`.
- A cache miss, a context cancellation and the watcher's exit are stutters.

`Verifier_proofs` also proves `VerifierRefinement`: `VSpec => RefinesVerifierContract`, under `KeySetsAssumption` and `VerifierAssumption`. Its invariant is `VInv` together with the retriever's `IInv`. `IInv` carries over because of `VNextIsNext`. `KeyRetriever_proofs` splits its refinement step into lemmas, and this proof reuses them:

- `RefGet`: a `Get` that starts is a `Lookup` or a `Call`.
- `RefInner`: a step of a caller inside `Get` is an `Answer`, a `Reply` or a stutter.

`SameProvider` identifies the key provider reached through `VerifierContract` with the one reached through `KeyRetriever`. In `CRefStep`:

- `BeginVerify` is `VBegin`: either its early failure, or `RefGet` on the token's key id.
- `KeysStep` is `KeysMove` or a stutter, by `RefInner`.
- `EndVerify` is `VEnd`: `CheckClaimsResults` shows that `CheckClaims` returns claims exactly on a token `ValidFor` the key, and otherwise an error in `ClaimErrors`.
- `Expire` is a stutter, and `Rotate` is `RotateKeys`.

`AuthzPolicy_proofs` proves, for every request with an integer stack id and every Read response:

- `DecisionTheorem`: Check's decision is the spec's policy (`DecisionMatchesSpec`). `ControllerGrants` is the lemma it rests on: `controller.Check` on `newController`'s controller grants a set of resources exactly when a grant covers one of them.
- `MCDecisionTheorem`: the same property as the policy runs check it (`MC_DecisionMatchesSpec`).

**Only model-checked.**

- Liveness: `WatcherTerminates`. It needs fairness and `ENABLED`, which TLAPS does not handle.
- The properties of the violation runs, which TLC refutes.

## Not modelled

| What | Why |
|---|---|
| The cache package | It is not in this repository. Its contract is the `cache` variables. |
| `NewLegacyClient` and its options | Configuration and connection wiring only. |
| `client_test.go` 1-105 | A unit test. |
| Tracing and gRPC dial options | No effect on any decision. |
| `NoopVerifier` | No state and no decision. |
| The gob codec of the permission cache | Library code. `AuthzCheck` caches the controller itself and treats a decode error as a cache fault. |
| Time | TTLs are nondeterministic expiry. So no property bounds how stale a cached controller may be (spec.md 4.4 accepts one TTL window), and none measures the placeholder's 10 minutes. |
| Slices | Slice aliasing in `append(req.Contextual, ...)` is below the data abstraction (see the hazards in `PROJECT.json`). |

## Plan for further work

