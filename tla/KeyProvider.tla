----------------------------- MODULE KeyProvider -----------------------------
(***************************************************************************)
(* What a key retriever promises its callers (the contract of              *)
(* KeyRetriever.Get in src/authn/jwks.go, spec.md 4.2), with no cache, no *)
(* singleflight and no placeholders: a Get of key id k returns                *)
(*   - the key, only if some answer of the JWKS endpoint contained k;      *)
(*   - ErrInvalidSigningKey, only if some answer of the endpoint lacked k; *)
(*   - a fetch error, at any time once it has started waiting.             *)
(* A Get either answers at once (from what is already known) or waits;    *)
(* several waiting Gets may be answered in one step.  The endpoint answers *)
(* fetches with the key set it serves, which may rotate.                   *)
(***************************************************************************)
CONSTANTS
    Callers,    \* goroutines calling Get concurrently
    KeyIDs,     \* key ids that tokens may carry
    KeySets     \* the key sets the JWKS endpoint may serve over time

VARIABLES
    kpc,        \* caller -> "idle" | "busy" (waiting in Get)
    kkey,       \* caller -> the key id of its current (or last) Get
    kret,       \* caller -> outcome of its last Get
    endpoint,   \* the key set the endpoint currently serves
    answers     \* the key sets the endpoint has answered fetches with

kvars == <<kpc, kkey, kret, endpoint, answers>>

\* The outcomes a Get of k may have, given what the endpoint answered.
Allowed(k) ==
    {"fetchErr"}
    \cup {o \in {"key"} : k \in UNION answers}
    \cup {o \in {"invalid"} : \E S \in answers : k \notin S}

KInit ==
    /\ kpc = [c \in Callers |-> "idle"]
    /\ kkey \in [Callers -> KeyIDs]
    /\ kret = [c \in Callers |-> "none"]
    /\ endpoint \in KeySets
    /\ answers = {}

(* Get answers at once from what is known: a key or known-invalid.         *)
Lookup(c, k) ==
    /\ kpc[c] = "idle"
    /\ kkey' = [kkey EXCEPT ![c] = k]
    /\ \E o \in Allowed(k) \ {"fetchErr"} : kret' = [kret EXCEPT ![c] = o]
    /\ UNCHANGED <<kpc, endpoint, answers>>

(* Get starts waiting for the endpoint.                                    *)
Call(c, k) ==
    /\ kpc[c] = "idle"
    /\ kpc' = [kpc EXCEPT ![c] = "busy"]
    /\ kkey' = [kkey EXCEPT ![c] = k]
    /\ kret' = [kret EXCEPT ![c] = "none"]
    /\ UNCHANGED <<endpoint, answers>>

(* The endpoint answers a fetch with the key set it serves.                *)
Answer ==
    /\ answers' = answers \cup {endpoint}
    /\ UNCHANGED <<kpc, kkey, kret, endpoint>>

(* The waiting Gets of F return outcome o.                                 *)
Reply(F, o) ==
    /\ F # {}
    /\ \A c \in F : kpc[c] = "busy" /\ o \in Allowed(kkey[c])
    /\ kpc' = [c \in Callers |-> IF c \in F THEN "idle" ELSE kpc[c]]
    /\ kret' = [c \in Callers |-> IF c \in F THEN o ELSE kret[c]]
    /\ UNCHANGED <<kkey, endpoint, answers>>

(* The endpoint starts serving another key set.                            *)
RotateKeys ==
    /\ \E S \in KeySets \ {endpoint} : endpoint' = S
    /\ UNCHANGED <<kpc, kkey, kret, answers>>

KNext ==
    \/ \E c \in Callers, k \in KeyIDs : Lookup(c, k) \/ Call(c, k)
    \/ Answer
    \/ \E F \in SUBSET Callers, o \in {"key", "invalid", "fetchErr"} : Reply(F, o)
    \/ RotateKeys

\* Only safety: the code does not bound how long a fetch may take, so no
\* waiting Get is promised an answer.
KSafety == KInit /\ [][KNext]_kvars

=============================================================================
