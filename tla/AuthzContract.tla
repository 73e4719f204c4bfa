---------------------------- MODULE AuthzContract ----------------------------
(***************************************************************************)
(* What LegacyClientImpl.Check promises its callers (spec.md 4.3 and 8),   *)
(* with no cache layout, no watcher and no codec: a Check of request r     *)
(* returns                                                                  *)
(*   - the early decision or validation error of r, at once, when r does   *)
(*     not need the authz service;                                          *)
(*   - otherwise ErrReadPermission, a cache error when the cache can fail, *)
(*     or Check's verdict on the controller of a Read response the authz  *)
(*     service gave for r's own (stack, subject, action) and that is      *)
(*     still remembered.                                                   *)
(* The service answers a Read with what it grants now; grants change.     *)
(* What is remembered may be forgotten at any time (expiry, overwrite),   *)
(* and may be stale; an answer for another triple is never used.          *)
(***************************************************************************)
CONSTANTS
    \* Check's policy (AuthzPolicy): the triple a request is cached under,
    \* the decision before retrievePermissions, the decision on a
    \* controller, and the controller built from a Read response.
    Triple(_), PreCheck(_), PostCheck(_, _), NewController(_),
    Callers,        \* goroutines calling Check
    Requests,       \* the CheckRequests they send
    Grants,         \* the Read responses the authz service may give
    CacheFaults     \* whether the cache's Get/Set may fail

VARIABLES
    apc,        \* caller -> "idle" | "busy" (inside retrievePermissions)
    areq,       \* caller -> its current (or last) request
    aret,       \* caller -> Check's result ("none" while running)
    aupstream,  \* triple -> the response the authz service gives now
    aknown      \* <<triple, controller of a Read response for it>> remembered

avars == <<apc, areq, aret, aupstream, aknown>>

ATriples == {Triple(r) : r \in {q \in Requests : PreCheck(q) = "retrieve"}}

\* The results a Check of r that needs the authz service may return.
Verdicts(r) ==
    {"ReadPermission"}
    \cup {o \in {"CacheError"} : CacheFaults}
    \cup {PostCheck(r, p[2]) : p \in {q \in aknown : q[1] = Triple(r)}}

AInit ==
    /\ apc = [c \in Callers |-> "idle"]
    /\ areq = [c \in Callers |-> CHOOSE r \in Requests : TRUE]
    /\ aret = [c \in Callers |-> "none"]
    /\ aupstream \in [ATriples -> Grants]
    /\ aknown = {}

(* Check starts; a request that needs no Read is answered at once.         *)
ACall(c, r) ==
    /\ apc[c] = "idle"
    /\ areq' = [areq EXCEPT ![c] = r]
    /\ IF PreCheck(r) = "retrieve"
       THEN /\ apc' = [apc EXCEPT ![c] = "busy"]
            /\ aret' = [aret EXCEPT ![c] = "none"]
       ELSE /\ aret' = [aret EXCEPT ![c] = PreCheck(r)]
            /\ UNCHANGED apc
    /\ UNCHANGED <<aupstream, aknown>>

\* Some remembered controllers are forgotten.
Forget == aknown' \subseteq aknown

(* The authz service answers a Read for t with what it grants now.        *)
AServe(t) ==
    /\ aknown' = aknown \cup {<<t, NewController(aupstream[t])>>}
    /\ UNCHANGED <<apc, areq, aret, aupstream>>

(* A running Check returns o, possibly forgetting some of what it knew.    *)
AReply(c, o) ==
    /\ apc[c] = "busy"
    /\ o \in Verdicts(areq[c])
    /\ apc' = [apc EXCEPT ![c] = "idle"]
    /\ aret' = [aret EXCEPT ![c] = o]
    /\ Forget
    /\ UNCHANGED <<areq, aupstream>>

(* Remembered controllers are dropped.                                     *)
AForget ==
    /\ Forget
    /\ UNCHANGED <<apc, areq, aret, aupstream>>

(* A permission change in the authz service.                               *)
AChange(t, g) ==
    /\ aupstream[t] # g
    /\ aupstream' = [aupstream EXCEPT ![t] = g]
    /\ UNCHANGED <<apc, areq, aret, aknown>>

ANext ==
    \/ \E c \in Callers, r \in Requests : ACall(c, r)
    \/ \E t \in ATriples : AServe(t)
    \/ \E c \in Callers : apc[c] = "busy" /\ \E o \in Verdicts(areq[c]) : AReply(c, o)
    \/ AForget
    \/ \E t \in ATriples, g \in Grants : AChange(t, g)

ASafety == AInit /\ [][ANext]_avars

=============================================================================
