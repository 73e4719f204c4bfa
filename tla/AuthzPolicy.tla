----------------------------- MODULE AuthzPolicy -----------------------------
(***************************************************************************)
(* The decision logic of LegacyClientImpl.Check (src/pkg/ac/client/       *)
(* client_test.go, the authz client): request validation, the namespace   *)
(* check, the service-level and delegated permission checks, the          *)
(* controller built from a Read response and its scope/wildcard matching, *)
(* and the cache key of a (stack, subject, action) triple.  These are      *)
(* pure functions of the request and the Read response; AuthzCheck runs  *)
(* them in concurrent goroutines sharing a cache.                          *)
(*                                                                         *)
(* Strings matter in one place: controllerCacheKey joins stack, subject    *)
(* and action with "-", so subjects and actions are sequences of symbols   *)
(* ("-" among them) and the empty string is <<>>.  A stack id is one       *)
(* symbol: its decimal digits never contain "-".                           *)
(***************************************************************************)
EXTENDS Integers, Sequences

CONSTANTS
    AccessTokenAuthEnabled, \* MultiTenantClientConfig.accessTokenAuthEnabled
    Kinds,                  \* resource kinds
    Ids,                    \* resource identifiers (never "*")
    NoClaims,               \* a nil claims facet (model value)
    NoResource,             \* a nil *Resource (model value)
    NoResponse              \* a nil *ReadResponse (model value)

ASSUME PolicyAssumption ==
    /\ AccessTokenAuthEnabled \in BOOLEAN
    /\ "*" \notin Kinds \cup Ids

\* A Resource and its Scope(); the attribute part is abstracted away.
Scope(r) == <<r.kind, r.id>>
\* A granted object of a Read response, as splitScope sees it: a kind
\* ("*" for every kind) and an id ("*" for a wildcard grant).
Objects == [kind : Kinds \cup {"*"}, id : Ids \cup {"*"}]
Resources == [kind : Kinds, id : Ids]
\* authzv1.ReadResponse: Found and Data.
Responses == [found : BOOLEAN, data : SUBSET Objects] \cup {NoResponse}

(***************************************************************************)
(* CheckRequest.Validate: the first failing field, or "ok".               *)
(***************************************************************************)
Validate(req) ==
    IF req.stack <= 0 THEN "MissingStackID"
    ELSE IF req.action = <<>> THEN "MissingAction"
    ELSE IF AccessTokenAuthEnabled /\ req.access = NoClaims THEN "MissingCaller"
    ELSE IF req.identity # NoClaims /\ req.identity.subject = <<>>
         THEN "MissingSubject"
    ELSE "ok"

\* Mutant: the identity token's namespace is not checked.
ValidateNamespaceAccessOnly(req) ==
    \/ ~AccessTokenAuthEnabled
    \/ req.access # NoClaims /\ req.access.ns = req.stack

(* validateNamespace with the namespace formatter and NamespaceMatches     *)
(* (claims package, not in this repository) taken from spec.md 4.3: a     *)
(* claims namespace is the stack it was issued for.                        *)
ValidateNamespace(req) ==
    /\ \/ ~AccessTokenAuthEnabled
       \/ req.access # NoClaims /\ req.access.ns = req.stack
    /\ req.identity = NoClaims \/ req.identity.ns = req.stack

\* controller: Found, Scopes, Wildcard.
NoPermissions == [found |-> FALSE, scopes |-> {}, wildcard |-> {}]

(* newController: wildcard objects ("kind:*") go to Wildcard by kind, the  *)
(* others to Scopes.                                                       *)
NewController(resp) ==
    IF resp = NoResponse \/ ~resp.found THEN NoPermissions
    ELSE [found    |-> TRUE,
          scopes   |-> {<<o.kind, o.id>> : o \in {p \in resp.data : p.id # "*"}},
          wildcard |-> {o.kind : o \in {p \in resp.data : p.id = "*"}}]

Controllers == [found : BOOLEAN,
                scopes : SUBSET ((Kinds \cup {"*"}) \X Ids),
                wildcard : SUBSET (Kinds \cup {"*"})]

\* controller.Check over the requested resources.
ControllerCheck(ctrl, resources) ==
    IF ~ctrl.found THEN FALSE
    ELSE IF resources = {} THEN TRUE
    ELSE IF ctrl.scopes = {} /\ ctrl.wildcard = {} THEN FALSE
    ELSE IF "*" \in ctrl.wildcard THEN TRUE
    ELSE \E r \in resources : r.kind \in ctrl.wildcard \/ Scope(r) \in ctrl.scopes

(***************************************************************************)
(* Check up to retrievePermissions.  "allow" and "deny" are decisions      *)
(* taken without the authz service, "retrieve" goes on to                 *)
(* retrievePermissions, anything else is the error returned.              *)
(***************************************************************************)
PreCheck(req) ==
    IF Validate(req) # "ok" THEN Validate(req)
    ELSE IF ~ValidateNamespace(req) THEN "deny"
    ELSE IF req.identity = NoClaims
         THEN IF ~AccessTokenAuthEnabled THEN "allow"
              ELSE IF req.access = NoClaims THEN "MissingCaller"
              ELSE IF req.action \in req.access.perms THEN "allow"
              ELSE "deny"
    ELSE IF AccessTokenAuthEnabled /\ req.access = NoClaims THEN "MissingCaller"
    ELSE IF AccessTokenAuthEnabled /\ req.action \notin req.access.delegated
         THEN "deny"
    ELSE "retrieve"

(* Check after retrievePermissions returned ctrl.                          *)
PostCheck(req, ctrl) ==
    IF ~ctrl.found THEN "deny"
    ELSE IF req.resource = NoResource THEN "allow"
    ELSE IF ControllerCheck(ctrl, req.contextual \cup {req.resource})
         THEN "allow" ELSE "deny"

\* The authz-service triple a request is about, once it reaches retrieve.
Triple(req) == <<req.stack, req.identity.subject, req.action>>

\* Mutant: the action is left out of the cache key.
CacheKeyNoAction(t) == <<"read", "-", t[1], "-">> \o t[2]

(* controllerCacheKey: fmt.Sprintf("read-%d-%s-%s", stackID, subject,     *)
(* action), as the sequence of symbols it produces.                        *)
CacheKey(t) == <<"read", "-", t[1], "-">> \o t[2] \o <<"-">> \o t[3]

(* Check's result for a request once retrievePermissions returned the     *)
(* controller of resp: the whole decision pipeline without the cache.     *)
Decide(req, resp) ==
    IF PreCheck(req) = "retrieve" THEN PostCheck(req, NewController(resp))
    ELSE PreCheck(req)

-----------------------------------------------------------------------------
(***************************************************************************)
(* The policy of spec.md 4.3 and 8, stated over the Read response data    *)
(* directly: a resource is granted by an exact scope, by a wildcard on its *)
(* kind, or by the universal wildcard.                                    *)
(***************************************************************************)
WellFormed(req) ==
    /\ req.stack > 0
    /\ req.action # <<>>
    /\ AccessTokenAuthEnabled => req.access # NoClaims
    /\ req.identity # NoClaims => req.identity.subject # <<>>

Granted(resp, r) ==
    \E o \in resp.data :
        \/ o.id = "*" /\ o.kind \in {r.kind, "*"}
        \/ o.id # "*" /\ <<o.kind, o.id>> = Scope(r)

\* Namespace isolation: every facet that counts was issued for the stack.
SameTenant(req) ==
    /\ AccessTokenAuthEnabled => req.access.ns = req.stack
    /\ req.identity # NoClaims => req.identity.ns = req.stack

SpecAllows(req, resp) ==
    /\ WellFormed(req)
    /\ SameTenant(req)
    /\ IF req.identity = NoClaims
       THEN ~AccessTokenAuthEnabled \/ req.action \in req.access.perms
       ELSE /\ ~AccessTokenAuthEnabled \/ req.action \in req.access.delegated
            /\ resp # NoResponse /\ resp.found
            /\ \/ req.resource = NoResource
               \/ \E r \in req.contextual \cup {req.resource} : Granted(resp, r)

(* Check decides (allow or deny, no error) exactly for well-formed         *)
(* requests, and allows exactly what the spec's policy allows: namespace   *)
(* isolation first, service permissions without a user, delegated          *)
(* permission plus the user's grants with one, wildcards before scopes.    *)
DecisionMatchesSpec(req, resp) ==
    /\ Decide(req, resp) \in {"allow", "deny"} <=> WellFormed(req)
    /\ Decide(req, resp) = "allow" <=> SpecAllows(req, resp)

=============================================================================
