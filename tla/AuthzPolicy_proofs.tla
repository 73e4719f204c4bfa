------------------------- MODULE AuthzPolicy_proofs -------------------------
(***************************************************************************)
(* Proofs about the decision logic of LegacyClientImpl.Check              *)
(* (src/pkg/ac/client/client_test.go), for every request and every Read    *)
(* response, not only the bounded ones the runs policy_token_auth and     *)
(* policy_no_token_auth enumerate.                                         *)
(*                                                                         *)
(* The argument: controller.Check on the controller newController built    *)
(* grants a non-empty set of resources exactly when some grant of the      *)
(* response covers one of them (ControllerGrants); the rest of Check is a  *)
(* chain of early returns that matches the spec's policy case by case.    *)
(* The MC corollary restates the result over the runs' input variable.    *)
(***************************************************************************)
EXTENDS MC_AuthzPolicy, TLAPS

-----------------------------------------------------------------------------
(* controller.Check on newController's controller grants a non-empty set   *)
(* of resources exactly when a grant of the response covers one of them:   *)
(* the universal wildcard, a wildcard on its kind, or its exact scope.     *)
LEMMA ControllerGrants ==
    ASSUME NEW resp \in Responses, resp # NoResponse, resp.found,
           NEW R, R # {}
    PROVE  ControllerCheck(NewController(resp), R) <=> \E r \in R : Granted(resp, r)
<1> DEFINE ctrl == NewController(resp)
<1>1. /\ ctrl.found
      /\ ctrl.scopes = {<<o.kind, o.id>> : o \in {p \in resp.data : p.id # "*"}}
      /\ ctrl.wildcard = {o.kind : o \in {p \in resp.data : p.id = "*"}}
  BY DEF NewController
<1>2. CASE ctrl.scopes = {} /\ ctrl.wildcard = {}
  <2>1. resp.data = {}
    <3>1. {p \in resp.data : p.id # "*"} = {} /\ {p \in resp.data : p.id = "*"} = {}
      BY <1>1, <1>2
    <3>2. QED
      BY <3>1
  <2>2. QED
    BY <1>1, <1>2, <2>1 DEF ControllerCheck, Granted
<1>3. CASE "*" \in ctrl.wildcard
  <2>1. PICK o \in resp.data : o.id = "*" /\ o.kind = "*"
    BY <1>1, <1>3
  <2>2. PICK r \in R : TRUE
    OBVIOUS
  <2>3. Granted(resp, r)
    BY <2>1 DEF Granted
  <2>4. QED
    BY <1>1, <1>3, <2>3 DEF ControllerCheck
<1>4. CASE ~(ctrl.scopes = {} /\ ctrl.wildcard = {}) /\ "*" \notin ctrl.wildcard
  <2>1. ControllerCheck(ctrl, R)
          <=> \E r \in R : r.kind \in ctrl.wildcard \/ Scope(r) \in ctrl.scopes
    BY <1>1, <1>4 DEF ControllerCheck
  <2>2. ASSUME NEW r
        PROVE  (r.kind \in ctrl.wildcard \/ Scope(r) \in ctrl.scopes)
                 <=> Granted(resp, r)
    BY <1>1, <1>4 DEF Granted, Scope
  <2>3. QED
    BY <2>1, <2>2
<1>5. QED
  BY <1>2, <1>3, <1>4

(* Validate passes exactly on the requests the spec calls well formed.     *)
LEMMA ValidateWellFormed ==
    ASSUME NEW req, req.stack \in Int
    PROVE  Validate(req) = "ok" <=> WellFormed(req)
  BY PolicyAssumption DEF Validate, WellFormed

(* Check's decision, for every request with an integer stack id and every *)
(* Read response: a decision exactly for well-formed requests, and allow   *)
(* exactly what the spec's policy allows (namespace isolation, service     *)
(* permissions, delegated permissions, grants of the Read response).       *)
THEOREM DecisionTheorem ==
    ASSUME NEW req, NEW resp \in Responses, req.stack \in Int
    PROVE  DecisionMatchesSpec(req, resp)
<1>1. CASE Validate(req) # "ok"
  <2>1. Decide(req, resp) = Validate(req)
    BY <1>1 DEF Decide, PreCheck, Validate
  <2>2. Validate(req) \notin {"allow", "deny"}
    BY DEF Validate
  <2>3. ~WellFormed(req)
    BY <1>1, ValidateWellFormed
  <2>4. QED
    BY <2>1, <2>2, <2>3 DEF DecisionMatchesSpec, SpecAllows
<1>2. CASE Validate(req) = "ok"
  <2>1. WellFormed(req)
    BY <1>2, ValidateWellFormed
  <2>2. ValidateNamespace(req) <=> SameTenant(req)
    BY <2>1, PolicyAssumption DEF ValidateNamespace, SameTenant, WellFormed
  <2>3. CASE ~SameTenant(req)
    BY <1>2, <2>1, <2>2, <2>3 DEF DecisionMatchesSpec, Decide, PreCheck, SpecAllows
  <2>4. CASE SameTenant(req) /\ req.identity = NoClaims
    BY <1>2, <2>1, <2>2, <2>4, PolicyAssumption
       DEF DecisionMatchesSpec, Decide, PreCheck, SpecAllows, WellFormed
  <2>5. CASE SameTenant(req) /\ req.identity # NoClaims
    <3>1. PreCheck(req) = IF AccessTokenAuthEnabled /\ req.action \notin req.access.delegated
                          THEN "deny" ELSE "retrieve"
      BY <1>2, <2>1, <2>2, <2>5 DEF PreCheck, WellFormed
    <3>2. PostCheck(req, NewController(resp)) = "allow"
            <=> /\ resp # NoResponse /\ resp.found
                /\ \/ req.resource = NoResource
                   \/ \E r \in req.contextual \cup {req.resource} : Granted(resp, r)
      <4>1. CASE resp = NoResponse \/ ~resp.found
        BY <4>1 DEF PostCheck, NewController, NoPermissions
      <4>2. CASE resp # NoResponse /\ resp.found
        <5>1. NewController(resp).found
          BY <4>2 DEF NewController
        <5>2. ControllerCheck(NewController(resp), req.contextual \cup {req.resource})
                <=> \E r \in req.contextual \cup {req.resource} : Granted(resp, r)
          BY <4>2, ControllerGrants
        <5>3. QED
          BY <4>2, <5>1, <5>2 DEF PostCheck
      <4>3. QED
        BY <4>1, <4>2
    <3>3. PostCheck(req, NewController(resp)) \in {"allow", "deny"}
      BY DEF PostCheck
    <3>4. QED
      BY <2>1, <2>5, <3>1, <3>2, <3>3, PolicyAssumption
         DEF DecisionMatchesSpec, Decide, SpecAllows
  <2>6. QED
    BY <2>3, <2>4, <2>5
<1>3. QED
  BY <1>1, <1>2

-----------------------------------------------------------------------------
(* The runs' input never changes, and every bounded request has an integer *)
(* stack id and every bounded response is a Read response.                 *)
LEMMA InputTyped ==
    Init /\ [][Next]_input => [](input[1].stack \in Int /\ input[2] \in Responses)
<1> DEFINE T == input[1].stack \in Int /\ input[2] \in Responses
<1>1. Init => T
  BY DEF Init, MC_Requests, MC_Stacks, MC_Responses, Responses
<1>2. T /\ [Next]_input => T'
  BY DEF Next
<1>3. QED
  BY <1>1, <1>2, PTL

(* policy_token_auth and policy_no_token_auth: Check matches the spec's    *)
(* policy on every input the runs enumerate (and on every other one).      *)
THEOREM MCDecisionTheorem ==
    Init /\ [][Next]_input => []MC_DecisionMatchesSpec
<1>1. input[1].stack \in Int /\ input[2] \in Responses => MC_DecisionMatchesSpec
  BY DecisionTheorem DEF MC_DecisionMatchesSpec
<1>2. QED
  BY <1>1, InputTyped, PTL

=============================================================================
