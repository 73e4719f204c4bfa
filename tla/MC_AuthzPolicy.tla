---------------------------- MODULE MC_AuthzPolicy ----------------------------
(* Every bounded request against every bounded Read response: one state    *)
(* per input pair, checked against the spec's policy.                     *)
EXTENDS AuthzPolicy, FiniteSets

CONSTANTS k1, k2, i1, i2

VARIABLE input

MC_Kinds == {k1, k2}
MC_Ids == {i1, i2}
MC_Stacks == {0, 1, 2}
MC_Actions == {<<>>, <<"r">>}
MC_Access == {NoClaims} \cup
             [ns : {1, 2}, perms : SUBSET {<<"r">>}, delegated : SUBSET {<<"r">>}]
MC_Identity == {NoClaims} \cup [ns : {1, 2}, subject : {<<>>, <<"u">>}]
MC_Requests ==
    [stack : MC_Stacks, action : MC_Actions, access : MC_Access,
     identity : MC_Identity, resource : Resources \cup {NoResource},
     contextual : {{}} \cup {{r} : r \in Resources}]
\* Responses granting at most two objects.
MC_Responses ==
    {NoResponse} \cup
    {rs \in [found : BOOLEAN, data : SUBSET Objects] : Cardinality(rs.data) <= 2}

Init == input \in MC_Requests \X MC_Responses
Next == UNCHANGED input

MC_DecisionMatchesSpec == DecisionMatchesSpec(input[1], input[2])
=============================================================================
