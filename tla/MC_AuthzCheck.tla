----------------------------- MODULE MC_AuthzCheck -----------------------------
(* Small instances of AuthzCheck for TLC.                                   *)
EXTENDS AuthzCheck, TLC

CONSTANTS c1, c2, k1, i1

MC_Callers == {c1, c2}
\* The callers are interchangeable.
MC_Symmetry == Permutations(MC_Callers)
MC_Kinds == {k1}
MC_Ids == {i1}

\* A service token of stack 1 allowed to act for users on every action.
Service(actions) == [ns |-> 1, perms |-> {}, delegated |-> actions]
User(s) == [ns |-> 1, subject |-> s]

\* Action-only requests of users for actions on stack 1, and one request
\* without a stack.
UserRequests(pairs) ==
    {[stack |-> 1, action |-> p[2], access |-> Service({q[2] : q \in pairs}),
      identity |-> User(p[1]), resource |-> NoResource, contextual |-> {}] :
        p \in pairs}
    \cup
    {[stack |-> 0, action |-> <<"r">>, access |-> Service({q[2] : q \in pairs}),
      identity |-> User(<<"u">>), resource |-> NoResource, contextual |-> {}]}

\* Two users, two actions; subjects are ids without "-", actions may
\* contain "-".
MC_Requests ==
    UserRequests({<<<<"u">>, <<"r">>>>, <<<<"v">>, <<"r">>>>,
                  <<<<"u">>, <<"r", "-", "w">>>>})

\* "u-r" asking for "r" and "u" asking for "r-r" share the key read-1-u-r-r.
MC_CollidingRequests ==
    UserRequests({<<<<"u", "-", "r">>, <<"r">>>>, <<<<"u">>, <<"r", "-", "r">>>>})

\* The service denies, or grants every k1 resource.
MC_Grants == {[found |-> FALSE, data |-> {}],
              [found |-> TRUE, data |-> {[kind |-> k1, id |-> "*"]}]}
=============================================================================
