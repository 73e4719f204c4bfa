--------------------------- MODULE MC_KeyRetriever ---------------------------
(* Small instances of KeyRetriever for TLC.                                *)
EXTENDS KeyRetriever

CONSTANTS c1, c2, c3, k1, k2

\* Three concurrent Get calls: a leader, a waiter and a late caller.
MC_Callers == {c1, c2, c3}
MC_KeyIDs == {k1, k2}
\* The endpoint rotates between serving k1 alone and k1 with a new key k2.
MC_KeySets == {{k1}, {k1, k2}}
\* The endpoint publishes k2 only later.
MC_KeySetsStatic == {{k1}}
MC_KeySetsGrow == {{}, {k1}}
=============================================================================
