----------------------------- MODULE MC_Verifier -----------------------------
(* Small instances of Verifier for TLC.                                     *)
EXTENDS Verifier

CONSTANTS c1, c2, k1, k2, forged

MC_Callers == {c1, c2}
MC_KeyIDs == {k1, k2}
\* The endpoint serves k1, and k2 only after a rotation.
MC_KeySets == {{k1}, {k1, k2}}

Hdr(typ, kid) == [typ |-> typ, kid |-> kid]
Tok(hs, signer, audOk, expired) ==
    [parses |-> TRUE, headers |-> hs, signer |-> signer, audOk |-> audOk,
     notYet |-> FALSE, expired |-> expired, future |-> FALSE]

\* A token of each kind the checks tell apart, all for "at+jwt".
MC_Tokens ==
    { [Tok(<<>>, k1, TRUE, FALSE) EXCEPT !.parses = FALSE],
      Tok(<<Hdr("at+jwt", k1)>>, k1, TRUE, FALSE),        \* good
      Tok(<<Hdr("absent", k2)>>, k2, TRUE, FALSE),        \* rotated-in key
      Tok(<<Hdr("at+jwt", k1)>>, forged, TRUE, FALSE),    \* forged signature
      Tok(<<Hdr("at+jwt", k1)>>, k1, FALSE, TRUE),        \* wrong audience
      Tok(<<Hdr("at+jwt", k1)>>, k1, TRUE, TRUE),         \* expired
      [Tok(<<Hdr("at+jwt", k1)>>, k1, TRUE, FALSE) EXCEPT !.notYet = TRUE],
      [Tok(<<Hdr("at+jwt", k1)>>, k1, TRUE, FALSE) EXCEPT !.future = TRUE],
      Tok(<<Hdr("jwt", k1)>>, k1, TRUE, FALSE),           \* wrong type
      Tok(<<Hdr("at+jwt", "")>>, k1, TRUE, FALSE),        \* no key id
      Tok(<<Hdr("nonstring", k1)>>, k1, TRUE, FALSE),     \* typ not a string
      Tok(<<Hdr("absent", ""), Hdr("jwt", k1)>>, k1, TRUE, FALSE) }

\* Tokens signed with the wrong key or for another audience, expired.
MC_ExpiredTokens ==
    { Tok(<<Hdr("at+jwt", k1)>>, forged, TRUE, TRUE),
      Tok(<<Hdr("at+jwt", k1)>>, k1, FALSE, TRUE) }
=============================================================================
