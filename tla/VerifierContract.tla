-------------------------- MODULE VerifierContract --------------------------
(***************************************************************************)
(* What VerifierBase.Verify promises its callers (spec.md 4.1, 4.2), on    *)
(* top of the key provider's contract (KeyProvider) instead of the         *)
(* retriever's cache and singleflight.  A Verify of token t                *)
(*   - fails at once when t does not parse, has a bad type or no key id    *)
(*     (Verify's own pre-checks, taken as parameters);                      *)
(*   - otherwise asks the key provider for t's key id, and then            *)
(*       - returns the fetch error or ErrInvalidSigningKey as the provider *)
(*         answered them;                                                  *)
(*       - returns claims only when the provider returned the key, t has   *)
(*         that single signature made with it, its audience is accepted   *)
(*         and the present lies in its nbf/exp/iat window;                 *)
(*       - returns otherwise an error that names a check t fails.          *)
(***************************************************************************)
EXTENDS KeyProvider, Sequences

CONSTANTS
    Tokens,         \* the raw tokens callers present
    validType(_),   \* Verify's type check
    getKeyID(_)     \* Verify's choice of the key id among the headers

VARIABLES
    vpc,    \* caller -> "idle" | "keys" (waiting for the key)
    tok,    \* caller -> the token being (or last) verified
    vret    \* caller -> Verify's result: "none", "claims" or an error

cvars == <<kvars, vpc, tok, vret>>

\* The token has one signature, made with key k, and valid claims.
ValidFor(t, k) ==
    /\ Len(t.headers) = 1 /\ t.signer = k
    /\ t.audOk /\ ~t.notYet /\ ~t.expired /\ ~t.future

\* The errors that name a check token t fails under key k.
ClaimErrors(t, k) ==
    {e \in {"ParseClaims", "InvalidAudience", "jwt.ErrNotValidYet",
            "ExpiredToken", "jwt.ErrIssuedInTheFuture"} :
        \/ e = "ParseClaims" /\ (Len(t.headers) # 1 \/ t.signer # k)
        \/ e = "InvalidAudience" /\ ~t.audOk
        \/ e = "jwt.ErrNotValidYet" /\ t.notYet
        \/ e = "ExpiredToken" /\ t.expired
        \/ e = "jwt.ErrIssuedInTheFuture" /\ t.future}

\* The results Verify may return once the key provider answered o for k.
Results(t, o, k) ==
    CASE o = "fetchErr" -> {"FetchingSigningKey"}
      [] o = "invalid"  -> {"InvalidSigningKey"}
      [] o = "key"      -> IF ValidFor(t, k) THEN {"claims"}
                           ELSE ClaimErrors(t, k)
      [] OTHER          -> {}

\* The result of a Verify that never asks for a key, or "keys".
Early(t) ==
    IF ~t.parses THEN "ParseToken"
    ELSE IF ~validType(t) THEN "InvalidTokenType"
    ELSE IF getKeyID(t) = "" THEN "InvalidSigningKey"
    ELSE "keys"

CInit ==
    /\ KInit
    /\ vpc = [c \in Callers |-> "idle"]
    /\ tok = [c \in Callers |-> CHOOSE t \in Tokens : TRUE]
    /\ vret = [c \in Callers |-> "none"]

(* Verify starts: it fails at once, or asks for the token's key id.       *)
VBegin(c, t) ==
    /\ vpc[c] = "idle" /\ kpc[c] = "idle"
    /\ tok' = [tok EXCEPT ![c] = t]
    /\ \/ /\ Early(t) # "keys"
          /\ vret' = [vret EXCEPT ![c] = Early(t)]
          /\ UNCHANGED <<kvars, vpc>>
       \/ /\ Early(t) = "keys"
          /\ Lookup(c, getKeyID(t)) \/ Call(c, getKeyID(t))
          /\ vpc' = [vpc EXCEPT ![c] = "keys"]
          /\ vret' = [vret EXCEPT ![c] = "none"]

(* The key provider answered: Verify returns.                              *)
VEnd(c) ==
    /\ vpc[c] = "keys" /\ kpc[c] = "idle"
    /\ vpc' = [vpc EXCEPT ![c] = "idle"]
    /\ \E r \in Results(tok[c], kret[c], kkey[c]) : vret' = [vret EXCEPT ![c] = r]
    /\ UNCHANGED <<kvars, tok>>

(* The key provider's own steps while Verifies wait.                       *)
KeysMove ==
    /\ \/ Answer
       \/ \E F \in SUBSET Callers, o \in {"key", "invalid", "fetchErr"} : Reply(F, o)
       \/ RotateKeys
    /\ UNCHANGED <<vpc, tok, vret>>

CNext ==
    \/ \E c \in Callers, t \in Tokens : VBegin(c, t)
    \/ \E c \in Callers : VEnd(c)
    \/ KeysMove

CSafety == CInit /\ [][CNext]_cvars

=============================================================================
