------------------------------ MODULE Verifier ------------------------------
(***************************************************************************)
(* VerifierBase.Verify (src/authn/verifier.go) run by concurrent callers   *)
(* on top of the key retriever of KeyRetriever (src/authn/jwks.go).        *)
(*                                                                         *)
(* The checks before keys.Get (ParseSigned, validType, getKeyID) are one   *)
(* step; keys.Get is the retriever's own steps; the checks after it        *)
(* (parsed.Claims, claims.Validate, mapErr) are one step.  A token is a    *)
(* record of what those checks look at: whether it parses, its signature   *)
(* headers (typ and kid), the key that really signed it (Forged for one    *)
(* signed with a key the endpoint never had), and whether its audience    *)
(* and expiry pass.  What go-jose does is taken from its v3 behaviour:     *)
(* "typ" is an extra header holding any JSON value; a token with more than *)
(* one signature never verifies with a single key; claims.Validate checks  *)
(* the audience before the expiry.                                          *)
(***************************************************************************)
EXTENDS KeyRetriever, Integers, Sequences

CONSTANTS
    TokenType,  \* VerifierBase.tokenType: "", "jwt" or "at+jwt"
    Tokens,     \* the raw tokens callers present
    Forged      \* a signing key that is not in any served key set

\* The values a "typ" header can take: absent, one of the two token types,
\* or a JSON value that is not a string.
TypHeaders == {"absent", "jwt", "at+jwt", "nonstring"}
Headers == [typ : TypHeaders, kid : KeyIDs \cup {""}]
TokenRecords == [parses : BOOLEAN, headers : Seq(Headers),
                 signer : KeyIDs \cup {Forged}, audOk : BOOLEAN,
                 notYet : BOOLEAN, expired : BOOLEAN, future : BOOLEAN]

ASSUME VerifierAssumption ==
    /\ TokenType \in {"", "jwt", "at+jwt"}
    /\ Forged \notin KeyIDs
    /\ Tokens \subseteq TokenRecords /\ Tokens # {}

VARIABLES
    vpc,    \* caller -> "idle" | "keys" (inside keys.Get)
    tok,    \* caller -> the token being (or last) verified
    vret    \* caller -> Verify's result: "none", "claims" or an error

vvars == <<vars, vpc, tok, vret>>

(* validType: true when no type is configured, or when some header has a   *)
(* "typ" that is not a string (absent included) or equals the type.       *)
validType(t) ==
    \/ TokenType = ""
    \/ \E i \in 1..Len(t.headers) :
          t.headers[i].typ \in {"absent", "nonstring", TokenType}

(* getKeyID: the kid of the first header that has one, "" when none has.  *)
getKeyID(t) ==
    LET withKid == {i \in 1..Len(t.headers) : t.headers[i].kid # ""}
    IN  IF withKid = {} THEN ""
        ELSE t.headers[CHOOSE i \in withKid : \A j \in withKid : i <= j].kid

(* claims.Validate(jwt.Expected{Audience, Time: time.Now()}): go-jose     *)
(* checks the audience, then, because Time is set, "nbf", "exp" and "iat" *)
(* against it; the error of the first check that fails.                   *)
ValidateClaims(t) ==
    IF ~t.audOk THEN "jwt.ErrInvalidAudience"
    ELSE IF t.notYet THEN "jwt.ErrNotValidYet"
    ELSE IF t.expired THEN "jwt.ErrExpired"
    ELSE IF t.future THEN "jwt.ErrIssuedInTheFuture"
    ELSE "ok"

(* mapErr: go-jose's expiry and audience errors become the package's own; *)
(* any other error is returned as it is.                                   *)
mapErr(e) ==
    IF e = "jwt.ErrExpired" THEN "ExpiredToken"
    ELSE IF e = "jwt.ErrInvalidAudience" THEN "InvalidAudience"
    ELSE e

\* Mutant: the claims are decoded without verifying the signature.
CheckClaimsUnverified(t, kid) ==
    IF ValidateClaims(t) = "ok" THEN "claims" ELSE mapErr(ValidateClaims(t))

\* Mutant: a token with several signatures verifies when one is good.
CheckClaimsAnySignature(t, kid) ==
    IF t.signer # kid THEN "ParseClaims"
    ELSE IF ValidateClaims(t) = "ok" THEN "claims"
    ELSE mapErr(ValidateClaims(t))

(* parsed.Claims(jwk, ...) once keys.Get returned the key of kid: the      *)
(* signature must be the only one and made with that key; then            *)
(* claims.Validate, whose error goes through mapErr.                       *)
CheckClaims(t, kid) ==
    IF Len(t.headers) # 1 \/ t.signer # kid THEN "ParseClaims"
    ELSE IF ValidateClaims(t) = "ok" THEN "claims"
    ELSE mapErr(ValidateClaims(t))

VInit ==
    /\ Init
    /\ vpc = [c \in Callers |-> "idle"]
    /\ tok = [c \in Callers |-> CHOOSE t \in Tokens : TRUE]
    /\ vret = [c \in Callers |-> "none"]

(***************************************************************************)
(* Verify up to keys.Get: a parse, type or key-id failure returns at once; *)
(* otherwise keys.Get starts on the key id.                                *)
(***************************************************************************)
BeginVerify(c, t) ==
    /\ vpc[c] = "idle" /\ pc[c] = "idle"
    /\ tok' = [tok EXCEPT ![c] = t]
    /\ \/ /\ \/ ~t.parses /\ vret' = [vret EXCEPT ![c] = "ParseToken"]
             \/ /\ t.parses /\ ~validType(t)
                /\ vret' = [vret EXCEPT ![c] = "InvalidTokenType"]
             \/ /\ t.parses /\ validType(t) /\ getKeyID(t) = ""
                /\ vret' = [vret EXCEPT ![c] = "InvalidSigningKey"]
          /\ UNCHANGED <<vars, vpc>>
       \/ /\ t.parses /\ validType(t) /\ getKeyID(t) # ""
          /\ Get(c, getKeyID(t))
          /\ vpc' = [vpc EXCEPT ![c] = "keys"]
          /\ vret' = [vret EXCEPT ![c] = "none"]

(* A step of keys.Get of a verifying caller.                               *)
KeysStep(c) ==
    /\ vpc[c] = "keys"
    /\ Step(c)
    /\ UNCHANGED <<vpc, tok, vret>>

(* keys.Get returned: its error is returned unchanged, its key checks the  *)
(* claims.                                                                 *)
EndVerify(c) ==
    /\ vpc[c] = "keys" /\ pc[c] = "idle"
    /\ vpc' = [vpc EXCEPT ![c] = "idle"]
    /\ \/ ret[c] = "fetchErr" /\ vret' = [vret EXCEPT ![c] = "FetchingSigningKey"]
       \/ ret[c] = "invalid" /\ vret' = [vret EXCEPT ![c] = "InvalidSigningKey"]
       \/ ret[c] = "key" /\ vret' = [vret EXCEPT ![c] = CheckClaims(tok[c], key[c])]
    /\ UNCHANGED <<vars, tok>>

VNext ==
    \/ \E c \in Callers, t \in Tokens : BeginVerify(c, t)
    \/ \E c \in Callers : KeysStep(c) \/ EndVerify(c)
    \/ \E k \in KeyIDs : Expire(k) /\ UNCHANGED <<vpc, tok, vret>>
    \/ Rotate /\ UNCHANGED <<vpc, tok, vret>>

VSpec == VInit /\ [][VNext]_vvars

-----------------------------------------------------------------------------
VResults == {"none", "claims", "ParseToken", "InvalidTokenType",
             "InvalidSigningKey", "FetchingSigningKey", "ParseClaims",
             "InvalidAudience", "ExpiredToken", "jwt.ErrNotValidYet",
             "jwt.ErrIssuedInTheFuture"}

VTypeOK ==
    /\ vpc \in [Callers -> {"idle", "keys"}]
    /\ tok \in [Callers -> Tokens]
    /\ vret \in [Callers -> VResults]

(* Verify returns claims only for a token signed with a key the JWKS       *)
(* endpoint served, with its audience accepted and within its validity     *)
(* window (not before "nbf", not after "exp", not before "iat"): neither a *)
(* placeholder, a failed fetch nor a concurrent flight lets a forged or    *)
(* out-of-date token through (Verify, DefaultKeyRetriever.Get).            *)
AcceptedTokensValid ==
    \A c \in Callers :
        vret[c] = "claims" =>
            /\ tok[c].signer \in KeysFromEndpoint
            /\ tok[c].signer = getKeyID(tok[c])
            /\ tok[c].audOk /\ ~tok[c].notYet /\ ~tok[c].expired
            /\ ~tok[c].future

(* spec.md 4.1 and 6: when a token type is configured, a token whose "typ" *)
(* header is present and differs from it fails with InvalidTokenType      *)
(* (validType).                                                            *)
TypHeaderEnforced ==
    \A c \in Callers :
        (vret[c] = "claims" /\ TokenType # "") =>
            \A i \in 1..Len(tok[c].headers) :
                tok[c].headers[i].typ \in {"absent", TokenType}

(* spec.md 8: a token whose expiry is in the past fails with ExpiredToken  *)
(* regardless of signature validity, here for every token whose key was   *)
(* resolved (Verify's order of parsed.Claims and claims.Validate).         *)
ExpiredReportedAsExpired ==
    \A c \in Callers :
        (vret[c] \notin {"none", "FetchingSigningKey", "InvalidSigningKey",
                         "ParseToken", "InvalidTokenType"}
         /\ tok[c].expired) => vret[c] = "ExpiredToken"

-----------------------------------------------------------------------------
(* The refinement mapping to VerifierContract: Verify's own state maps to  *)
(* itself, the key retriever to the key provider as in KeyRetriever.       *)
VC == INSTANCE VerifierContract
        WITH kpc <- [c \in Callers |-> IF pc[c] = "idle" THEN "idle" ELSE "busy"],
             kkey <- key, kret <- ret, endpoint <- upstream, answers <- Answers

(* Verify keeps its contract (spec.md 4.1, 4.2): a result is Verify's own  *)
(* early failure, the key provider's fetch error or invalid verdict, or,   *)
(* once a key some JWKS answer contained was returned, claims exactly for  *)
(* a token with that single signature, accepted audience and no expiry    *)
(* (Verify, parsed.Claims, claims.Validate, DefaultKeyRetriever.Get).      *)
RefinesVerifierContract == VC!CSafety

=============================================================================
