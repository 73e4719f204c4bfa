--------------------------- MODULE Verifier_proofs ---------------------------
(***************************************************************************)
(* Proofs about Verifier (src/authn/verifier.go over src/authn/jwks.go)    *)
(* for every set of callers, key ids, key sets and tokens.                 *)
(*                                                                         *)
(* Every Verify step is a key-retriever step or leaves the retriever's     *)
(* state alone, so the retriever's invariants (KeyRetriever_proofs) carry  *)
(* over.  AcceptedTokensValid then needs one more fact: a caller inside    *)
(* keys.Get asked for its token's key id.                                  *)
(***************************************************************************)
EXTENDS Verifier, KeyRetriever_proofs, WellFoundedInduction

\* A verifying caller's key retriever call is for its token's key id.
VerifyingKey ==
    \A c \in Callers : vpc[c] = "keys" => key[c] = getKeyID(tok[c])

VInv ==
    /\ TypeOK
    /\ EInv
    /\ VTypeOK
    /\ VerifyingKey
    /\ AcceptedTokensValid

-----------------------------------------------------------------------------
(* A non-empty set of naturals has a least element.                       *)
LEMMA NatSetHasMin ==
    ASSUME NEW W \in SUBSET Nat, W # {}
    PROVE  \E x \in W : \A y \in W : x <= y
<1>1. IsWellFoundedOn(OpToRel(<, Nat), Nat)
  BY NatLessThanWellFounded
<1>2. PICK x \in W : \A y \in W : ~(<<y, x>> \in OpToRel(<, Nat))
  BY <1>1, WFMin
<1>3. \A y \in W : ~(y < x)
  BY <1>2 DEF OpToRel
<1>4. QED
  BY <1>3
(* getKeyID returns a key id or "": the first header with a kid exists.    *)
LEMMA GetKeyIDType ==
    ASSUME NEW t \in TokenRecords
    PROVE  getKeyID(t) \in KeyIDs \cup {""}
<1> DEFINE W == {i \in 1..Len(t.headers) : t.headers[i].kid # ""}
<1>1. t.headers \in Seq(Headers)
  BY DEF TokenRecords
<1>2. CASE W = {}
  BY <1>2 DEF getKeyID
<1>3. CASE W # {}
  <2>1. W \subseteq 1..Len(t.headers)
    BY Zenon DEF W
  <2>2. 1..Len(t.headers) \subseteq Nat
    BY <1>1
  <2>3. (CHOOSE i \in W : \A j \in W : i <= j) \in W
    BY <1>3, <2>1, <2>2, NatSetHasMin
  <2>4. getKeyID(t) = t.headers[CHOOSE i \in W : \A j \in W : i <= j].kid
    BY <1>3 DEF getKeyID, W
  <2>5. \A i \in 1..Len(t.headers) : t.headers[i] \in Headers
    BY <1>1
  <2>6. QED
    BY <2>1, <2>3, <2>4, <2>5 DEF Headers
<1>4. QED
  BY <1>2, <1>3
(* Each Verify step is a step of the key retriever or leaves it alone.     *)
LEMMA VNextIsNext ==
    VTypeOK /\ [VNext]_vvars => [Next]_vars
<1> SUFFICES ASSUME VTypeOK, [VNext]_vvars PROVE [Next]_vars
  OBVIOUS
<1>1. ASSUME NEW c \in Callers, NEW t \in Tokens, BeginVerify(c, t)
      PROVE [Next]_vars
  <2>1. getKeyID(t) \in KeyIDs \cup {""}
    BY VerifierAssumption, GetKeyIDType
  <2>2. QED
    BY <1>1, <2>1 DEF BeginVerify, Next
<1>2. ASSUME NEW c \in Callers, KeysStep(c) PROVE [Next]_vars
  BY <1>2 DEF KeysStep, Next
<1>3. ASSUME NEW c \in Callers, EndVerify(c) PROVE [Next]_vars
  BY <1>3 DEF EndVerify
<1>4. CASE \E k \in KeyIDs : Expire(k) /\ UNCHANGED <<vpc, tok, vret>>
  BY <1>4 DEF Next
<1>5. CASE Rotate /\ UNCHANGED <<vpc, tok, vret>>
  BY <1>5 DEF Next
<1>6. CASE UNCHANGED vvars
  BY <1>6 DEF vvars
<1>7. QED
  BY <1>1, <1>2, <1>3, <1>4, <1>5, <1>6 DEF VNext

-----------------------------------------------------------------------------
LEMMA VInvInit == VInit => VInv
<1> SUFFICES ASSUME VInit PROVE VInv
  OBVIOUS
<1>1. TypeOK /\ EInv
  BY EInvInit, KeySetsAssumption
  DEF VInit, Init, TypeOK, Entry, PC, Outcome
<1>2. (CHOOSE t \in Tokens : TRUE) \in Tokens
  BY VerifierAssumption
<1>3. VTypeOK
  BY <1>2 DEF VInit, VTypeOK, VResults
<1>4. QED
  BY <1>1, <1>3 DEF VInit, VInv, VerifyingKey, AcceptedTokensValid

LEMMA VInvStep == VInv /\ [VNext]_vvars => VInv'
<1> SUFFICES ASSUME VInv, [VNext]_vvars PROVE VInv'
  OBVIOUS
<1>1. [Next]_vars
  BY VNextIsNext DEF VInv
<1>2. TypeOK' /\ EInv'
  BY <1>1, TypeStep, EInvStep DEF VInv
<1>3. KeysFromEndpoint \subseteq KeysFromEndpoint'
  BY <1>1, EndpointMonotone DEF VInv
<1> USE DEF VInv, VTypeOK, VResults, VerifyingKey, AcceptedTokensValid
<1>4. ASSUME NEW c \in Callers, NEW t \in Tokens, BeginVerify(c, t)
      PROVE VInv'
  \* A check before keys.Get fails: c returns an error at once.
  <2>1. CASE UNCHANGED <<vars, vpc>>
    BY <1>2, <1>3, <1>4, <2>1 DEF BeginVerify, vars
  \* keys.Get starts on the token's key id: c's key is that id.
  <2>2. CASE /\ Get(c, getKeyID(t))
             /\ vpc' = [vpc EXCEPT ![c] = "keys"]
             /\ vret' = [vret EXCEPT ![c] = "none"]
    <3>1. key' = [key EXCEPT ![c] = getKeyID(t)]
      BY <2>2 DEF Get
    <3>2. tok' = [tok EXCEPT ![c] = t]
      BY <1>4 DEF BeginVerify
    <3>3. VTypeOK' /\ VerifyingKey'
      BY <2>2, <3>1, <3>2 DEF TypeOK
    <3>4. AcceptedTokensValid'
      BY <1>3, <2>2, <3>2
    <3>5. QED
      BY <1>2, <3>3, <3>4
  <2>3. QED
    BY <1>4, <2>1, <2>2 DEF BeginVerify
<1>5. ASSUME NEW c \in Callers, KeysStep(c) PROVE VInv'
  \* The retriever's steps never change a caller's key id.
  <2>1. key' = key
    BY <1>5 DEF KeysStep, Step, StartFlight, JoinFlight, FetchOk, FetchFail,
       StoreKey, FinishFlight, Recheck, SetEmpty, Return
  <2>2. QED
    BY <1>2, <1>3, <1>5, <2>1 DEF KeysStep
<1>6. ASSUME NEW c \in Callers, EndVerify(c) PROVE VInv'
  \* A key Get returned came from the endpoint and is the token's key id;
  \* CheckClaims accepts only a token signed with it.
  <2>1. ret[c] = "key" => key[c] \in KeysFromEndpoint
    BY DEF EInv, KeyFromEndpoint
  <2>2. CheckClaims(tok[c], key[c]) = "claims" =>
          /\ tok[c].signer = key[c]
          /\ tok[c].audOk /\ ~tok[c].notYet /\ ~tok[c].expired
          /\ ~tok[c].future
    BY DEF CheckClaims, ValidateClaims, mapErr
  <2>3. vret'[c] = "claims" =>
          /\ tok[c].signer \in KeysFromEndpoint'
          /\ tok[c].signer = getKeyID(tok[c])
          /\ tok[c].audOk /\ ~tok[c].notYet /\ ~tok[c].expired
          /\ ~tok[c].future
    BY <1>3, <1>6, <2>1, <2>2 DEF EndVerify
  <2>4. CheckClaims(tok[c], key[c]) \in VResults
    BY DEF CheckClaims, ValidateClaims, mapErr
  <2>5. VTypeOK'
    BY <1>6, <2>4 DEF EndVerify
  <2>6. VerifyingKey'
    BY <1>6 DEF EndVerify, vars
  <2>7. AcceptedTokensValid'
    <3>1. SUFFICES ASSUME NEW d \in Callers, vret'[d] = "claims"
                   PROVE  /\ tok'[d].signer \in KeysFromEndpoint'
                          /\ tok'[d].signer = getKeyID(tok'[d])
                          /\ tok'[d].audOk /\ ~tok'[d].notYet
                          /\ ~tok'[d].expired /\ ~tok'[d].future
      OBVIOUS
    <3>2. tok' = tok
      BY <1>6 DEF EndVerify
    <3>3. CASE d = c
      BY <2>3, <3>1, <3>2, <3>3
    <3>4. CASE d # c
      BY <1>3, <1>6, <3>1, <3>2, <3>4 DEF EndVerify
    <3>5. QED
      BY <3>3, <3>4
  <2>8. QED
    BY <1>2, <2>5, <2>6, <2>7
<1>7. CASE \E k \in KeyIDs : Expire(k) /\ UNCHANGED <<vpc, tok, vret>>
  BY <1>2, <1>3, <1>7 DEF Expire
<1>8. CASE Rotate /\ UNCHANGED <<vpc, tok, vret>>
  BY <1>2, <1>3, <1>8 DEF Rotate
<1>9. CASE UNCHANGED vvars
  BY <1>2, <1>3, <1>9 DEF vvars, vars
<1>10. QED
  BY <1>4, <1>5, <1>6, <1>7, <1>8, <1>9 DEF VNext

-----------------------------------------------------------------------------
(* For every set of callers, key ids, key sets and tokens: Verify returns  *)
(* claims only for a token signed, under the key id it names, with a key   *)
(* the JWKS endpoint served, whose audience passed and which has not       *)
(* expired, however Verify calls interleave with fetches, placeholders,    *)
(* expiry and rotation (Verify, DefaultKeyRetriever.Get).                  *)
THEOREM VerifierSafety == VSpec => []AcceptedTokensValid
<1>1. VInv => AcceptedTokensValid
  BY DEF VInv
<1>2. QED
  BY <1>1, VInvInit, VInvStep, PTL DEF VSpec

-----------------------------------------------------------------------------
(***************************************************************************)
(* Refinement: Verifier implements VerifierContract under the mapping of   *)
(* Verifier.  The key retriever's part of every step is a key-provider     *)
(* step by RefGet and RefInner of KeyRetriever_proofs; Verify's own steps  *)
(* keep its early checks, and CheckClaims returns claims exactly on a     *)
(* token valid for the key, so every result is one the contract allows.   *)
(***************************************************************************)
(* The key provider seen through the Verify contract is the key provider  *)
(* of KeyRetriever: same actions, same variables.                          *)
LEMMA SameProvider ==
    ASSUME NEW c, NEW k, NEW F, NEW o
    PROVE  /\ KP!Lookup(c, k) => VC!Lookup(c, k)
           /\ KP!Call(c, k) => VC!Call(c, k)
           /\ KP!Answer => VC!Answer
           /\ KP!Reply(F, o) => VC!Reply(F, o)
           /\ KP!RotateKeys => VC!RotateKeys
           /\ KP!kvars = VC!kvars
           /\ KP!KInit => VC!KInit
  BY DEF KP!Lookup, VC!Lookup, KP!Call, VC!Call, KP!Answer, VC!Answer,
         KP!Reply, VC!Reply, KP!RotateKeys, VC!RotateKeys, KP!Allowed,
         VC!Allowed, KP!kvars, VC!kvars, KP!KInit, VC!KInit

(* CheckClaims returns claims exactly on a token valid for the key, and   *)
(* otherwise an error that names a check the token fails.                  *)
LEMMA CheckClaimsResults ==
    ASSUME NEW t, NEW k
    PROVE  CheckClaims(t, k) \in VC!Results(t, "key", k)
  BY DEF CheckClaims, ValidateClaims, mapErr, VC!Results, VC!ValidFor,
     VC!ClaimErrors

\* The retriever's invariants and Verify's, together.
RInv == VInv /\ IInv

LEMMA RInvInductive == VSpec => []RInv
<1>1. VInit => RInv
  BY VInvInit, IInvInit DEF VInit, RInv
<1>2. RInv /\ [VNext]_vvars => RInv'
  <2> SUFFICES ASSUME RInv, [VNext]_vvars PROVE RInv'
    OBVIOUS
  <2>1. [Next]_vars
    BY VNextIsNext DEF RInv, VInv
  <2>2. QED
    BY <2>1, VInvStep, IInvStep DEF RInv
<1>3. QED
  BY <1>1, <1>2, PTL DEF VSpec

LEMMA CRefInit == VInit => VC!CInit
  BY RefInit, SameProvider DEF VInit, VC!CInit

LEMMA CRefStep == RInv /\ [VNext]_vvars => [VC!CNext]_VC!cvars
<1> SUFFICES ASSUME RInv, [VNext]_vvars PROVE [VC!CNext]_VC!cvars
  OBVIOUS
<1>0. TypeOK /\ IInv /\ EInv /\ VTypeOK
  BY DEF RInv, VInv
<1>1. ASSUME NEW c \in Callers, NEW t \in Tokens, BeginVerify(c, t)
      PROVE  VC!CNext
  <2>0. vpc[c] = "idle" /\ Busy[c] = "idle" /\ tok' = [tok EXCEPT ![c] = t]
    BY <1>1 DEF BeginVerify, Busy
  <2>1. CASE UNCHANGED <<vars, vpc>>
    <3>1. VC!Early(t) # "keys" /\ vret' = [vret EXCEPT ![c] = VC!Early(t)]
      <4>1. CASE ~t.parses
        BY <1>1, <2>1, <4>1 DEF BeginVerify, VC!Early, vars
      <4>2. CASE t.parses /\ ~validType(t)
        BY <1>1, <2>1, <4>2 DEF BeginVerify, VC!Early, vars
      <4>3. CASE t.parses /\ validType(t) /\ getKeyID(t) = ""
        BY <1>1, <2>1, <4>3 DEF BeginVerify, VC!Early, vars
      <4>4. CASE t.parses /\ validType(t) /\ getKeyID(t) # ""
        \* keys.Get would have started and changed the caller's vpc.
        BY <1>1, <2>1, <4>4, <2>0 DEF BeginVerify, Get, vars, VTypeOK, RInv, VInv
      <4>5. QED
        BY <4>1, <4>2, <4>3, <4>4
    <3>2. UNCHANGED VC!kvars
      BY <2>1 DEF vars, VC!kvars, Answers
    <3>3. VC!VBegin(c, t)
      BY <2>0, <2>1, <3>1, <3>2 DEF VC!VBegin, Busy
    <3>4. QED
      BY <3>3 DEF VC!CNext
  <2>2. CASE /\ t.parses /\ validType(t) /\ getKeyID(t) # ""
             /\ Get(c, getKeyID(t))
             /\ vpc' = [vpc EXCEPT ![c] = "keys"]
             /\ vret' = [vret EXCEPT ![c] = "none"]
    <3>1. getKeyID(t) \in KeyIDs
      BY <2>2, GetKeyIDType, VerifierAssumption
    <3>2. KP!Lookup(c, getKeyID(t)) \/ KP!Call(c, getKeyID(t))
      BY <1>0, <2>2, <3>1, RefGet
    <3>3. VC!Lookup(c, getKeyID(t)) \/ VC!Call(c, getKeyID(t))
      BY <3>2, SameProvider
    <3>4. VC!Early(t) = "keys"
      BY <2>2 DEF VC!Early
    <3>5. VC!VBegin(c, t)
      BY <2>0, <2>2, <3>3, <3>4 DEF VC!VBegin, Busy
    <3>6. QED
      BY <3>5 DEF VC!CNext
  <2>3. QED
    BY <1>1, <2>1, <2>2 DEF BeginVerify
<1>2. ASSUME NEW c \in Callers, KeysStep(c) PROVE [VC!CNext]_VC!cvars
  <2>1. [KPMove]_KP!kvars /\ UNCHANGED <<vpc, tok, vret>>
    BY <1>0, <1>2, RefInner DEF KeysStep
  <2>2. CASE KPMove
    <3>1. VC!Answer \/ \E F \in SUBSET Callers, o \in {"key", "invalid", "fetchErr"} : VC!Reply(F, o)
      BY <2>2, SameProvider DEF KPMove
    <3>2. VC!KeysMove
      BY <2>1, <3>1 DEF VC!KeysMove
    <3>3. QED
      BY <3>2 DEF VC!CNext
  <2>3. CASE UNCHANGED KP!kvars
    BY <2>1, <2>3 DEF VC!cvars, VC!kvars, KP!kvars
  <2>4. QED
    BY <2>1, <2>2, <2>3
<1>3. ASSUME NEW c \in Callers, EndVerify(c) PROVE VC!CNext
  <2>1. vpc[c] = "keys" /\ Busy[c] = "idle" /\ vpc' = [vpc EXCEPT ![c] = "idle"]
    BY <1>3 DEF EndVerify, Busy
  <2>2. UNCHANGED <<VC!kvars, tok>>
    BY <1>3 DEF EndVerify, vars, VC!kvars, Answers
  <2>3. vret'[c] \in VC!Results(tok[c], ret[c], key[c])
    <3>1. CASE ret[c] = "key"
      <4>1. vret'[c] = CheckClaims(tok[c], key[c])
        BY <1>0, <1>3, <3>1 DEF EndVerify, VTypeOK
      <4>2. QED
        BY <3>1, <4>1, CheckClaimsResults
    <3>2. CASE ret[c] = "fetchErr"
      <4>1. vret'[c] = "FetchingSigningKey"
        BY <1>0, <1>3, <3>2 DEF EndVerify, VTypeOK
      <4>2. QED
        BY <3>2, <4>1 DEF VC!Results
    <3>3. CASE ret[c] = "invalid"
      <4>1. vret'[c] = "InvalidSigningKey"
        BY <1>0, <1>3, <3>3 DEF EndVerify, VTypeOK
      <4>2. QED
        BY <3>3, <4>1 DEF VC!Results
    <3>4. QED
      BY <1>3, <3>1, <3>2, <3>3 DEF EndVerify
  <2>4. \E r \in VC!Results(tok[c], ret[c], key[c]) : vret' = [vret EXCEPT ![c] = r]
    BY <1>3, <2>3 DEF EndVerify, VTypeOK
  <2>5. VC!VEnd(c)
    BY <2>1, <2>2, <2>4 DEF VC!VEnd, Busy
  <2>6. QED
    BY <2>5 DEF VC!CNext
<1>4. CASE \E k \in KeyIDs : Expire(k) /\ UNCHANGED <<vpc, tok, vret>>
  BY <1>4 DEF Expire, Answers, VC!cvars, VC!kvars
<1>5. CASE Rotate /\ UNCHANGED <<vpc, tok, vret>>
  <2>1. VC!RotateKeys
    BY <1>5 DEF Rotate, VC!RotateKeys, Answers
  <2>2. QED
    BY <1>5, <2>1 DEF VC!KeysMove, VC!CNext
<1>6. CASE UNCHANGED vvars
  BY <1>6 DEF vvars, vars, Answers, VC!cvars, VC!kvars
<1>7. QED
  BY <1>1, <1>2, <1>3, <1>4, <1>5, <1>6 DEF VNext

(* For every set of callers, key ids, key sets and tokens: every          *)
(* behaviour of concurrent Verifies over the retriever's cache,           *)
(* singleflight and negative cache is one of Verify's contract: each       *)
(* result is an early failure of Verify's own checks, the key provider's  *)
(* fetch error or invalid verdict, or claims exactly for a token with a   *)
(* single signature made with a key some JWKS answer contained, accepted   *)
(* audience and no expiry (Verify, parsed.Claims, DefaultKeyRetriever.Get). *)
THEOREM VerifierRefinement == VSpec => RefinesVerifierContract
  BY RInvInductive, CRefInit, CRefStep, PTL
     DEF VSpec, RefinesVerifierContract, VC!CSafety

=============================================================================
