CONSTANTS
    c1 = c1
    c2 = c2
    k1 = k1
    k2 = k2
    forged = forged
    Forged = forged
    Callers <- MC_Callers
    KeyIDs <- MC_KeyIDs
    KeySets <- MC_KeySets
    Tokens <- MC_Tokens
    TokenType = "at+jwt"
SPECIFICATION VSpec
INVARIANT TypHeaderEnforced
