CONSTANTS
    k1 = k1
    k2 = k2
    i1 = i1
    i2 = i2
    NoClaims = NoClaims
    NoResource = NoResource
    NoResponse = NoResponse
    Kinds <- MC_Kinds
    Ids <- MC_Ids
    AccessTokenAuthEnabled = TRUE
INIT Init
NEXT Next
INVARIANT MC_DecisionMatchesSpec
