CONSTANTS
    c1 = c1
    c2 = c2
    k1 = k1
    i1 = i1
    NoClaims = NoClaims
    NoResource = NoResource
    NoResponse = NoResponse
    AccessTokenAuthEnabled = TRUE
    Kinds <- MC_Kinds
    Ids <- MC_Ids
    Callers <- MC_Callers
    Requests <- MC_Requests
    Grants <- MC_Grants
    CacheFaults = FALSE
    BackgroundCtx = TRUE
SPECIFICATION Spec
PROPERTY WatcherTerminates
