CONSTANTS
    c1 = c1
    c2 = c2
    c3 = c3
    k1 = k1
    k2 = k2
    Callers <- MC_Callers
    KeyIDs <- MC_KeyIDs
    KeySets <- MC_KeySetsStatic
SPECIFICATION Spec
PROPERTY FetchOnlyOnMiss
