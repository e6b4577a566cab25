SPECIFICATION Spec
SYMMETRY CallersAlike
CONSTANTS
    k1 = k1
    k2 = k2
    Caller = {t1, t2}
    Kid = {k1, k2}
    KeySets <- Rotation
    Refresh = 2
    FetchTimeout = 1
    MaxTime = 4
INVARIANTS
    TypeOK
    AnsweredAfterQueue
PROPERTIES
    KeyIsRecent
    NoRedundantFetch
