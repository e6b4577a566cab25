SPECIFICATION PlaneSpec
SYMMETRY Alike
CONSTANTS
    c1 = c1
    k1 = k1
    k2 = k2
    duck = duck
    other = other
    idp = idp
    alice = alice
    Sid <- OneConnection
    SessionTTL = 1
    SweepInterval = 2
    Tries = {t1, t2}
    MaxTime = 3
    Caller <- Requests
    Kid <- Kids
    KeySets <- Rotation
    Refresh = 1
    FetchTimeout = 1
    Tokens <- SomeTokens
    Audience = {duck}
    Issuer = {idp}
INVARIANTS
    RetiredKeyIsCutOff
PROPERTIES
    ImplementsSessions
CHECK_DEADLOCK FALSE
