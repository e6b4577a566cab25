SPECIFICATION Spec
CONSTANTS
    s1 = s1
    s2 = s2
    Sid <- WithLegacyRow
    Legacy <- LegacyRow
    Expiries <- SomeExpiries
    SessionTTL = 3
    SweepInterval = 2
    Persistent = TRUE
    DatabaseErrors = TRUE
    Tries <- TwoTries
    MaxTime = 12
INVARIANTS
    TypeOK
    NothingLingers
    ServedForTTL
    BadTokenNeverServed
CHECK_DEADLOCK FALSE
