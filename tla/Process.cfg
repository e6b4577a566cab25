SPECIFICATION ProcFairSpec
CONSTANTS
    k1 = k1
    k2 = k2
    Kid = {k1, k2}
    Request = {r1}
    Visitor = {v1}
    Failures = TRUE
    MaxStarts = 1
    Environments <- SomeEnvironments
    Settings <- SomeSettings
INVARIANTS
    ProcTypeOK
    ServesReady
    StopCleansUp
    RunsWithKeys
    LeavesNothingBehind
    ExitCodeTells
PROPERTIES
    ExitsEventually
    CredentialsRenewed
CHECK_DEADLOCK FALSE
