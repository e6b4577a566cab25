SPECIFICATION MainFairSpec
CONSTANTS
    alice = alice
    bob = bob
    sales = sales
    ops = ops
    quack_permissions = quack_permissions
    Sub <- Subjects
    Tab <- Tables
    Contents <- AllFiles
    EditKinds = {"write", "swap"}
    MaxEdits = 2
    EarlyEdits = FALSE
    Views <- SomeViews
    Internal <- OneInternal
    Persistent = TRUE
    DatabaseErrors = TRUE
    QuietBoot = TRUE
    MaxRestarts = 1
INVARIANTS
    MainTypeOK
    SettledServesFile
    ServesWholeFile
    NoSyncAfterExit
PROPERTIES
    EventuallyServesFile
CHECK_DEADLOCK FALSE
