SPECIFICATION MainSpec
CONSTANTS
    alice = alice
    bob = bob
    sales = sales
    ops = ops
    quack_permissions = quack_permissions
    Sub <- Subjects
    Tab <- Tables
    Contents <- AllFiles
    EditKinds = {"swap"}
    MaxEdits = 1
    EarlyEdits = FALSE
    Views <- SomeViews
    Internal <- OneInternal
    Persistent = FALSE
    DatabaseErrors = FALSE
    QuietBoot = FALSE
    MaxRestarts = 0
INVARIANTS
    ServesWholeFile
CHECK_DEADLOCK FALSE
