SPECIFICATION FairSpec
CONSTANTS
    alice = alice
    bob = bob
    sales = sales
    ops = ops
    Sub <- Subjects
    Tab <- Tables
    Contents <- AllFiles
    EditKinds = {"write", "swap", "delete"}
    MaxEdits = 3
    EarlyEdits = TRUE
INVARIANTS
    TypeOK
    NeverDeaf
    StaleOnlyIfLost
PROPERTIES
    EventuallyFollowsFile
CHECK_DEADLOCK FALSE
