SPECIFICATION FairSpec
CONSTANTS
    alice = alice
    bob = bob
    sales = sales
    ops = ops
    Sub <- Subjects
    Tab <- Tables
    Contents <- ValidFiles
    EditKinds = {"delete"}
    MaxEdits = 2
    EarlyEdits = FALSE
PROPERTIES
    RemoveIsSurvived
CHECK_DEADLOCK FALSE
