SPECIFICATION Spec
CONSTANTS
    snap1 = snap1
    snap2 = snap2
    NoDraft = nodraft
    Nothing = nothing
    Drafts <- TwoDrafts
    MaxSets = 4
    MaxFailures = 3
    MaxRestarts = 2
PROPERTIES
    JournalIsRegister
    DraftsAreRetained
CHECK_DEADLOCK FALSE
