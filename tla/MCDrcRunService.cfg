SPECIFICATION Spec
CONSTANTS
    c1 = c1
    c2 = c2
    d1 = d1
    d2 = d2
    NoRun = none
    Callers <- TwoCallers
    Designs <- TwoDesigns
    MaxRevision = 2
INVARIANTS
    TypeOK
    RunsAreAccountedFor
    ReportIsFresh
    ReportsAreStored
PROPERTIES
    RowNeverGoesBack
    EveryCallerIsAnswered
CHECK_DEADLOCK FALSE
