SPECIFICATION Spec
CONSTANTS
    MaxRuns = 2
    MaxRevision = 2
    MaxPolls = 2
    MaxStarts = 2
    MaxCancels = 1
    MaxOpens = 1
    MaxHydrations = 1
    MaxClicks = 3
INVARIANTS
    TypeOK
    ReportIsOfRun
    CancelledByBackend
PROPERTIES
    ShownRunEnds
CHECK_DEADLOCK FALSE
