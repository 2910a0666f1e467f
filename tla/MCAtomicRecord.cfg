SPECIFICATION Spec
CONSTANTS
    t1 = t1
    t2 = t2
    v1 = v1
    Absent = absent
    Unreadable = unreadable
    Tokens <- TwoTokens
    Values <- OneValue
    Initially <- AnyFile
    MaxCalls = 3
    MaxFailures = 1
    MaxRestarts = 2
INVARIANTS
    AcknowledgedSurvives
PROPERTIES
    ReplacesOnlyWhatItNamed
    EveryCallSettles
CHECK_DEADLOCK FALSE
