SPECIFICATION Spec
CONSTANTS
    d1 = d1
    d2 = d2
    sch = sch
    pcb = pcb
    x = x
    y = y
    c1 = c1
    c2 = c2
    Designs <- OneDesign
    Sessions <- TwoSessions
    Connections <- TwoConnections
    Cells <- TwoCells
    Values <- SomeValues
    Requests <- MixedRequests
    Bases <- FewBases
    DepthLimit = 2
    MaxRevision = 4
SYMMETRY Symmetry
INVARIANTS
    TypeOK
    AppliedAtMostOnce
    LogMatchesDocument
    NoLostUpdate
    HistoriesAreSound
CHECK_DEADLOCK FALSE
