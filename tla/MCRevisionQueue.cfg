SPECIFICATION Spec
CONSTANTS
    d1 = d1
    d2 = d2
    i1 = i1
    i2 = i2
    i3 = i3
    Designs <- TwoDesigns
    Inputs <- ThreeInputs
    Revisions <- SomeRevisions
    MaxCommands = 4
INVARIANTS
    NothingOvertakes
    CloseGuardIsComplete
PROPERTIES
    EveryEditAccountedFor
CHECK_DEADLOCK FALSE
