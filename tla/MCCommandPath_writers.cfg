SPECIFICATION Spec
CONSTANTS
    d1 = d1
    sch = sch
    x = x
    c1 = c1
    c2 = c2
    place = place
    edit = edit
    undo = undo
    none = none
    Designs <- OneDesign
    Sessions <- OneSession
    Connections <- OneConnection
    Cells <- OneCell
    Values <- SomeValues
    Inputs <- EditAndUndo
    ActionOf <- Actions
    ExternalRequests <- OneWriter
    NoConnection = none
    DepthLimit = 2
    MaxRevision = 3
    MaxCommands = 3
INVARIANTS
    LaneTracksDesign
    UndoRevertsItsEdit
PROPERTIES
    EveryCommandSettles
CHECK_DEADLOCK FALSE
