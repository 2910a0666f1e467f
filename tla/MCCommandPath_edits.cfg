SPECIFICATION Spec
CONSTANTS
    d1 = d1
    sch = sch
    x = x
    c1 = c1
    c2 = c2
    place = place
    edit = edit
    undo = undo
    none = none
    Designs <- OneDesign
    Sessions <- OneSession
    Connections <- TwoConnections
    Cells <- OneCell
    Values <- SomeValues
    Inputs <- PlaceEditUndo
    ActionOf <- Actions
    ExternalRequests <- NobodyElse
    NoConnection = none
    DepthLimit = 2
    MaxRevision = 3
    MaxCommands = 3
SYMMETRY Symmetry
INVARIANTS
    TypeOK
    ActionsTakeEffectOnce
    ReviewedEditsAreUnapplied
    EditsLandInOrder
CHECK_DEADLOCK FALSE
