SPECIFICATION Spec
CONSTANTS
    Field <- TitleAndBody
    Texts <- TwoTexts
    NoText = NoText
    NoDraft = NoDraft
    Nothing = Nothing
    MaxEdits = 2
    MaxForeign = 1
    MaxFetches = 1
    MaxFailures = 1
    MaxRestarts = 1
    MaxDeletions = 1
    MaxTroubles = 2
INVARIANTS
    TypeOK
    SafeToCloseKeepsDraft
    NoLostUpdate
PROPERTIES
    TypedTextStays
    DraftsSettle
CHECK_DEADLOCK FALSE
