SPECIFICATION Spec
CONSTANTS
    Field <- TitleAndBody
    Texts <- TwoTexts
    NoText = NoText
    NoDraft = NoDraft
    Nothing = Nothing
    MaxEdits = 1
    MaxForeign = 0
    MaxFetches = 0
    MaxFailures = 1
    MaxRestarts = 0
    MaxDeletions = 0
    MaxTroubles = 1
INVARIANTS
    FailedWritePreventsClose
CHECK_DEADLOCK FALSE
