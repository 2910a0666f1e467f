SPECIFICATION Spec
CONSTANTS
    Field <- TitleAndBody
    Texts <- TwoTexts
    NoText = NoText
    NoDraft = NoDraft
    Nothing = Nothing
    MaxEdits = 2
    MaxForeign = 1
    MaxFetches = 0
    MaxFailures = 0
    MaxRestarts = 2
    MaxDeletions = 0
    MaxTroubles = 3
INVARIANTS
    ChangedBaselineNeedsDecision
CHECK_DEADLOCK FALSE
