SPECIFICATION Spec
CONSTANTS
    Grid = 2
    Kinds <- MCKinds
    Size = 2
    Values = {v1, v2}
    Default = v1
    Nothing = Nothing
INVARIANTS TypeOK Sorted Bounded NoOverlapOrGap ReadYourWrite LibraryHasStoredDatum
PROPERTY NoSilentLoss
CHECK_DEADLOCK FALSE
