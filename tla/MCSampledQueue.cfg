SPECIFICATION Spec
CONSTANTS
    Grid = 4
    Step = 25
    Jitter = 1
    Size = 3
    MaxSamples = 7
    Values = {v1, v2}
    Default = v1
    Exit = Exit
INVARIANTS TypeOK HoldsWindow
PROPERTY ImplementsSignal
CHECK_DEADLOCK FALSE
