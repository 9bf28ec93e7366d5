SPECIFICATION Spec
CONSTANTS
    Interval = 2
    Second = 2
    Starts <- Begins
    Lengths <- Sizes
    Windows <- Times
    MaxPieces = 4
    MaxCuts = 2
INVARIANTS TypeOK Drift
PROPERTIES NothingTwice NewDataOverrides WindowExact
