SPECIFICATION Spec
CONSTANTS
    Interval = 2
    Second = 2
    Starts <- Begins
    Lengths <- Sizes
    Windows <- Times
    MaxPieces = 2
    MaxCuts = 1
INVARIANT NoOverlap
