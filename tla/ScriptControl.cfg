SPECIFICATION Spec
CONSTANTS
    Scripts <- MCScripts
    Times <- MCTimes
    MainFile = "main"
INVARIANTS TypeOK Balanced MeansWhatItSays
PROPERTY Terminates
CHECK_DEADLOCK FALSE
