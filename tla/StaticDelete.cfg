SPECIFICATION FairSpec
CONSTANTS
    DBs <- StaticDBs
    Vectors = {v1}
    NoVector = NoVector
    Limits = {1, 2}
PROPERTY AnyDeleteReturns
CHECK_DEADLOCK FALSE
