SPECIFICATION FairSpec
CONSTANTS
    DBs <- AllDBs
    Vectors = {v1}
    NoVector = NoVector
    Limits = {1, 2}
INVARIANTS TypeOK Exclusive PostsMatch BatchBound InOrder NoRowLost
PROPERTIES CallReturns DeleteReturns StreamSpec
CHECK_DEADLOCK FALSE
