SPECIFICATION Spec
CONSTANTS
    d1 = d1
    d2 = d2
    FFDBs = {d1, d2}
    Setups <- Both
    Queries = {q1}
    Files = {f1}
    MaxRecords = 4
    MaxRows = 3
    MaxTime = 3
INVARIANT HitIsCurrent
