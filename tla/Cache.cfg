SPECIFICATION Spec
SYMMETRY Symmetry
CONSTANTS
    d1 = d1
    d2 = d2
    FFDBs = {d1, d2}
    Setups <- Writers
    Queries = {q1, q2}
    Files = {f1}
    MaxRecords = 4
    MaxRows = 3
    MaxTime = 3
INVARIANTS TypeOK Coherent CopyInOrder
PROPERTIES EndIsComplete NoRowAgain
