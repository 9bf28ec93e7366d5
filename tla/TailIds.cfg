SPECIFICATION Spec
CONSTANTS
    p1 = p1
    p2 = p2
    arid = arid
    orid = orid
    Procs = {p1, p2}
    Tables = {t1}
    Keys = {arid, orid}
    Increments = {1, 3}
    Sizes = {1, 2}
    Junk = {0}
    NoProc = NoProc
    Setups <- TailSetups
PROPERTIES ConsecutiveIds
