SPECIFICATION Spec
CONSTANTS
    east = east
    north = north
    beam = beam
    pasted = pasted
    Waveforms = {east, north, beam, pasted}
    East = east
    North = north
    Spare = pasted
    Derived = {beam}
    Absent = Absent
    Bands = {1, 2}
    MaxCuts = 2
    Setups <- Displays
INVARIANTS TypeOK HistoryTellsData OwnData RotateFirst Recoverable CutUndone
PROPERTIES UndoneIsGone
