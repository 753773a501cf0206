SPECIFICATION Spec
CONSTANTS
    N = 3
    T = {blank, x, y}
    ValueInit = blank
    Valid = {x, y}
    NoFile = NoFile
    NoInput = NoInput
    MaxFileLines = 4
    InitialFiles <- MCInitialFiles
INVARIANTS
    PositionInRange
    ShownIsReachable
    NoRepeatedNeighbours
    AppendRemembers
PROPERTIES
    LoadRestoresSave
