SPECIFICATION Spec
CONSTANTS
    Files <- MCFiles
    Starts <- MCUnended
    Precise = 2000
    LineChunk = 2
    BezierChunk = 2
INVARIANTS IncludesStandInPlace
CHECK_DEADLOCK FALSE
