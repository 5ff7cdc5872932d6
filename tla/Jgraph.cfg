SPECIFICATION Spec
CONSTANTS
    Files <- MCFiles
    Starts <- MCStarts
    Precise = 2000
    LineChunk = 2
    BezierChunk = 2
INVARIANTS ReadAsWritten BoundingBoxHolds LabelsInTheirFonts LinesAreWhole AxesHoldThePoints
CHECK_DEADLOCK FALSE
