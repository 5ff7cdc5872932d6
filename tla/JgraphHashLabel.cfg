SPECIFICATION Spec
CONSTANTS
    Files <- MCFiles
    Starts <- MCStarts
    Precise = 2000
    LineChunk = 2
    BezierChunk = 2
PROPERTIES HashLabelsAtTheLatest
CHECK_DEADLOCK FALSE
