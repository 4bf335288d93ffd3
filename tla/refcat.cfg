\* Two servers; lines of three tokens, so that pieces of two straddle them.
CONSTANTS
    NServer = 2
    Streams <- MCStreams
    Rows = {"a", "b"}
    DarkRow = "dark"
    MaxLine = 3
    MaxPiece = 2
SPECIFICATION Spec
INVARIANTS LinesWhole FirstAnswerUsed
\* The call returns, or ends the process.
CHECK_DEADLOCK FALSE
