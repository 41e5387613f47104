SPECIFICATION FairSpec
CONSTANTS
    MaxOut = 2
    PipeSize = 2
    MaxToken = 3
    Timed = TRUE
INVARIANTS
    LinesAreLines
    OutputComplete
    AnswerIsWhole
    VerdictIsTrue
PROPERTIES
    TimeoutKills
    CallReturns
    PipesDrain
CHECK_DEADLOCK FALSE
