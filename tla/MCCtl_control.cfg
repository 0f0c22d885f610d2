SPECIFICATION FairSpec
CONSTANTS
    LineMax = 4
    ReadMax = 2
    SockBuf = 3
    Size <- ShortLines
    MaxAlerts = 4
INVARIANTS TypeOK LinesAreExact ExitTellsTruth FailureHasCause
PROPERTY CommandEnds
CHECK_DEADLOCK FALSE
