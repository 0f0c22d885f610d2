SPECIFICATION FairSpec
CONSTANTS
    LineMax = 4
    ReadMax = 2
    SockBuf = 3
    Size <- ShortLines
    MaxAlerts = 4
INVARIANTS
    OnlyLongLinesCut
    OnlyChangesRefused
CHECK_DEADLOCK FALSE
