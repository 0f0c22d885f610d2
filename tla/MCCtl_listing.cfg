SPECIFICATION FairSpec
CONSTANTS
    LineMax = 4
    ReadMax = 2
    SockBuf = 3
    Size <- LongListing
    MaxAlerts = 4
INVARIANT ListingIsRead
CHECK_DEADLOCK FALSE
