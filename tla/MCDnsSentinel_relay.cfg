SPECIFICATION FairSpec
CONSTANTS
    ip1 = ip1
    ip2 = ip2
    Names <- TwoNames
    Ips = {ip1, ip2}
    Fds = {3, 4}
    MaxPending = 2
    Timeout = 1
    CacheMax = 1
    CacheTtl = 1
    Feed <- BelowAndIp
    MaxQueries = 2
    MaxEdits = 1
    MaxLag = 3
INVARIANTS AnswersAreOwn CacheIsTrue BatchIsPending SweptInTime
PROPERTIES SubtreesFollow QueriesEnd
CHECK_DEADLOCK FALSE
