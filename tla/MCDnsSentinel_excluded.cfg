SPECIFICATION FairSpec
CONSTANTS
    ip1 = ip1
    ip2 = ip2
    Names <- OneName
    Ips = {ip1}
    Fds = {3, 4}
    MaxPending = 2
    Timeout = 1
    CacheMax = 1
    CacheTtl = 2
    Feed = {ip1}
    MaxQueries = 1
    MaxEdits = 1
    MaxLag = 2
PROPERTY ExcludedNamesResolve
CHECK_DEADLOCK FALSE
