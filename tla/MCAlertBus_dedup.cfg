SPECIFICATION BusSpec
CONSTANTS
    e1 = e1
    e2 = e2
    k1 = k1
    k2 = k2
    Emitters = {e1, e2}
    Keys = {k1, k2}
    Severities = {0, 1, 2}
    MinSeverity = 1
    PopupMin = 2
    Dedup = 2
    PruneLimit = 2
    JournalMayFail = TRUE
    MaxClock = 3
    MaxEmits = 3
INVARIANTS DedupWindow DetectorOrder
CHECK_DEADLOCK FALSE
