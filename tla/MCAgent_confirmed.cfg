SPECIFICATION FairSpec
CONSTANTS
    QueueMax = 2
    FillMax = 2
    AutoClose = TRUE
    MaxAlerts = 2
    MaxStops = 1
INVARIANT ConfirmedIsRequested
CHECK_DEADLOCK FALSE
