SPECIFICATION FairSpec
CONSTANTS
    QueueMax = 2
    FillMax = 2
    AutoClose = TRUE
    MaxAlerts = 2
    MaxStops = 0
PROPERTY DismissesItself
CHECK_DEADLOCK FALSE
