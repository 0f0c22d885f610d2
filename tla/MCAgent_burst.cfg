SPECIFICATION FairSpec
CONSTANTS
    QueueMax = 2
    FillMax = 2
    AutoClose = TRUE
    MaxAlerts = 4
    MaxStops = 1
INVARIANTS BurstKeepsNewest ExclusionsInOrder
PROPERTIES Reconnects QueueMoves
CHECK_DEADLOCK FALSE
