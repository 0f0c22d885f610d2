SPECIFICATION FairSpec
CONSTANTS
    p1 = p1
    p2 = p2
    Peers = {p1, p2}
    Fds = {1, 2}
    MaxClients = 2
    OutboxMax = 0
    PendingMax = 0
    SockBuf = 1
    MaxAlerts = 2
    InMax = 1
    Script <- Talkative
INVARIANTS TypeOK StreamIsExact OutboxKeepsNewest CutForCause
PROPERTY AlertsArrive
CHECK_DEADLOCK FALSE
