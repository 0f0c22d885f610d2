SPECIFICATION Spec
CONSTANTS
    Pids = {1, 2, 3}
    Images = {"shell", "game"}
    Plain = "shell"
    Early = {"shell", "game"}
    Guarded = {"game"}
    Payload = {}
    Ignored = {}
    Temp = {}
    Elevators = {}
    Debuggers = {}
    Grace = 0
    KillOnDetect = FALSE
    MaxProcs = 9
    QueueMax = 4
    MaxEvents = 2
    MaxClock = 0
INVARIANT TreeUntrustedWithThreads
CHECK_DEADLOCK FALSE
