SPECIFICATION Spec
CONSTANTS
    Pids = {1, 2, 3}
    Images = {"shell", "game", "bash", "tmp"}
    Plain = "shell"
    Early = {"shell", "game"}
    Guarded = {"game"}
    Payload = {"bash"}
    Ignored = {"shell"}
    Temp = {"tmp"}
    Elevators = {"bash"}
    Debuggers = {"shell"}
    Grace = 1
    KillOnDetect = TRUE
    MaxProcs = 2
    QueueMax = 2
    MaxEvents = 3
    MaxClock = 1
INVARIANTS TreeUntrusted OffencesReported KillsOffenders RootsWereGuarded
CHECK_DEADLOCK FALSE
