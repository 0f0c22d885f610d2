SPECIFICATION FairSpec
CONSTANTS
    etc = etc
    autostart = autostart
    ssh = ssh
    home = home
    Targets <- UserTargets
    Kind <- UserKinds
    Names = {"temp", "rc"}
    QueueMax = 2
    BatchMax = 1
    MaxDirs = 2
    MaxChanges = 3
INVARIANT AlertsAreTrue
PROPERTIES ToldInTheEnd StopEnds
CHECK_DEADLOCK FALSE
