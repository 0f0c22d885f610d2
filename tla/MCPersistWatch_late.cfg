SPECIFICATION FairSpec
CONSTANTS
    etc = etc
    autostart = autostart
    ssh = ssh
    home = home
    Targets <- UserTargets
    Kind <- UserKinds
    Names = {"rc"}
    QueueMax = 2
    BatchMax = 1
    MaxDirs = 2
    MaxChanges = 1
INVARIANT PlacesAreCovered
CHECK_DEADLOCK FALSE
