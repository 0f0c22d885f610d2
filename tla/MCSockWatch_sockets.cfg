SPECIFICATION SockSpec
CONSTANTS
    loud = loud
    quiet = quiet
    Pids = {1, 2}
    Inodes = {11, 12}
    Keys = {loud, quiet}
    Quiet = {quiet}
    MaxEvents = 4
INVARIANTS NewIsNew OwnerReported ListenersReported
CHECK_DEADLOCK FALSE
