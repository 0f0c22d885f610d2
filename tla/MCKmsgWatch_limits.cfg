SPECIFICATION Spec
CONSTANTS
    s1 = s1
    s2 = s2
    p1 = p1
    p2 = p2
    p3 = p3
    Srcs = {s1, s2}
    Ports = {p1, p2, p3}
    Window = 1
    Threshold = 2
    ProbeAlert = 3
    TableMax = 1
    RingMax = 2
    MaxClock = 4
    MaxPackets = 4
SYMMETRY Symmetry
INVARIANTS
    TableBounded
    ThresholdIsCaught
CHECK_DEADLOCK FALSE
