SPECIFICATION Spec
CONSTANTS
    a = a
    b = b
    Ips = {a}
    FeedIps = {a}
    Curated = {}
    Scanners = {}
    TtlIps = {}
    IoMayFail = FALSE
    NftMayFail = FALSE
INVARIANTS
    NeverBothLive
    DenyFollowsLists
