SPECIFICATION Spec
CONSTANTS
    a = a
    b = b
    Ips = {a, b}
    FeedIps = {}
    Curated = {a}
    Scanners = {}
    TtlIps = {}
    IoMayFail = FALSE
    NftMayFail = FALSE
INVARIANT UserFileHoldsUserEdits
