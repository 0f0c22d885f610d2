SPECIFICATION FairSpec
CONSTANTS
    a = a
    b = b
    Ips = {a}
    FeedIps = {}
    Curated = {}
    Scanners = {}
    TtlIps = {a}
    IoMayFail = FALSE
    NftMayFail = FALSE
PROPERTY TimedBlockEnds
