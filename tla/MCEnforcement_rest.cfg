SPECIFICATION FairSpec
CONSTANTS
    a = a
    b = b
    Ips = {a}
    FeedIps = {}
    Curated = {a}
    Scanners = {a}
    TtlIps = {}
    IoMayFail = TRUE
    NftMayFail = TRUE
PROPERTY ComesToRest
