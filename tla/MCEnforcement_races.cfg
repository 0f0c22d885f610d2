SPECIFICATION Spec
CONSTANTS
    a = a
    b = b
    Ips = {a, b}
    FeedIps = {a}
    Curated = {}
    Scanners = {a}
    TtlIps = {a}
    IoMayFail = FALSE
    NftMayFail = FALSE
INVARIANTS TypeOK ExclusionEnforced BlockEnforced UnblockEffective
PROPERTY UserStoreSpec
