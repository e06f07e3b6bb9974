SPECIFICATION FairSpec
CONSTANTS
    ListingIds = {l1, l2}
    SteamIds = {u1}
    Values = {v1}
    Prices <- MCPrices
    NoListing = NoListing
    Ttl = 0
    Messages <- SoberMessages
    MaxQueue = 1
    Faults = {"db", "link", "garbage", "crash"}
INVARIANTS
    TypeOK
    HeardIsApplied
PROPERTIES
    GoneListingsGo
