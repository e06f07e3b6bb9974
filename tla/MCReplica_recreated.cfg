SPECIFICATION Spec
CONSTANTS
    ListingIds = {l1}
    SteamIds = {u1}
    Values = {v1}
    Prices <- MCPrices
    NoListing = NoListing
    Ttl = 1
    Messages <- Recreations
    MaxQueue = 1
    Faults = {}
INVARIANTS
    HeardIsApplied
