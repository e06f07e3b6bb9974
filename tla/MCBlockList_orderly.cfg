SPECIFICATION OrderlySpec
CONSTANTS
    ListingIds = {l1, l2}
    SteamIds = {u1, u2}
    Prices = {p}
    NoListing = NoListing
    Batches <- ShortBatches
    Requests = {r1, r2}
    Worker = Worker
    Nobody = Nobody
    PoolSize = 2
    Faults = {"db", "crash"}
SYMMETRY Symmetry
INVARIANTS
    UpsertHasOneRowPerId
    BlockedUsersHaveNoListing
    CopyAgreesAtRest
PROPERTIES
    ImplementsPolicy
