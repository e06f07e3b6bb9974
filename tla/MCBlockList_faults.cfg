SPECIFICATION Spec
CONSTANTS
    ListingIds = {l1, l2}
    SteamIds = {u1, u2}
    Prices = {p}
    NoListing = NoListing
    Batches <- SingleBatches
    Requests = {r1, r2}
    Worker = Worker
    Nobody = Nobody
    PoolSize = 2
    Faults = {"db", "lost_ack", "cancel", "crash"}
SYMMETRY Symmetry
INVARIANTS
    TypeOK
    VerdictStillValid
PROPERTIES
    BlockStaysInForce
    SuccessLeavesNoListing
