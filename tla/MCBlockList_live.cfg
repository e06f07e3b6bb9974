SPECIFICATION FairSpec
CONSTANTS
    ListingIds = {l1}
    SteamIds = {u1}
    Prices = {p}
    NoListing = NoListing
    Batches <- SingleBatches
    Requests = {r1, r2}
    Worker = Worker
    Nobody = Nobody
    PoolSize = 3
    Faults = {"db", "lost_ack", "cancel", "crash"}
PROPERTIES
    BatchesEnd
    RequestsEnd
