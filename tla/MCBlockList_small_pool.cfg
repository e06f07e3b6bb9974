SPECIFICATION FairSpec
CONSTANTS
    ListingIds = {l1}
    SteamIds = {u1}
    Prices = {p}
    NoListing = NoListing
    Batches <- SingleBatches
    Requests = {r1, r2}
    Worker = Worker
    Nobody = Nobody
    PoolSize = 2
    Faults = {}
PROPERTIES
    BatchesEnd
\* The system really stops here: that is what the run shows.
CHECK_DEADLOCK FALSE
