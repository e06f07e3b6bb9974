SPECIFICATION FairSystemSpec
CONSTANTS
    ListingIds = {l1}
    SteamIds = {u1}
    Bots = {u1}
    Mortal = {"processing", "refresh"}
    Prices = {p}
    NoListing = NoListing
    Batches <- SingleBatches
    Requests = {r1}
    Worker = Worker
    Nobody = Nobody
    PoolSize = 2
    Faults = {"db", "crash"}
INVARIANTS
    SystemTypeOK
PROPERTIES
    ImplementsBlockList
    BatchesEnd
    BlockedStayOutOfSight
    BlockedLeaveAnswers
    ViewsFollowTable
