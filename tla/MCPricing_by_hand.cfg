SPECIFICATION Spec
CONSTANTS
    h1 = h1
    h2 = h2
    k1 = k1
    k2 = k2
    Hat = Hat
    Key = Key
    ListingIds = {h1}
    Items = {Hat, Key}
    Events <- ByHand
    Rates = {50, 60}
    NoListing = NoListing
    Hour = 1
    Times = {1}
INVARIANTS
    OnlyBotListings
