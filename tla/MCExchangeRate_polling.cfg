SPECIFICATION FairSpec
CONSTANTS
    Prices = {0, 65330, 65334}
    BuyPrices = {64000}
    Lengths = {0, 1, 3, 4}
    Snapshots <- AnswersWithSells
    Faults = {"api"}
INVARIANTS
    TypeOK
    RateIsLowestAgreed
PROPERTIES
    RateFollowsMarket
