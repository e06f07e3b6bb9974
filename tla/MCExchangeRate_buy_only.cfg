SPECIFICATION Spec
CONSTANTS
    Prices = {65330, 65440}
    BuyPrices = {64000}
    Lengths = {}
    Snapshots <- AnswersWithoutSells
    Faults = {"api"}
INVARIANTS
    RateIsLowestAgreed
