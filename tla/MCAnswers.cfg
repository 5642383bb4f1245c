SPECIFICATION AnswersSpec
CONSTANTS
    MaxHour = 3
    trendHours = 2
    Category <- MCCategory
    Digests <- MCDigests
    IdOrders <- MCIdOrders
    Tradables <- MCTradables
    Base = 2
    PairOrders <- MCPairOrders
    defaultRatesLimit = 2
    HalfRange = 4
    MaxIngests = 3
INVARIANTS
    HoursAreCurrent
    RatesArePresent
    AnswersCoherent
    ShownFaithfully
PROPERTIES
    ReadsMatchDigests
