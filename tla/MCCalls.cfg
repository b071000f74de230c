SPECIFICATION FairSpec
CONSTANTS
    LabelBot = bot
    LabelCSAT = csat
    Label = {bot, csat}
    MaxRetry = 1
    Said <- MCSaid
    Lists <- MCLists
    Contents <- MCContents
    None = None
    MaxCalls = 2
    MaxFaults = 2
INVARIANTS TypeOK NoNeedlessRepeat RatingIsIsolated ListsAreSets
INVARIANTS ObjectIsFound CostIsOfResults
PROPERTIES Implements CallReturns
CHECK_DEADLOCK FALSE
