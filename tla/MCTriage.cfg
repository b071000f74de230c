SPECIFICATION FairSpec
CONSTANTS
    LabelBot = bot
    LabelCSAT = csat
    Label = {bot, csat, sales}
    Sectors = {}
    DefaultSectorLabel = sales
    Conv = {1}
    Thread = {w1, w2}
    ConvLockStripes = 1
    None = None
    MaxTriageTurns = 2
    MaxEvents = 3
    MaxLabelings = 0
    MaxFaults = 1
    MaxExpiries = 1
    MaxCrashes = 1
CHECK_DEADLOCK FALSE
INVARIANTS TypeOK OneOpening TurnsBounded NoTurnLost RoutedMeansLabelled
PROPERTIES RoutedIsFinal JobsFinish
