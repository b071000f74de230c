SPECIFICATION Spec
CONSTANTS
    LabelBot = bot
    LabelCSAT = csat
    Label = {bot, csat, sales}
    Sectors = {}
    DefaultSectorLabel = sales
    Conv = {1}
    Thread = {w1, w2}
    ConvLockStripes = 1
    None = None
    MaxTriageTurns = 2
    MaxEvents = 1
    MaxLabelings = 2
    MaxFaults = 0
    MaxExpiries = 0
    MaxCrashes = 0
CHECK_DEADLOCK FALSE
PROPERTIES RoutingKeepsLabels
