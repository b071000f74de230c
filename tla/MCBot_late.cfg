SPECIFICATION Spec
CONSTANTS
    LabelBot = bot
    LabelCSAT = csat
    Label = {bot, csat, sales}
    Sectors = {}
    DefaultSectorLabel = sales
    Conv = {1}
    Thread = {w1, w2}
    ConvLockStripes = 1
    ClaimLimit = 1
    None = None
    MaxTriageTurns = 1
    MaxEvents = 2
    MaxLabelings = 1
    MaxFaults = 0
    MaxExpiries = 0
    MaxCrashes = 0
PROPERTIES SurveyFollowsDiagram
CHECK_DEADLOCK FALSE
