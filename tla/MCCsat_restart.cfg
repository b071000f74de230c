SPECIFICATION FairSpec
CONSTANTS
    LabelBot = bot
    LabelCSAT = csat
    Label = {csat, bot}
    Conv = {1}
    Thread = {w1, w2}
    ConvLockStripes = 1
    ClaimLimit = 1
    None = None
    MaxEvents = 1
    MaxLabelings = 1
    MaxFaults = 0
    MaxExpiries = 0
    MaxCrashes = 1
PROPERTIES TimeoutSurvivesRestart
