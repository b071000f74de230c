SPECIFICATION FairSpec
CONSTANTS
    LabelBot = csat
    LabelCSAT = csat
    Label = {csat}
    Conv = {1, 2}
    Thread = {w1, w2}
    ConvLockStripes = 1
    ClaimLimit = 1
    None = None
    MaxEvents = 2
    MaxLabelings = 2
    MaxFaults = 1
    MaxExpiries = 0
    MaxCrashes = 1
PROPERTIES DeadlineSettled SurveyEnds JobsFinish
