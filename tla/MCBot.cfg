SPECIFICATION Spec
CONSTANTS
    LabelBot = bot
    LabelCSAT = csat
    Label = {bot, csat, sales}
    Sectors = {}
    DefaultSectorLabel = sales
    Conv = {1}
    Thread = {w1, w2}
    ConvLockStripes = 1
    ClaimLimit = 1
    None = None
    MaxTriageTurns = 1
    MaxEvents = 3
    MaxLabelings = 1
    MaxFaults = 1
    MaxExpiries = 0
    MaxCrashes = 1
SYMMETRY ThreadSymmetry
INVARIANTS TypeOK OnePromptPerSurvey OneRatingPerSurvey OneOpeningPerTriage
    AskedBeforeRated DurableTimeout
PROPERTIES Implements NoEarlyClose
CHECK_DEADLOCK FALSE
