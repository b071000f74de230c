SPECIFICATION Spec
CONSTANTS
    LabelBot = bot
    LabelCSAT = csat
    Label = {csat, bot}
    Conv = {1}
    Thread = {w1, w2}
    ConvLockStripes = 2
    ClaimLimit = 1
    None = None
    MaxEvents = 4
    MaxLabelings = 1
    MaxFaults = 1
    MaxExpiries = 1
    MaxCrashes = 1
SYMMETRY ThreadSymmetry
INVARIANTS TypeOK OnePrompt OneRating EndedMeansResolved
PROPERTIES EndedIsFinal
