SPECIFICATION Spec
CONSTANTS
    Conv = {c1}
    None = None
    MaxCalls = 4
    MaxCrashes = 0
PROPERTIES FlushedByItsTimer
CHECK_DEADLOCK FALSE
