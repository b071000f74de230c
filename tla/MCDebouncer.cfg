SPECIFICATION FairSpec
CONSTANTS
    Conv = {c1}
    None = None
    MaxCalls = 6
    MaxCrashes = 1
INVARIANTS TypeOK FlushedByLastCall NothingLost
PROPERTIES Implements ImplementsFairly
CHECK_DEADLOCK FALSE
