SPECIFICATION Spec
CONSTANTS
    Procs = {p1}
    MaxOutput = 2
    Retained = 1
CHECK_DEADLOCK FALSE
INVARIANTS ReaderComplete
PROPERTIES FollowsHistory CloseIsPublished ReaderStops
