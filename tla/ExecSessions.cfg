SPECIFICATION SessionsSpec
CONSTANTS
    Conns = {1, 2, 3}
    Sessions = {s1}
    None = None
    Timer = Timer
CHECK_DEADLOCK FALSE
INVARIANTS HolderKeepsSession SenderIsCurrent
PROPERTIES DetachedIsReaped
