SPECIFICATION Spec
CONSTANTS
    Calls = {c1, c2}
    Managed = {c1}
    Polls = {p}
    Ids = {i1, i2}
    MaxProcesses = 1
    Protected = 0
    Runtimes = 2
    None = None
CHECK_DEADLOCK FALSE
INVARIANTS EndOnce LiveIsReachable IdsDistinct
PROPERTIES EndsReported
