SPECIFICATION Spec
CONSTANTS
    Procs = {p1, p2}
    Files = 4
    BatchSize = 2
    MaxErrors = 2
CHECK_DEADLOCK FALSE
INVARIANTS WatermarkIsSafe ReadyIsIndexed
PROPERTIES StartReturns
