SPECIFICATION Spec
CONSTANTS
    Barriers = {b1, b2}
    MaxItems = 3
    MaxFaults = 3
    MaxRestarts = 1
CHECK_DEADLOCK FALSE
INVARIANTS LostOnlyBehindFragment
PROPERTIES WritesLog BarrierReturns
