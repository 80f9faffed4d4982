SPECIFICATION Spec
CONSTANTS
    c1 = c1
    c2 = c2
    r1 = r1
    r2 = r2
    r3 = r3
    k1 = k1
    Conns = {c1, c2}
    Reqs = {r1, r2, r3}
    Offer <- Mix
    Keys = {k1}
    NoKey = NoKey
    NoConn = NoConn
    MaxRunning = 1
CHECK_DEADLOCK FALSE
INVARIANTS QueueServed ClosedIsClean GracefulExit
PROPERTIES SerialOrder RequestSettles CloseCompletes
