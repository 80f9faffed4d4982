SPECIFICATION Spec
CONSTANTS
    Requests = {r1, r2}
    Hosts = {h}
    Calls = {c1, c2}
    None = None
CHECK_DEADLOCK FALSE
INVARIANTS OneQuestion GuessOnlyWhenLate DenialIsReported
PROPERTIES WaitersServed
