SPECIFICATION Spec
CONSTANTS
    Calls = {c1, c2}
    Ids = {root, t1, t2}
    RootId = root
    Stored = {}
    Paths = {p1}
    Root = Root
    Names = {n1}
    Pools = {{n1}}
    MaxThreads = 2
    MaxResets = 1
    Vacant = Vacant
    Reserved = Reserved
    NoPath = NoPath
    NoNick = NoNick
SYMMETRY Symmetric
INVARIANTS TypeOK LimitHeld NicknamesDistinct PathOwned
PROPERTIES PathNotStolen LeaksOnlyByOverwrite
