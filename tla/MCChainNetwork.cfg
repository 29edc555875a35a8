SPECIFICATION Spec
CONSTANTS
    g = g
    a1 = a1
    a2 = a2
    a3 = a3
    b1 = b1
    b2 = b2
    b3 = b3
    b4 = b4
    c2 = c2
    NullHash = NullHash
    Genesis = g
    Blocks = {g, a1, a2, a3, b1, b2, b3, b4}
    Parent <- MCParent
    Height <- MCHeight
    Ancestors <- MCAncestors
    Work <- MCWork
    Addr <- MCAddr
    Headers = {g, a1, a2, a3, b1, b2, b3, b4}
    BadContext = {}
    BadConnect = {b3}
    MaxReorgDepth = 2
    ParkDeepReorg = TRUE
    AutomaticUnparking = TRUE
    FinalizeHeaders = TRUE
    Batch = 2
    Commands = {"finalize"}
    MaxCommands = 1
    Concurrent = TRUE
    MaxRestarts = 0
CHECK_DEADLOCK FALSE
INVARIANTS BlocksLinked TipIsBest
