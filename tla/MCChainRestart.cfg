SPECIFICATION LiveSpec
CONSTANTS
    g = g
    a1 = a1
    a2 = a2
    a3 = a3
    b1 = b1
    b2 = b2
    b3 = b3
    b4 = b4
    c2 = c2
    NullHash = NullHash
    Genesis = g
    Blocks = {g, a1, a2, b1, b2, b3}
    Parent <- MCParent
    Height <- MCHeight
    Ancestors <- MCAncestors
    Work <- MCWorkHalf
    Addr <- MCAddr
    Headers = {g, a1, a2, b1, b2}
    BadContext = {}
    BadConnect = {b2}
    MaxReorgDepth = 2
    ParkDeepReorg = TRUE
    AutomaticUnparking = TRUE
    FinalizeHeaders = TRUE
    Batch = 2
    Commands = {}
    MaxCommands = 0
    Concurrent = FALSE
    MaxRestarts = 1
CHECK_DEADLOCK FALSE
INVARIANTS CandidatesRight
PROPERTIES DeepReorgNeedsWork ForwardProgress Settles
