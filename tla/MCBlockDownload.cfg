SPECIFICATION Spec
CONSTANTS
    g = g
    a1 = a1
    a2 = a2
    a3 = a3
    b1 = b1
    good = good
    late = late
    Blocks = {g, a1, a2, a3, b1}
    Genesis = g
    NullHash = NullHash
    Height <- MCHeight
    Parent <- MCParent
    Ancestors <- MCAncestors
    Peers = {good, late}
    NoPeer = NoPeer
    Faulty = {late}
    Holds <- MCHolds
    Announces <- MCAnnounces
    MAX_BLOCKS_IN_TRANSIT_PER_PEER = 2
    BLOCK_DOWNLOAD_WINDOW = 1
    MaxConnections = 1
INVARIANTS
    InFlightAgree
    InFlightIsAsked
    StallerIsBehind
    NeverStuck
CHECK_DEADLOCK FALSE
