SPECIFICATION Spec
CONSTANTS
    g = g
    a1 = a1
    a2 = a2
    b1 = b1
    b2 = b2
    t = t
    u = u
    NullHash = NullHash
    NoBlock = NoBlock
    Genesis = g
    Blocks = {g, a1, a2, b1, b2}
    Parent <- MCParent
    Height <- MCHeight
    Ancestors <- MCAncestors
    Txs = {t, u}
    TxsOf <- MCTxsOf
    MaxChainSteps = 4
    MaxRestarts = 1
    CrashAt = {"off", "init", "top", "time", "synced", "done"}
    InterruptEarly = FALSE
CHECK_DEADLOCK FALSE
INVARIANTS IndexComplete CaughtUp CallersSeeTip
PROPERTY GetsInSync
