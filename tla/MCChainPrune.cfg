\* Pruning of a file while the process may be killed.
SPECIFICATION Spec
CONSTANTS
    g = g
    a1 = a1
    a2 = a2
    b1 = b1
    b2 = b2
    x = x
    y = y
    z = z
    Blocks = {g, a1, a2, b1, b2}
    Genesis = g
    NullHash = NullHash
    Parent <- MCParent
    Height <- MCHeight
    Ancestors <- MCAncestors
    Outpoints = {x, y, z}
    Coins <- MCCoins
    Unspendable = {}
    Spent = Spent
    NoEntry = NoEntry
    MemoryOf <- MCMemory
    Inputs <- MCInputs
    Outputs <- MCOutputs
    Coinbase = {x}
    Utxo <- MCUtxo
    MaxFile = 1
    PruneMode = TRUE
    KeepBlocks = 1
    PowerLoss = FALSE
    MaxUnsynced = 0
    MaxCrashes = 1
INVARIANT FlagsHonest
CHECK_DEADLOCK FALSE
