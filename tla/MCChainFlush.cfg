\* A node that aborted stops.
\* The power may fail twice, so also during the replay of the first failure.
SPECIFICATION Spec
CONSTANTS
    g = g
    a1 = a1
    a2 = a2
    b1 = b1
    b2 = b2
    x = x
    y = y
    z = z
    Blocks = {g, a1, b1, b2}
    Genesis = g
    NullHash = NullHash
    Parent <- MCParent
    Height <- MCHeight
    Ancestors <- MCAncestors
    Outpoints = {x, y, z}
    Coins <- MCCoins
    Unspendable = {}
    Spent = Spent
    NoEntry = NoEntry
    MemoryOf <- MCMemory
    Inputs <- MCInputs
    Outputs <- MCOutputs
    Coinbase = {x}
    Utxo <- MCUtxo
    MaxFile = 0
    PruneMode = FALSE
    KeepBlocks = 1
    PowerLoss = TRUE
    MaxUnsynced = 2
    MaxCrashes = 2
CHECK_DEADLOCK FALSE
INVARIANTS CoinsOfBest TipCoinsExact IndexBeforeCoins NeverAborts
PROPERTIES Recovers
