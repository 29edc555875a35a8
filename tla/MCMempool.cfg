CONSTANTS
    NullHash = NullHash
    Genesis = "g"
    Blocks <- MCBlocks
    Parent <- MCParent
    Height <- MCHeight
    Ancestors <- MCAncestors
    Txs <- MCTxs
    Inputs <- MCInputs
    Size <- MCSize
    CoinBases = {"k"}
    BlockTxs <- MCBlockTxs
    Final <- MCFinal
    Allowed <- MCAllowed
    Upgrades = {"a2", "b2"}
    COINBASE_MATURITY = 2
    LimitAncestorSize = 4165
    LimitDescendantSize = 4500
    SizeLimit = 4500
    Expiring = {"s"}
    MAX_DISCONNECTED_TX_POOL_SIZE = 13500
    Orders <- MCOrders
SPECIFICATION Spec
INVARIANTS LinksAndSums PoolStillValid QueueRight
PROPERTY Reinstated
