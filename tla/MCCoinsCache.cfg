\* Two outpoints with two coins of different size, one unspendable coin.
SPECIFICATION Spec
CONSTANTS
    c1 = c1
    c2 = c2
    cu = cu
    Outpoints = {o1, o2}
    Coins <- MCCoins
    Unspendable = {cu}
    Spent = Spent
    NoEntry = NoEntry
    MemoryOf <- MCMemory
    Blocks = {b1, b2}
    NullHash = NullHash
INVARIANTS FlagsSoundInv NeverMisapplied UsageExact
PROPERTIES ImplementsUtxoSet
