SPECIFICATION Spec
CONSTANTS
    Txs <- MCTxs
    Coinbases <- MCCoinbases
    Vin <- MCVin
    Fee <- MCFee
    LockHeight <- MCLockHeight
    Standard = {"o", "p", "c", "e", "f", "r"}
    Replaceable = {"c"}
    Blocks <- MCBlocks
    Genesis = "g"
    Parent <- MCParent
    Vtx <- MCVtx
    COINBASE_MATURITY = 2
    IncrementalRelayFee = 1
    MaxMempool = 3
    MaxDisconnected = 4
    Prioritised = {"o", "p", "c", "f"}
    FeeDelta = 2
INVARIANTS PoolChecked InputsReady DisconnectedReturn PoolBounded
