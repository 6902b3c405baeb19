SPECIFICATION Spec
CONSTANTS
    Outpoints = {o1, o2}
    Coins = {c1, c2}
    Spent = spent
    Blocks = {b1, b2}
    Null = null
    None = none
INVARIANTS FlagsMean NeverThrows
PROPERTIES ImplementsUtxoSet OperationsTakeEffect
