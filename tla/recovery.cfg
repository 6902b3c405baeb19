SPECIFICATION LiveSpec
CONSTANTS
    Blocks <- ForkBlocks
    pprev <- Forkpprev
    Anc <- ForkAnc
    Outpoints <- ForkOutpoints
    Created <- ForkCreated
    SpentBy <- ForkSpentBy
    Utxo <- ForkUtxo
    Genesis = "g"
    None = None
    Clean = Clean
    MaxFile = 1
INVARIANTS DatabaseConsistent CacheShowsTip HeadsMatch BlocksFound
PROPERTIES Recovers
