SPECIFICATION FailSpec
CONSTANTS
    Blocks <- PairBlocks
    pprev <- Pairpprev
    Anc <- PairAnc
    Outpoints = {"c"}
    Created <- PairCreated
    SpentBy <- PairSpentBy
    Utxo <- PairUtxo
    Genesis = "g"
    None = None
    Clean = Clean
    MaxFile = 0
INVARIANTS MarkedConsistent
