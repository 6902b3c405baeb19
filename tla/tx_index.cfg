SPECIFICATION LiveSpec
CONSTANTS
    Blocks <- ForkBlocks
    pprev <- Forkpprev
    Anc <- ForkAnc
    Genesis = "g"
    None = None
    MaxPending = 1
    MaxMissed = 1
INVARIANTS ClaimsCovered CaughtUp
PROPERTIES PromiseKept CatchesUp ReaderReturns
