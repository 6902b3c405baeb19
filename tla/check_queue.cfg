SPECIFICATION LiveSpec
CONSTANTS
    Checks = {c1, c2, c3, c4}
    Bad = {c4}
    Workers = {w1, w2}
    master = m
    nBatchSize = 2
INVARIANTS CountersExact AllOkExact
PROPERTIES WaitExact WaitReturns
