SPECIFICATION Spec
CONSTANTS
    Blocks = {0, 1, 2, 3, 4, 5}
    Genesis = 0
    pprev <- RaceParent
    Anc <- RaceAnc
    nHeight <- RaceHeight
    nChainWork <- RaceHeight
    BadBlock = {}
    BadScripts = {}
    BadConversion = {}
    Threads = {t1, t2}
    Calls = {}
    MIN_BLOCKS_TO_KEEP = 1
    nMinimumChainWork = 0
    ReverseSequenceIds = 2
PROPERTIES BestChainActivated
