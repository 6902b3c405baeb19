SPECIFICATION Spec
CONSTANTS
    Blocks = {0, 1, 2, 3}
    Genesis = 0
    pprev <- CombParent
    Anc <- CombAnc
    nHeight <- CombHeight
    nChainWork <- CombHeight
    BadBlock = {}
    BadScripts = {2}
    BadConversion = {}
    Threads = {t1, t2}
    Calls = {"invalidateblock", "reconsiderblock", "reconsiderallblocks", "stop", "errors"}
    MIN_BLOCKS_TO_KEEP = 1
    nMinimumChainWork = 0
    ReverseSequenceIds = 2
INVARIANTS ConnectedAreValid LinkedChain
CHECK_DEADLOCK FALSE
