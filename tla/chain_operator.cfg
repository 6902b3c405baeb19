SPECIFICATION Spec
CONSTANTS
    Blocks = {0, 1, 2, 3, 4}
    Genesis = 0
    pprev <- BranchesParent
    Anc <- BranchesAnc
    nHeight <- BranchesHeight
    nChainWork <- BranchesHeight
    BadBlock = {}
    BadScripts = {}
    BadConversion = {4}
    Threads = {t1}
    Calls = {"preciousblock"}
    MIN_BLOCKS_TO_KEEP = 1
    nMinimumChainWork = 0
    ReverseSequenceIds = 4
INVARIANTS TypeOK ActiveChainSound CheckBlockIndex
PROPERTIES BestChainActivated
