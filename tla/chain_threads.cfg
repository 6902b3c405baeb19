SPECIFICATION LiveSpec
CONSTANTS
    Blocks = {0, 1, 2, 3, 4, 5, 6, 7}
    Genesis = 0
    pprev <- RivalsParent
    Anc <- RivalsAnc
    nHeight <- RivalsHeight
    nChainWork <- RivalsHeight
    BadBlock = {5}
    BadScripts = {4}
    BadConversion = {}
    Threads = {t1, t2}
    Calls = {}
    MIN_BLOCKS_TO_KEEP = 1
    nMinimumChainWork = 0
    ReverseSequenceIds = 2
INVARIANTS ActiveChainSound
PROPERTIES NewHeadersNotOnInvalid ActivationEnds
