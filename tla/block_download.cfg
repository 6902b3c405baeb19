SPECIFICATION LiveSpec
CONSTANTS
    Peers = {"r", "s"}
    Reliable = {"r"}
    Outbound = {"r"}
    Blocks <- MCBlocks
    Genesis = "g"
    Parent <- MCParent
    Upto <- MCUpto
    None = None
    Left = Left
    Views <- MCViews
    Spends <- MCSpends
    BLOCK_DOWNLOAD_WINDOW = 2
    MAX_BLOCKS_IN_TRANSIT_PER_PEER = 2
    BLOCK_STALLING_TIMEOUT = 1
    HEADERS_DOWNLOAD_TIMEOUT = 1
    BLOCK_DOWNLOAD_TIMEOUT_BASE = 1
    BLOCK_DOWNLOAD_TIMEOUT_PER_PEER = 1
    DayHeight = 2
    FetchHeight = 2
INVARIANTS DownloadsSound AnsweringPeersStay
PROPERTIES ReachesReliable NoBlockHeldUp
