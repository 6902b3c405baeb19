SPECIFICATION Spec
CONSTANTS
    COIN = 2
    Blocks <- MCBlocks
    Base = "base"
    Parent <- MCParent
    Upto <- MCUpto
    Contents <- MCContents
    Infos <- MCInfos
    Nicks = {"m", "n"}
    Addresses = {"x", "y"}
    None = None
    MaxStops = 2
INVARIANTS RegistryOfChain NamesHeld StoredRight
PROPERTIES NamesNotTaken RefusedForCause
CHECK_DEADLOCK FALSE
