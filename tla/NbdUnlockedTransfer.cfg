SPECIFICATION Spec
CONSTANTS
    Handles = {h1, h2}
    Commands <- MCFewCommands
    Transfers <- MCTransfers
    Size = 2
    Vals = {0, 1, 2, 3}
    Junk = {3}
    PeerMemory <- MCPeerMemory
    MaxTransfers = 1
    Urma = "real"
    AllocFails = FALSE
    CutAtPayload = FALSE
    NULL = NULL
INVARIANTS OverlapSerialized
CHECK_DEADLOCK FALSE
