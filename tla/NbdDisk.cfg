SPECIFICATION FairSpec
CONSTANTS
    Handles = {h1, h2}
    Commands <- MCCommands
    Transfers <- MCTransfers
    Size = 2
    Vals = {0, 1, 2, 3}
    Junk = {3}
    PeerMemory <- MCPeerMemory
    MaxTransfers = 1
    Urma = "mock"
    AllocFails = TRUE
    CutAtPayload = FALSE
    NULL = NULL
PROPERTIES ImplementsDisk RequestsAnswered StopEndsServing
CHECK_DEADLOCK FALSE
