SPECIFICATION Spec
CONSTANTS
    Handles = {h1, h2}
    Commands <- MCFewCommands
    Transfers <- MCTransfers
    Size = 2
    Vals = {0, 1, 2, 3}
    Junk = {3}
    PeerMemory <- MCPeerMemory
    MaxTransfers = 0
    Urma = "mock"
    AllocFails = FALSE
    CutAtPayload = TRUE
    NULL = NULL
INVARIANTS ShortPayloadDisconnects
CHECK_DEADLOCK FALSE
