SPECIFICATION FairSpec
CONSTANTS
    e1 = e1
    c1 = c1
    Clients = {e1, c1}
    Examples = {e1}
    Ids = {e1}
    CtlRequests <- MCCtlRequests
    Slots = {1, 2}
    MaxRuns = 1
    Kills = TRUE
    NULL = NULL
INVARIANTS TypeOK EndpointComplete
PROPERTIES ImplementsService ConnectionsEnd
CHECK_DEADLOCK FALSE
