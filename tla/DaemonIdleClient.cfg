SPECIFICATION FairSpec
CONSTANTS
    Clients = {c1}
    Faults = {}
    Abandon = FALSE
    NULL = NULL
PROPERTIES SignalExits
CHECK_DEADLOCK FALSE
