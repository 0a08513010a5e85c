SPECIFICATION PoliteSpec
CONSTANTS
    Clients = {c1, c2}
    Faults = {"backend", "urma", "ctrl_socket", "ctrl_path", "ctrl_thread", "nbd"}
    Abandon = TRUE
    NULL = NULL
INVARIANTS UsersBeforeResources NothingLeftAtExit
PROPERTIES SignalExits RequestsServed
CHECK_DEADLOCK FALSE
