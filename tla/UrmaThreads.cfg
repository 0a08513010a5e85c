\* Three threads share the manager, as tests/test_urma_queue.c does, and fill a
\* ring and a table of two.
CONSTANTS
    c1 = c1  c2 = c2  c3 = c3  h1 = h1  h2 = h2  h3 = h3
    NULL = NULL
    Callers = {c1, c2, c3}
    Handles = {h1, h2, h3}
    PeerIds = {1, 2}
    Segments <- OneSegment
    Xfers <- OneXfer
    MaxPeers = 2
    QueueDepth = 2
    BackendSize = 4
    BlockSize = 2
    UseMock = TRUE
    UniqueIds = TRUE
    MaxAccepted = 3
SPECIFICATION Spec
INVARIANTS TypeOK QueueFIFO NoLostRequest PeersUnique ResourcesOwned
SYMMETRY Symmetry
\* The process may end in a crash.
CHECK_DEADLOCK FALSE
