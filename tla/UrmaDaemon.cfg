\* The daemon: its one control thread calls the manager; real provider, and
\* clients that number their requests.
CONSTANTS
    c1 = c1  c2 = c2  c3 = c3  h1 = h1  h2 = h2  h3 = h3
    NULL = NULL
    Callers = {c1}
    Handles = {h1, h2}
    PeerIds = {1}
    Segments <- BothSegments
    Xfers <- ManyXfers
    MaxPeers = 1
    QueueDepth = 2
    BackendSize = 4
    BlockSize = 2
    UseMock = FALSE
    UniqueIds = TRUE
    MaxAccepted = 3
SPECIFICATION FairSpec
INVARIANTS TransferTouchesLivePeer 
PROPERTIES TransfersReturn DestroyEnds
