SPECIFICATION FairSpec
CONSTANTS
    Drivers = {"urma", "rdma"}
    Params <- MCParams
    MaxSectors = 2
    Vals = {0, 1}
    Tags = {1, 2}
    Readers = {p1}
    Named = TRUE
    NULL = NULL
INVARIANTS TypeOK Grounded NothingLeft NoMisuse CompletedOnce ReadsReturnWrites
PROPERTIES UnloadEnds
