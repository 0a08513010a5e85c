SPECIFICATION Spec
CONSTANTS
    Drivers = {"urma"}
    Params <- MCTwoSectors
    MaxSectors = 4
    Vals = {0, 1}
    Tags = {1}
    Readers = {}
    Named = TRUE
    NULL = NULL
INVARIANTS LbaAddressed
