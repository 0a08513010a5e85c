SPECIFICATION Spec
CONSTANTS
    Word = 16
    SizeMax = 15
    Disks = {d1, d2}
    Sessions = {s1, s2}
    Contexts = {x1}
    Configs <- MCConfigs
    RemoteLength = 3
    Requests <- MCRequests
    Fills <- MCFills
    Vals = {0, 1}
    Iova = 4
    Lkey = 7
    NULL = NULL
INVARIANTS TypeOK RegisteredIsLive AcceptsExactly
PROPERTIES MovesExactly
SYMMETRY Symmetry
