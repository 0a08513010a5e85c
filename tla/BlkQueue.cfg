\* Two callers on a queue of two; ordinary and forced unload, and reload.
CONSTANTS
    r1 = r1  r2 = r2  r3 = r3  r4 = r4  s1 = s1  s2 = s2  s3 = s3
    NULL = NULL
    Submitters = {s1, s2}
    Reqs = {r1, r2, r3, r4}
    queue_depth = 2
    MaxAccepted = 3
SPECIFICATION FairSpec
INVARIANTS TypeOK AnsweredOnceInOrder OutstandingBounded  NothingFreedIsUsed
PROPERTIES AcceptedIsAnswered 
\* The kernel may end in a fault.
CHECK_DEADLOCK FALSE
