\* sizeof(unsigned long) = 8: the whole life of a sandbox on x86_64.
SPECIFICATION Spec
CHECK_DEADLOCK FALSE
CONSTANTS
    LongSize = 8
    PathLen = 3
    Code = {0, 5, 256}
INVARIANTS
    TypeOK
    SigchldNotLost
    SuccessIsExplained
PROPERTIES
    ChildEndsParent
    HostGetsStatus
