\* What the child does with the datagram of the python path on i386.
SPECIFICATION Spec
CHECK_DEADLOCK FALSE
CONSTANTS
    LongSize = 4
    PathLen = 3
    Code = {0, 5, 256}
PROPERTIES
    PathReceived
