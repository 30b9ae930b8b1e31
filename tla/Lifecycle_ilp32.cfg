\* sizeof(unsigned long) = 4: the handshake gets past the limits on i386.
SPECIFICATION Spec
CHECK_DEADLOCK FALSE
CONSTANTS
    LongSize = 4
    PathLen = 3
    Code = {0, 5, 256}
INVARIANTS
    HandshakeOrder
