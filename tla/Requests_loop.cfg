SPECIFICATION Spec
CONSTANTS
    Syscall <- MCSyscall
    Number <- MCNumber
    Raw <- MCRaw
    BufLen = {21, 22, 26, 27}
    Errno = {0, 32}
    Junk = {0, 4, 65535}
    MaxFrames = 4
    MaxSteps = 3
INVARIANTS
    TypeOK
    TrapFindsStub
    SuccessIsChilds
    PwEntryIsWhole
PROPERTIES
    TrampolineEndsChild
    AbortEndsChild
CHECK_DEADLOCK FALSE
