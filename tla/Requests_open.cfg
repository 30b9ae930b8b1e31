SPECIFICATION Spec
CONSTANTS
    Syscall <- MCSyscall
    Number <- MCNumber
    Raw = {}
    BufLen = {}
    Errno = {}
    Junk = {0}
    MaxFrames = 4
    MaxSteps = 3
PROPERTY OpenAnswered
CHECK_DEADLOCK FALSE
