\* Two descriptors to hand out, a node of every class, offsets and lengths.
SPECIFICATION Spec
SYMMETRY HandleSymmetry
CHECK_DEADLOCK FALSE
CONSTANTS
    MaxFDs = 7
    MaxReadLength = 1
    Handle = {h1, h2}
    NoFd = NoFd
    Node <- MCNode
    Root = "root"
    Kind <- MCKind
    Len <- MCLen
    Path <- MCPath
    AT_FDCWD = AT_FDCWD
    Absent = Absent
    NotDir = NotDir
    Lookup <- MCLookup
    OpenFlags <- FewFlags
    Lengths <- MCLengths
    Offsets <- MCOffsets
    MaxPos = 3
    MaxStdRefs = 1
INVARIANTS
    TypeOK
PROPERTIES
    ErrorsLeaveNoTrace
    NoBytesSkipped
