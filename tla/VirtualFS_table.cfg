\* Three descriptors to hand out, few files and no offsets: sharing and release.
SPECIFICATION Spec
SYMMETRY HandleSymmetry
CHECK_DEADLOCK FALSE
CONSTANTS
    MaxFDs = 8
    MaxReadLength = 2
    Handle = {h1, h2, h3}
    NoFd = NoFd
    Node <- MCNode
    Root = "root"
    Kind <- MCKind
    Len <- MCLen
    Path <- FewPath
    AT_FDCWD = AT_FDCWD
    Absent = Absent
    NotDir = NotDir
    Lookup <- FewLookup
    OpenFlags <- FewFlags
    Lengths <- FewLengths
    Offsets <- FewOffsets
    MaxPos = 0
    MaxStdRefs = 2
INVARIANTS
    RefcountExact
    OpenIffReferenced
    StdioPinned
PROPERTIES
    ImplementsTable
