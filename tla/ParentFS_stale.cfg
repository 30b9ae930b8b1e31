\* A link that was refused, then a path back from a node of the host.
SPECIFICATION Spec
CHECK_DEADLOCK FALSE
CONSTANTS
    MaxFds = 6
    Node <- MCNode
    Parent <- MCParent
    Option <- MCOption
    HasReal <- MCHasReal
    Filter <- MCFilter
    NoFilter = NoFilter
    FileKind <- MCFileKind
    Answer <- MCAnswer
    Cwd <- MCCwd
    Request <- StaleRequest
    Junk <- Zeroed
INVARIANTS
    SymlinksRespected
