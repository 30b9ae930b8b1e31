\* Paths of every kind, in every order: types, filters and options.
SPECIFICATION Spec
CHECK_DEADLOCK FALSE
CONSTANTS
    MaxFds = 5
    Node <- MCNode
    Parent <- MCParent
    Option <- MCOption
    HasReal <- MCHasReal
    Filter <- MCFilter
    NoFilter = NoFilter
    FileKind <- MCFileKind
    Answer <- MCAnswer
    Cwd <- MCCwd
    Request <- WalkRequest
    Junk <- Reused
INVARIANTS
    TypeOK
    OptionsAreGiven
    FiltersOfTwoLevels
    SymlinksRespectedWithoutHost
