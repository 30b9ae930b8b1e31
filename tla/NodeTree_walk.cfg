\* Constructions, attachments, moves and removals by name and by key, and look-ups.
SPECIFICATION Spec
CHECK_DEADLOCK FALSE
SYMMETRY Symmetry
CONSTRAINT NotInItself
CONSTANTS
    Handle = {root, h1, h2}
    Root = root
    None = None
    NoPath = NoPath
    Name <- MCName
    Disk <- MCDisk
    Volatile <- MCVolatile
    Target <- MCTarget
    Given <- MCGiven
    Path <- MCPath
    Cwd <- MCCwd
    MaxDepth = 2
INVARIANTS
    TypeOK
    ListedHasParent
    FoundHasPath
PROPERTIES
    OthersStay
