SPECIFICATION Spec
CONSTANTS
    Directory <- MCDirectory
    Size = {20, 22, 44, 65, 100}
    Misc = 20
INVARIANTS
    TypeOK
    PagesFit
    EachEntryOnce
    EndMeansEnd
CHECK_DEADLOCK FALSE
