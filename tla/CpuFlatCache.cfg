CONSTANTS
    Line <- MCLine
    WaySize = 2
    Associativity = 3
    AgeLimit = 6
SPECIFICATION Spec
INVARIANTS
    TypeOK
    AgesAreRecency
    LoopComputesRanks
PROPERTY
    LruSpec
