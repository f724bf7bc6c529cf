SPECIFICATION FairSpec
CONSTANTS
    Preface = 1
    UpBytes = 3
    DownBytes = 4
    Chunk = 2
    Room = 2
    Window = 2
    Rounds = 3
INVARIANTS
    Inv
    HandlesInv
    NothingLost
PROPERTIES
    KeepsRelay
    BothFlow
CHECK_DEADLOCK FALSE
