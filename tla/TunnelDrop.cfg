SPECIFICATION Spec
CONSTANTS
    Preface = 1
    UpBytes = 3
    DownBytes = 4
    Chunk = 2
    Room = 2
    Window = 2
    Rounds = 3
CHECK_DEADLOCK FALSE
INVARIANTS
    NoSelfDrop
