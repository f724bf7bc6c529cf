SPECIFICATION Spec
CONSTANTS
    Tasks = {t1, t2}
    a4 = a4
    a6 = a6
    p1 = p1
    p2 = p2
    NoAddr = NoAddr
    V4 = {a4}
    V6 = {a6}
    Answers <- DualStack
    PORTS <- TwoPorts
    Windows = TRUE
SYMMETRY TaskSymmetry
INVARIANTS
    Inv
    SocketsInv
    FailsForCause
    V4First
