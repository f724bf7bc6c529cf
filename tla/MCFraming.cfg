SPECIFICATION Spec
CONSTANTS
    Messages <- MCMessages
    Ops = {"request", "discard", "forward"}
    HeadMax = 7
    HeadersMax = 2
    LineMax = 6
    BodyMax = 3
    ReadMax = 3
INVARIANTS
    Exact
    Verbatim
    FailsForCause
    NeverWaits
    Reframed
