SPECIFICATION FairSpec
CONSTANTS
    Rounds = 6
    Offers <- MCOffers
    Modes = {"auto", "ntlm"}
INVARIANTS
    TypeOK
    HandlesInv
    FedLatest
    FailsWithCause
PROPERTIES
    EndsOrWaits
