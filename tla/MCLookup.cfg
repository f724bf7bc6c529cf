SPECIFICATION Spec
CONSTANTS
    None = None
    Direct = Direct
    Error = Error
    Letters <- MCLetters
    Width <- MCWidth
    DirectNames = {"direct"}
    Hosts <- MCHosts
    Configs <- MCConfigs
    Settings <- MCSettings
    Texts <- MCTexts
INVARIANTS
    HopsAsSaid
    InOrder
PROPERTIES
    BypassExact
