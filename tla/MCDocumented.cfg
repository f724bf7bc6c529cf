SPECIFICATION DocSpec
CONSTANTS
    None = None
    Direct = Direct
    Error = Error
    Letters <- DocLetters
    Width <- DocWidth
    DirectNames = {"direct"}
    Hosts <- DocHosts
    Configs <- DocConfigs
    Settings <- DocSettings
    Texts <- DocTexts
INVARIANTS
    NoproxyNeverSocks
