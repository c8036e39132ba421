SPECIFICATION Spec
CONSTANTS
    Shares = {public, media}
    ShareScanEnabled = TRUE
    ShareScanInterval = 2
    Slots = {1, 2}
INVARIANTS
    TypeOK
    OneScanner
    OneScanShown
    RoundNeverWaits
PROPERTIES
    ScansAreSpaced
    ShareMeasured
    CacheRenewed
