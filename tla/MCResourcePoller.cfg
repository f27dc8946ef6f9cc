CONSTANTS
    Types = {"Pod", "ImageScanRequest", "Deployment", "Event"}
    Watchable = {"Pod", "ImageScanRequest", "Deployment"}
    ScanType = "ImageScanRequest"
    FlagTypes = {"ImageScanRequest"}
    Registered = {"Pod", "Deployment"}
    ChanCap = 1
    MaxChanges = 1
    MayStop = TRUE
SPECIFICATION FairSpec
CHECK_DEADLOCK FALSE
INVARIANTS
    TypeOK
    HandedOverOnce
    FlagImpliesTracked
    QuotaWatchFollows
PROPERTIES
    TypesGetControllers
