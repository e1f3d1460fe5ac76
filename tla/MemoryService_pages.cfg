SPECIFICATION ServiceSpec
CONSTANTS
    t1 = t1
    None = None
    Tasks <- OneTask
    StartSpecs <- FutureOnly
    Retention = 2
    ScanSpan = 2
    PageLimit = 2
    EventsPerLedger = 2
    LastIndex = 3
    CursorStyle = "toid"
    MaxClampRetries = 1
    MaxLedger = 3
    MaxFailures = 1
    Clients <- WalletAndPage
PROPERTY Pages
