SPECIFICATION Spec
CONSTANTS
    t1 = t1
    None = None
    Tasks <- OneTask
    StartSpecs <- OldestOnly
    Retention = 2
    ScanSpan = 2
    PageLimit = 2
    EventsPerLedger = 2
    LastIndex = 3
    CursorStyle = "toid"
    MaxClampRetries = 1
    MaxLedger = 4
    MaxFailures = 0
INVARIANT NeverOverstates
