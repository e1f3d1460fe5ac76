SPECIFICATION FairSpec
CONSTANTS
    t1 = t1
    None = None
    Tasks <- OneTask
    StartSpecs <- FutureSpecs
    Retention = 2
    ScanSpan = 2
    PageLimit = 1
    EventsPerLedger = 2
    LastIndex = 3
    CursorStyle = "toid"
    MaxClampRetries = 2
    MaxLedger = 4
    MaxFailures = 1
INVARIANTS
    TypeOK
    HeldThroughCursor
    ScannedLedgersHeld
    HonestClamp
PROPERTIES
    MarkFrozen
    CursorOnlyAdvances
    ScannedNeverRecedes
    DurableSpec
    EventuallyCovered
