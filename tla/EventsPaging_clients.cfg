SPECIFICATION FairSpec
CONSTANTS
    Clients <- WalletAndPage
    MaxLedger = 3
    EventsPerLedger = 2
INVARIANTS
    NothingLost
    CutAtTheEnd
    PagesAscend
    LatestCovers
PROPERTIES
    ReadReturns
    ReadsAtomically
