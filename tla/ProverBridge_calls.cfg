SPECIFICATION FairSpec
CONSTANTS
    None = None
    a = a
    b = b
    x = x
    memory = memory
    simulation = simulation
    Calls <- AllCalls
    Totals <- TotalCalls
    Source <- TwoSources
CHECK_DEADLOCK FALSE
INVARIANTS
    TypeOK
    OwnAnswer
    OwnSource
    PendingIsCurrent
PROPERTY EveryCallEnds
