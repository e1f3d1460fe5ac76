SPECIFICATION FairSpec
CONSTANTS
    None = None
    memory = memory
    simulation = simulation
    Sources <- TwoSources
    Forgetful <- OneForgets
    Window = 1
    MaxEvents = 1
    MaxLoads = 2
    MaxLedger = 2
INVARIANTS
    TimelineOfSource
PROPERTIES
    SpinnerStops
    TotalSettles
