SPECIFICATION Spec
CONSTANTS
    None = None
    memory = memory
    simulation = simulation
    Sources <- TwoSources
    Forgetful <- OneForgets
    Window = 1
    MaxEvents = 1
    MaxLoads = 3
    MaxLedger = 2
INVARIANT TotalOfSource
