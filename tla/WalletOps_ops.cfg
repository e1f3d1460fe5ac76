SPECIFICATION FairSpec
CONSTANTS
    MaxPresses = 2
    Tries = 2
    Reads = {r1, r2}
    Chains <- NewAndFunded
CHECK_DEADLOCK FALSE
INVARIANTS
    LoadedOnce
    PressLandsOnce
    OkIsOnChain
    SecondSawFirst
    FreshAfterOk
PROPERTY
    OpEnds
