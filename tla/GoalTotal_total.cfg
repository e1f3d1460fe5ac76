SPECIFICATION Spec
CONSTANTS
    Uses <- PageAndScript
    MaxEvents = 5
    MaxAmount = 1
INVARIANTS
    TotalWasTrue
    OneLandingHeals
    WholeHistory
