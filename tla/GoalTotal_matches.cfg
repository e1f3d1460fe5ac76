SPECIFICATION Spec
CONSTANTS
    Uses <- PageLagging
    MaxEvents = 4
    MaxAmount = 2
INVARIANT
    PartialNeverMatches
