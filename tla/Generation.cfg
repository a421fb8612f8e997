CONSTANTS
    Requests = {r1, r2}
    Slots = 1
    Capacity = 1
    Attempts = 2
    MaxRepairs = 1
    MaxPasses = 2
    Sentences = 1
SPECIFICATION MCFairSpec
INVARIANT ResourcesKept
INVARIANT PartialIsVerified
PROPERTY ExtractedNeverRewritten
PROPERTY EveryRequestEnds
CHECK_DEADLOCK FALSE
