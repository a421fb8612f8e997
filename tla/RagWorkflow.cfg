CONSTANTS
    MaxAttempts = 3
    AdaptiveQuery = TRUE
    Requirements = {r1}
SPECIFICATION FairSpec
INVARIANT WithinRecursionLimit
INVARIANT UnverifiedOnlyAtRelevanceFloor
INVARIANT ClarifiesOnlyWithoutEvidence
INVARIANT GatesHaveEvidence
PROPERTY Terminates
