CONSTANTS
    MaxAttempts = 2
    AdaptiveQuery = TRUE
    Requirements = {r1}
SPECIFICATION Spec
INVARIANT AnsweredOnlyIfVerified
