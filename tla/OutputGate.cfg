CONSTANTS
    Claims = {c1, c2}
SYMMETRY ClaimSymmetry
SPECIFICATION MCSpec
INVARIANT AnsweredOnlyFromCleanSources
INVARIANT UnsupportedOnlyIfIncomplete
INVARIANT CompleteMeansCovered
