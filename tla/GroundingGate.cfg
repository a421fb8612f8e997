CONSTANTS
    Claims = {c1, c2}
    MinimumClaims = 1
    Floor = 2
SPECIFICATION FairSpec
INVARIANT AcceptedIsGrounded
INVARIANT ShortfallDisclosed
INVARIANT RewrittenIsComplete
INVARIANT OnlyRelevanceRepairForgets
PROPERTY ImplementsContract
