CONSTANTS
    Callers = {r1, r2}
    Corpora = 2
    VocabularyTtl = 2
    MaxOutages = 2
    MaxClock = 2
SPECIFICATION StartupSpec
CHECK_DEADLOCK FALSE
INVARIANT VocabularyRecovers
PROPERTY WarmUpRecovers
