CONSTANTS
    Threads = {t1, t2}
    Texts = {a, b}
    CacheEntries = 1
    MaxTexts = 1
    Readers <- MCReaders
    Callers <- MCCallers
    CorpusScopes = {{"CODE"}}
    Indexes <- MCIndexes
    PageSize = 2
    MaxRecords = 4
    CorpusTtl = 2
    MaxEntries = 2
    MaxClock = 2
    Fallback = TRUE
    MaxSearches = 3
SYMMETRY MCSymmetry
SPECIFICATION Spec
INVARIANT OwnCorpus
INVARIANT FreshWithinTtl
PROPERTY FailsOnlyWhenFull
