CONSTANTS
    Docs <- MCDocs
    Requests <- MCRequests
    NoParent = NoParent
    NoEntity = NoEntity
    NoLocator = NoLocator
    PerSource = 2
    MaxNeighbors = 1
    CodeTopN = 1
    MaxAttempts = 3
    MaxVariants = 3
    RerankTopN = 2
    MixedTopN = 3
    InventoryTopN = 3
    PageTopN = 2
SPECIFICATION Spec
INVARIANTS
    SearchesAsPlanned
    WindowSound
    RepairAddsUnlessFull
    EvidenceKept
    RecordsFaithful
