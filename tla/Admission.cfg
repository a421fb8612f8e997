CONSTANTS
    Requests = {r1, r2, r3, r4}
    Capacity = 2
SPECIFICATION FairSpec
INVARIANT SlotsSound
PROPERTY EveryCallEnds
