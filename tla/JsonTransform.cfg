CONSTANTS
    Messages <- MCMessages
    MAX_UNWRAP_ROUNDS = 5
    MAX_NESTING_DEPTH = 4
    BareProse = 1
SPECIFICATION Spec
INVARIANT NothingInvented
INVARIANT KeepsCompleteElements
INVARIANT OnlyConversionsIntercepted
