SPECIFICATION Spec
CONSTANTS
    Threads = {1, 2}
    WRITE_MULTIPLIER = 8
    MaxDepth = 2
INVARIANTS NoneForgotten
