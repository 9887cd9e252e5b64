SPECIFICATION Spec
CONSTANTS
    Writes = {w1, w2}
    Readers = {r1}
    ActiveMemorySize = 1
    MaxBlocks = 3
    MaxManual = 1
    MaxFailures = 0
CHECK_DEADLOCK FALSE
SYMMETRY Symmetry
INVARIANT ClosePersists
