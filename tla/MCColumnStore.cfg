SPECIFICATION FairSpec
CONSTANTS
    Names = {n1}
    Opens = {c1, c2, c3}
    Drops = {d1, d2}
    SerialDrops = TRUE
    None = None
    Failed = Failed
    Panic = Panic
INVARIANTS OneOwner
PROPERTIES OpenReturns
CHECK_DEADLOCK FALSE
