SPECIFICATION Spec
CONSTANTS
    Names = {n1}
    Opens = {c1, c2, c3}
    Drops = {d1, d2}
    SerialDrops = FALSE
    None = None
    Failed = Failed
    Panic = Panic
INVARIANTS OneOwner
CHECK_DEADLOCK FALSE
