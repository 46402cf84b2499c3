SPECIFICATION Spec
CONSTANTS
    Pt = {global}
    Pages = 4
    MaxSize = 2
    Call = {k1, k2}
    Thread = {t1, t2}
    Serial = FALSE
    Mixed = FALSE
    None = None
SYMMETRY Symmetry
INVARIANTS AtReserved
CHECK_DEADLOCK FALSE
