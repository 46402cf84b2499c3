SPECIFICATION Spec
CONSTANTS
    Pt = {global, process}
    Pages = 3
    MaxSize = 2
    Call = {k1, k2, k3}
    Thread = {t1, t2}
    Serial = TRUE
    Mixed = TRUE
    None = None
SYMMETRY Symmetry
INVARIANTS BitmapInv KgslPlaced
CHECK_DEADLOCK FALSE
