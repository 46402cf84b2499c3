SPECIFICATION Spec
CONSTANTS
    t1 = t1
    t2 = t2
    c1 = c1
    c2 = c2
    Thread = {t1, t2}
    Ctx = {c1, c2}
    MaxMap = 3
    Iovas = 3
    None = None
SYMMETRY Symmetry
INVARIANTS MappedInv EntryPlaced
CHECK_DEADLOCK FALSE
