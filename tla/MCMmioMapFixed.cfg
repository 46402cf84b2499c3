SPECIFICATION Spec
CONSTANTS
    t1 = t1
    t2 = t2
    c1 = c1
    c2 = c2
    Thread = {t1, t2}
    Ctx = {c1, c2}
    MaxMap = 2
    Iovas = 3
    None = None
INVARIANT MappedAtFixedIova
CHECK_DEADLOCK FALSE
