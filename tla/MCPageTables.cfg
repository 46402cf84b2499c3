SPECIFICATION Spec
CONSTANTS
    t1 = t1
    t2 = t2
    Devs = 2
    Thread = {t1, t2}
    MaxTable = 5
SYMMETRY Symmetry
INVARIANTS OpsLive TablesInv
CHECK_DEADLOCK FALSE
