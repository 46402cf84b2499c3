SPECIFICATION Spec
CONSTANTS
    Buf = {b1}
    Segments = 2
    Dev = {d1, d2}
    Vm = {v1, v2}
    Hlos = Hlos
    Call = {k1, k2, k3}
    ScmFault = TRUE
    None = None
SYMMETRY Symmetry
INVARIANTS SecureWhileMapped HeapReturned SecureInv
CHECK_DEADLOCK FALSE
