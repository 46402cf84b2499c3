SPECIFICATION Spec
CONSTANTS
    Ctx = {c1, c2}
    Buf = {b1, b2}
    Fd = {f1, f2}
    Thread = {t1, t2}
    HandleLimit = 2
    MaxRef = 2
    NoEntry = NoEntry
    ErrPtr = ErrPtr
    NoBuf = NoBuf
    NoThread = NoThread
SYMMETRY Symmetry
INVARIANTS HandleInv RefAccounting NoUseAfterRelease LostOnlyInWindow NothingLeft
PROPERTY StorePromise
CHECK_DEADLOCK FALSE
