SPECIFICATION Spec
CONSTANTS
    Buf = {b1, b2}
    Slot = {s1, s2, s3}
    Thread = {t1, t2}
    MaxWild = 2
    CopyFault = TRUE
    None = None
SYMMETRY Symmetry
INVARIANTS MapInv MisuseExplained EntryLive LeftByClose
CHECK_DEADLOCK FALSE
