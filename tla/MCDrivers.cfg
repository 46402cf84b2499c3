SPECIFICATION MCSpec
CONSTANTS
    Heaps = 2
    Trees <- MCTrees
    Pages = 2
    Buf = {b1, b2}
    Att = {a1, a2}
    MaxVmap = 1
    Zero = Zero
    Old = Old
    None = None
    BwFile = {f1, f2}
    BwThread = {t1, t2}
    BwNone = noFile
    PdThread = {t1, t2}
    MaxCount = 3
    ScmBuf = {s1, s2}
    ScmThread = {t1, t2}
    MaxKept = 2
    ScmNone = noBuffer
    IovaMax = 7
    MaxRange = 3
    DlWriter = {t1, t2}
    DlNone = noMode
SYMMETRY Symmetry
INVARIANTS
    PagesInv
    ContentsOwn
    CpuCoherent
    BwInv
    BwSessionStops
    BwOwnLayout
    PdInv
    ScmRefs
    IovaMapInv
    DloadInv
CHECK_DEADLOCK FALSE
