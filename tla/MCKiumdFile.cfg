SPECIFICATION MCSpec
CONSTANTS
    Dev = {d1, d2}
    Thread = {t1, t2}
    MaxReg = 3
    MaxFault = 2
    None = None
    RmThread = {r1, r2}
    RmDev = {1, 2, 3, 4}
    RmCount <- MCRmCount
    RmNode <- MCRmNode
    RmInfo = 1
    MaxPages = 2
    MaxArray = 2
SYMMETRY Symmetry
INVARIANTS ListInv OwnNodeSafe FaultReported RmInv
CHECK_DEADLOCK FALSE
