SPECIFICATION MCSpec
CONSTANTS
    MaxPackets = 3
    MaxElements = 2
    EdacCpu = {c1, c2}
    EdacNoCpu = noCpu
    L3 = "L3"
    MaxErrors = 2
INVARIANT WokenWhenElements
CHECK_DEADLOCK FALSE
