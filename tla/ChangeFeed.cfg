SPECIFICATION Spec
CONSTANTS
    a = a
    k = k
    l = l
    x = x
    y = y
    None = None
    Tables = {a}
    Keys = {k, l}
    Values = {x}
    Snapshots <- MCSnapshots
    Stamps = {1, 2}
    Batch = 2
    MaxFaults = 2
CHECK_DEADLOCK FALSE
PROPERTIES CaptureIsExact CompactionKeepsCursors
