SPECIFICATION FairSpec
CONSTANTS
    Sessions = {s1}
    L1Ticks = {a}
    L2Ticks = {c}
    Writers = {w, x}
    Tasks = {a, c, w, x}
    NoSession = none
    MaxLength = 1
    MaxOverlaps = 0
    MaxFaults = 1
    MaxLevels = 1
    MaxAsks = 1
PROPERTIES CallsEnd
CHECK_DEADLOCK FALSE
