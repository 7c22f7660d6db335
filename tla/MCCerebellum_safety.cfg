SPECIFICATION Spec
CONSTANTS
    Sessions = {s1}
    L1Ticks = {a, b}
    L2Ticks = {c}
    Writers = {}
    Tasks = {a, b, c}
    NoSession = none
    MaxLength = 2
    MaxOverlaps = 1
    MaxFaults = 1
    MaxLevels = 1
    MaxAsks = 1
SYMMETRY Symmetry
INVARIANTS TypeOK MutualExclusion NoTurnSkipped CopiesBounded
PROPERTIES CursorsAdvance
CHECK_DEADLOCK FALSE
