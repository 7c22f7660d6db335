SPECIFICATION Spec
CONSTANTS
    MaxMemories = 3
    Tags = {t1, t2}
    t1 = t1
    t2 = t2
    Written = {"short"}
    OldLayer = "short_skill"
    MaxTagsEach = 1
    Threshold = 2
    Selected = 2
    MaxFaults = 1
    MaxTidyings = 1
    MaxChanges = 2
SYMMETRY TagSymmetry
INVARIANTS TypeOK NoDanglingEdges HeirsInherit AuditTrail SearchesMatch
PROPERTIES TrailOnlyGrows PromotionEarned
CHECK_DEADLOCK FALSE
