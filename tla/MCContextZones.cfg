SPECIFICATION Spec
CONSTANTS
    Sessions = {s1}
    Calls = {c1, c2}
    Restored <- Histories
    NoSession = none
SYMMETRY CallSymmetry
INVARIANTS PayloadWhole TurnsCounted
PROPERTIES PauseEarned
CHECK_DEADLOCK FALSE
