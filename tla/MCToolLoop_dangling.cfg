CONSTANTS
  Calls = {c1, c2, c3}
  Suspensions = {s1, s2, s3}
  Approvals = {a1, a2}
  Null = Null
  HardCap = 2
  MaxToolCalls = 2
  MaxFaults = 0
  Overlaps = FALSE
SPECIFICATION Spec
SYMMETRY Symmetry
INVARIANT NoDanglingToolCalls
CHECK_DEADLOCK FALSE
