CONSTANTS
  Calls = {c1, c2, c3}
  Suspensions = {s1, s2, s3}
  Approvals = {a1, a2}
  Null = Null
  HardCap = 2
  MaxToolCalls = 2
  MaxFaults = 0
  Overlaps = TRUE
SPECIFICATION Spec
SYMMETRY Symmetry
INVARIANT IdempotentPerApproval
CHECK_DEADLOCK FALSE
