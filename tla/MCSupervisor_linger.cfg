SPECIFICATION Spec
CONSTANTS
  Sessions = {s1, s2}
  Events = {e1, e2, e3}
  NoSession = NoSession
  MaxLinger = 1
  ForcedRenewals = 1
  LingerEnabled = TRUE
  Overflows = FALSE
  MaxTicks = 2
  MaxRequests = 0
  MaxCrashes = 0
CHECK_DEADLOCK FALSE
INVARIANTS LingerBounded
