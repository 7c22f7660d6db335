SPECIFICATION FairSpec
CONSTANTS
  Sessions = {s1, s2}
  Events = {e1, e2}
  NoSession = NoSession
  MaxLinger = 1
  ForcedRenewals = 1
  LingerEnabled = TRUE
  Overflows = TRUE
  MaxTicks = 1
  MaxRequests = 1
  MaxCrashes = 1
CHECK_DEADLOCK FALSE
INVARIANTS TypeOK OneAwake RowsAgree NeverStranded WakeRecords CreateNeverThrows RowsOwned
PROPERTIES OrphansKeepTheirStatus RowsFollowTheEdges ImplementsLifecycle LiveSessionsRetire
