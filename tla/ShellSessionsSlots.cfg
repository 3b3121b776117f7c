\* Two users of three tabs; sessions end for good, so the system stops.
CONSTANTS
  Users = {u1, u2}
  Tabs = {t1, t2, t3}
  MaxSessions = 3
  MaxPerUser = 2
  AgeLimits = {0}
  IdleLimits = {0}
  AuditMayFail = FALSE
  Forever = 0
SPECIFICATION SlotsSpec
CHECK_DEADLOCK FALSE
SYMMETRY Interchangeable
INVARIANTS SlotAccounting NoLockout
PROPERTIES ImplementsPool
