\* A source with a window of two lines, and one on a host that never answers; two
\* shell sessions of one user, with each time limit on or off.
CONSTANTS
  Sources = {s1, s2}
  Unreachable = {s2}
  Texts = {a, b}
  None = None
  Torn = Torn
  TailLines = 2
  MaxLines = 3
  MaxCrashes = 1
  Users = {u1}
  Tabs = {t1, t2}
  MaxSessions = 2
  MaxPerUser = 2
  AgeLimits = {0, 2}
  IdleLimits = {0, 1}
  AuditMayFail = TRUE
  Forever = 3
SPECIFICATION LoopSpec
\* Sessions end for good: of that task only the clock goes on.
CHECK_DEADLOCK FALSE
INVARIANTS NeverTwice NoGapsWhenDistinct PumpedSessionsAudited
PROPERTIES  SlotsComeBack
