\* Two requests at a time on one connection.
CONSTANTS
  Workers = {w1, w2}
  Conns = {c1}
  Routes = {r1}
  Ports = {p1}
  None = None
SPECIFICATION Spec
CHECK_DEADLOCK FALSE
INVARIANT DeletedHasNoTunnel
