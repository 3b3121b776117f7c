\* Two requests at a time on two connections that may share the config, or on two
\* server rows with files of up to two; or one at a time on four groups.
CONSTANTS
  Workers = {w1, w2}
  Conns = {x1, x2}
  Routes = {r1, r2}
  Ports = {y1, y2}
  None = None
  Hosts = {x1, x2}
  Addresses = {y1, y2}
  GroupNames = {g1}
  Unassigned = Unassigned
  MaxRow = 2
  MaxRows = 2
  Names = {"app", "db"}
  MaxGroup = 4
SPECIFICATION HandlersSpec
\* once every connection is deleted nothing is left to do
CHECK_DEADLOCK FALSE
SYMMETRY Interchangeable
INVARIANTS NoOrphans EditsTearDown Acyclic
PROPERTIES TargetIsRight OnlyCreateSharesAddress OnlyRegroupingMakesNamesakes RerunKeepsNothing OnlyDeleteMakesTwins DeleteKeepsAncestry ImplementsHierarchy
