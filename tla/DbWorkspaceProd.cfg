CONSTANTS
  Conns = {dev, prod}
  Prod = {prod}
  Named = {prod}
  MaxTabs = 2
  MaxQueries = 2
  None = None
SPECIFICATION Spec
CHECK_DEADLOCK FALSE
INVARIANT ProdIsTypedFor
