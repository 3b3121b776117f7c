\* Two requests in flight at once, over three groups and a server, or with batches
\* of the gateway over three minutes.
CONSTANTS
  MaxId = 3
  Names = {"app"}
  FoldedNames = {"app"}
  Servers = {s1}
  Workers = {w1, w2}
  Sources = {s}
  Malformed = Malformed
  PerMinute = 2
  EventTicks = 1
  RollupTicks = 3
  MaxRequests = 3
  MaxTime = 4
  MaxRetries = 1
SPECIFICATION TablesSpec
SYMMETRY Interchangeable
INVARIANTS RefIntegrity AckedIsStored 
