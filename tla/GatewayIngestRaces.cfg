\* Two batches at a time.
CONSTANTS
  Workers = {w1, w2}
  Sources = {s}
  Malformed = Malformed
  PerMinute = 2
  EventTicks = 1
  RollupTicks = 3
  MaxRequests = 3
  MaxTime = 2
  MaxRetries = 0
SPECIFICATION Spec
CHECK_DEADLOCK FALSE
INVARIANT CountsFollowEvents
