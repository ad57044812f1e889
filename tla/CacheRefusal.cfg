SPECIFICATION Spec
CONSTANTS
  e1 = e1
  ghost = ghost
  k1 = k1
  c1 = c1
  c2 = c2
  c3 = c3
  i1 = i1
  i2 = i2
  NoCall = NoCall
  Event = {e1}
  EventId = {e1, ghost}
  Key = {k1}
  Call = {c1, c2, c3}
  Instance = {i1, i2}
  LocalMax = 1
  Total <- MCTotal
  Request <- MCRequest
  At <- MCAt
  Modes <- MCModes
INVARIANT CachedRefusalIsTrue
CHECK_DEADLOCK FALSE
