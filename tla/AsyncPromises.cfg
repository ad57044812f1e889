SPECIFICATION Spec
CONSTANTS
  e1 = e1
  ghost = ghost
  k1 = k1
  k2 = k2
  k3 = k3
  c1 = c1
  c2 = c2
  c3 = c3
  s1 = s1
  s2 = s2
  w1 = w1
  w2 = w2
  NoCopy = NoCopy
  Event = {e1}
  EventId = {e1, ghost}
  Key = {k1, k2, k3}
  Call = {c1, c2, c3}
  Slot = {s1, s2}
  Worker = {w1}
  MaxRetry = 1
  MaxFaults = 1
  Faults = {"publish", "app", "db", "commit", "worker"}
  Total <- Three
  Request <- FourRequests
  WorkerOf <- OneWorker
INVARIANTS PromiseKept GateMatchesStore GateNeverOversells
PROPERTY ImplementsPromises
CHECK_DEADLOCK FALSE
