SPECIFICATION FairSpec
CONSTANTS
  e1 = e1
  e2 = e2
  ghost = ghost
  k1 = k1
  k2 = k2
  a1 = a1
  a2 = a2
  w1 = w1
  app = app
  worker = worker
  Nobody = Nobody
  Event = {e1}
  EventId = {e1, ghost}
  Key = {k1, k2}
  Caller = {a1, a2, w1}
  PoolMax = 1
  Total <- OneEvent
  Request <- Rivals
  PathOf <- AppAndWorker
  PoolOf <- MCPool
PROPERTY EveryCallAnswered
