SPECIFICATION MCSpec
CONSTANTS
  r1 = r1
  r2 = r2
  r3 = r3
  Req = {r1, r2, r3}
  PoolMax = 1
  MaxAborts = 1
  Settings <- MCSettings
  Results <- MCResults
  Ladders <- MCLadders
  Ramps <- MCRamps
  Holds <- MCHolds
  Warmups <- MCWarmups
  Durations <- MCDurations
  Lags <- MCLags
  Field = 3
  Requests = 4
  Events = 4
  Weights = {1, 2, 3}
  Values = {0, 1, 2}
  NoInput = NoInput
INVARIANTS TypeOK InFlightCounts BulkheadBounds AnswersMatchJobs StatusesAgree ExitIsClean WindowsAreSteady HelpersAreExact
PROPERTIES EveryoneIsAnswered ImplementsPool
CHECK_DEADLOCK FALSE
