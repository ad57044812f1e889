SPECIFICATION FairSpec
CONSTANTS
  s1 = s1
  s2 = s2
  NoSlot = NoSlot
  Slot = {s1, s2}
  MaxOutages = 1
  MaxChannelFaults = 1
  DrainChecks <- MCDrain
  Fall = 2
  Rise = 1
  MaxOpen = 1
  MaxStops = 1
  MaxCrashes = 1
  MaxRedis = 1
INVARIANTS TypeOK OneConnection ReadyIsUsable NoDeadWindow ResourcesOutliveRequests
PROPERTIES ShutdownEnds BootEnds FindsBroker
CHECK_DEADLOCK FALSE
