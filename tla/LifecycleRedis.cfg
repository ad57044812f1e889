SPECIFICATION FairSpec
CONSTANTS
  s1 = s1
  s2 = s2
  NoSlot = NoSlot
  Slot = {s1, s2}
  MaxOutages = 0
  MaxChannelFaults = 0
  DrainChecks <- MCDrain
  Fall = 2
  Rise = 1
  MaxOpen = 1
  MaxStops = 1
  MaxCrashes = 0
  MaxRedis = 0
PROPERTY ListensWithoutRedis
CHECK_DEADLOCK FALSE
