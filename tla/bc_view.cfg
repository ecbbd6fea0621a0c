SPECIFICATION BroadcastLiveSpec
CONSTANTS
  None = None
  Keys = {k1, k2}
  Values = {0, 1}
  Boot <- MCBoot
  Fds = {f1, f2}
  MaxClients = 1
  MaxChanged = 1
  DeltaMax = 1
  QueueMax = 2
  MaxSets = 2
  MaxOpens = 2
INVARIANTS Mirrored
PROPERTIES Reaches
CHECK_DEADLOCK FALSE
