SPECIFICATION Spec
CONSTANTS
  Kinds <- Drives
  Max = 2
  Extra = 1
  Interval = 2
  Debounce = 1
  MaxFaults = 1
  None = None
  Full = 2
  MinPos = 1
  MaxPos = 2
  SafePos = 1
  StartupPos = 1
  StartupWait = 2
  Exercise = 1
  MaxPower = 1
INVARIANTS Tracks
PROPERTIES Keeps Closes FloodStops
CHECK_DEADLOCK FALSE
