SPECIFICATION LiveSpec
CONSTANTS
  Modules <- MCModules
  Order <- MCOrder
  Priority <- MCPriority
  Timeout <- MCTimeout
  CanFail = {"equipment"}
  MaxRestarts = 1
  Wdt = 2
  Horizon = 4
  Subscribed = TRUE
  Writers = {"http", "cloud"}
  MaxUploads = 2
INVARIANTS Bootable KeptIsConfirmed
PROPERTIES OnlyCriticalRestarts Decided
CHECK_DEADLOCK FALSE
