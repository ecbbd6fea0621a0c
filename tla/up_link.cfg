CONSTANTS
  MaxRetries = 1
  RequestCost = 2
  Budget = 2
  Builds = {"mqtt", "aws"}
  Kinds = {"none", "telemetry", "alarm", "setting", "late setting"}
  Threshold = 2
  None = None
SPECIFICATION Spec
INVARIANTS
  TenantFollowed
PROPERTIES
  Recovers
  Settles
  Arrives
CHECK_DEADLOCK FALSE
