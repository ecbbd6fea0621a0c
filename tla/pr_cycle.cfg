CONSTANTS
  HighDelay = 2
  LowDelay = 2
  DoorDelay = 2
  DoorBlock = 2
  PostDefrost = 2
  CycleBypass = 2
  HaccpDelay = 2
  MinRun = 1
  IdleReset = 2
  MaxRun = 2
  PulldownTime = 1
  RateTime = 2
  ForcedOff = 2
  MaxRetries = 2
  MaxStarts = 1
  Ring = 2
  Units <- AllUnits
SPECIFICATION LiveSpec
INVARIANTS
  LockoutEscalation
PROPERTIES
  RunLimited
  BlockLasts
  BlockEnds
  HighSustained
  AlarmsHeld
