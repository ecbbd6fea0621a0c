CONSTANTS
  StartupDelay = 2
  MinOff = 3
  MinOn = 2
  SafetyOn = 2
  SafetyOff = 2
  CondDelay = 2
  CycleLength = 3
  Readings <- AllReadings
SPECIFICATION LiveSpec
PROPERTIES
  StartRespectsMinOff
  StopRespectsMinOn
  SafetyRunServed
  HotServedUnlessDropped
