CONSTANTS
  MaxZones = 1
  MinOff = 3
  MinOn = 2
  HpPause = 2
  Satisfied = 4
  CondLow = 2
  CondOff = 4
  CondOn = 6
  NoTemp = NoTemp
  Heaters = {1}
  ZoneCounts = {1}
  ZoneInputs <- SingleZones
  ProtInputs <- LockoutOrBlock
  LightInputs = {TRUE}
  CondTemps <- AnyCondenser
  FanModes = {0, 1}
SPECIFICATION LifecycleSpec
PROPERTIES
  HotCondenserFan
