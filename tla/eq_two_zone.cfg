CONSTANTS
  MaxZones = 2
  MinOff = 3
  MinOn = 2
  HpPause = 2
  Satisfied = 4
  CondLow = 2
  CondOff = 4
  CondOn = 6
  NoTemp = NoTemp
  Heaters = {1, 2}
  ZoneCounts = {2}
  ZoneInputs <- SmallElectricZones
  ProtInputs <- TwoZoneProtection
  LightInputs = {FALSE}
  CondTemps <- NoSensor
  FanModes = {0}
SPECIFICATION LiveSpec
INVARIANTS
  HeaterInterlock
PROPERTIES
  MinOffRespected
  EarlyStopJustified
  CoolingServed
