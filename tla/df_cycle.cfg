CONSTANTS
  Interval = 4
  PumpDown = 1
  Stabilize = 2
  ValveDelay = 1
  MinActive = 1
  MaxDuration = 2
  PowerDuration = 1
  EqualizeTime = 1
  DripTime = 1
  FanDelay = 1
  RunningTime = 2
  IcedTime = 1
  DemandTemp = 2
  RunningTemp = 2
  FadTemp = 2
  EndTemp = 6
  PowerTemp = 1
  ShortDefrost = 2
  Warmup = 1
  MaxSkip = 2
  AlarmAfter = 1
  Readings <- AllReadings
SPECIFICATION LiveSpec
INVARIANTS
  HotGasPrepared
  SkipBounded
  CycleBounded
PROPERTIES
  CompressorRests
  DefrostServed
