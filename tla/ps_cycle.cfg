SPECIFICATION LiveSpec
CONSTANTS
  N = 2
  Values <- MCValues
  Default = 0
  None = None
  Others <- MCOthers
  Debounce = 2
INVARIANTS NoneForgotten
PROPERTIES RestartKeeps SettingSaved
