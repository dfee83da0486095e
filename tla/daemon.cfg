SPECIFICATION DSpec
CONSTANTS
  Port = {p1, p2}
  NoPort = NoPort
  Job = {j1}
INVARIANTS
  OnePopupPerCycle
  OneSyncPerCycle
  ExitDrains
  IdleIsDrained
PROPERTIES
  StopEnds
  EndsWithCameraTask
  PluggedIsTried
