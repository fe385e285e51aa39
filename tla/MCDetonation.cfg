SPECIFICATION Spec
CONSTANTS
  Modes = {"traced", "degraded", "untraced"}
  Sample = sample
  Loader = loader
  Children = {c1}
  Hosts = {host}
  MinRuntime = 3
  Timeout = 4
  MinWindow = 1
  IdleGrace = 2
  TreeEvery = 2
  ProbeEvery = 1
INVARIANTS
  ExitStopIsSound
  StoppedSampleIsDead
  HostsSurvive
PROPERTY IdleStopIsSilent
CHECK_DEADLOCK FALSE
