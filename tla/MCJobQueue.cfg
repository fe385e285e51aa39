SPECIFICATION Spec
CONSTANTS
  AnalysisJobs = {a1, a2}
  ScriptJobs = {h1}
  SyncJobs = {s1}
  None = None
  MaxRetained = 2
  ThreadStartMayFail = TRUE
INVARIANTS
  OnlyStaleJobsLoseTheSlot
  PollIsTruthful
PROPERTIES
  FinalStatusIsFinal
  ImplementsFifoServer
CHECK_DEADLOCK FALSE
