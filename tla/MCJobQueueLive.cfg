SPECIFICATION FairSpec
CONSTANTS
  AnalysisJobs = {a1, a2}
  ScriptJobs = {}
  SyncJobs = {s1}
  None = None
  MaxRetained = 1
  ThreadStartMayFail = TRUE
PROPERTIES
  QueueDrains
  OverdueRunLosesSlot
CHECK_DEADLOCK FALSE
