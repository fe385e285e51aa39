SPECIFICATION FairSpec
CONSTANTS
  Modes = {"hyperv", "local"}
  Configs = {{"sample", "apitrace_start", "guardian_start"},
             {"interactive", "copy_process_dumps", "defender_ready", "stage_archive",
              "network_capture_start", "screenshot_capture_start", "sysmon_ready",
              "copy_dropped_files"}}
  MaxRuns = 2
  MaxTries = 2
  MaxFaults = 2
INVARIANTS EvidenceIsOwn FailuresAreReported VMIsOffAfterTheRun OpenFilesAreTold
 
CHECK_DEADLOCK FALSE
