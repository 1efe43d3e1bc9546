CONSTANTS
  alice = alice
  system = system
  c1 = c1
  Jobs = {1, 2}
  Definitions <- MCDefinitions
  Submitters = {alice}
  System = system
  Connections = {c1}
  Pids = {1, 2}
  NoPid = 0
  ExecsFail = TRUE
  PidsAreReused = FALSE
  MaxJobsPerSubmitter = 1
  MaxInternalErrors = 1
SPECIFICATION FairSpec
INVARIANTS
    RunningHasItsExit
    QuotaIsKept
PROPERTIES
    StoppedJobEnds
CHECK_DEADLOCK FALSE
