SPECIFICATION FairShutdown
CONSTANTS
  a = a
  b = b
  alice = alice
  system = system
  c1 = c1
  Jobs = {1}
  Definitions <- MCDefinitions
  Submitters = {alice}
  System = system
  Connections = {c1}
  Pids = {1}
  NoPid = 0
  MaxJobsPerSubmitter = 1
  MaxInternalErrors = 0
  ExecsFail = FALSE
  PidsAreReused = FALSE
  Services = {a, b}
  Requires <- MCRequires
  CompiledIn = {}
  Critical = {b}
  InitialServices <- MCInitial
  Unkillable = {b}
  MaxServicesWithJobs = 1
  Mounts <- MCMounts
INVARIANTS
    WaitHasAnEnd
PROPERTIES
    StopsInReverseOrder
    
CHECK_DEADLOCK FALSE
