SPECIFICATION FairSpec
CONSTANTS
  Definitions <- MCDefinitions
  StartTimeout = 1
  StopTimeout = 1
  BackoffDelay = 1
  Window = 1
  HealthInterval = 1
  HealthTimeout = 2
  Retries = 2
  Extensions = {2}
  RetryInterval = 1
  MaxRaises = 2
  MaxGenerations = 2
  Probes = {1, 2}
INVARIANTS ActiveIsSupervised ExtensionsAreCapped
PROPERTIES  RetriesArePaced 
CHECK_DEADLOCK FALSE
