SPECIFICATION Spec
CONSTANTS
  alice = alice
  system = system
  ControlFds = {1, 2}
  JobsFds = {3}
  Callers = {alice, system}
  System = system
  Restless = {alice}
  Rights <- MCRights
  Visits <- MCVisits
  MaxConnections = 2
  MaxPerCaller = 1
  MaxRequest = 1
  MaxRead = 3
  Room = 1
  Timeout = 1
  OpTime = 1
  Retention = 1
  Ops = {1, 2}
INVARIANTS AnswersInOrder NoFrameIsStranded
  
CHECK_DEADLOCK FALSE
