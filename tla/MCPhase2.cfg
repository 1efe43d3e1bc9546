CONSTANTS
  Names = {1, 2, 3, 4, 5, 6}
  AuthnRole = 4
  Services = {1, 2, 3}
  Grace = 2
  SettleTimeout = 2
  MaxTime = 5
SPECIFICATION MCSpec
CHECK_DEADLOCK FALSE
INVARIANTS
    StartsAreOrdered
    BlockedForACause
PROPERTIES
    
    PromptIsStarted
