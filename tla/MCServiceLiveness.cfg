SPECIFICATION FairSpec
CONSTANTS
    Definitions <- MCDefinitions
    MaxRetries = 1
    Initial <- DaemonOrOneshot
    CheckKinds = {"cached"}
    Sources = {"Admin", "Dependency"}
    StopReasons = {"ExplicitStop"}
    Registered <- AnyChange
    Hooks = {FALSE}
    MaxGeneration = 2
    MaxCgroup = 1
INVARIANTS
    WithdrawnIsTransient
PROPERTIES
    InstanceKeepsItsDefinition
    TransientStatesEnd
CHECK_DEADLOCK FALSE
