SPECIFICATION Spec
CONSTANTS
    Definitions <- MCDefinitions
    MaxRetries = 1
    Initial <- OneOfEach
    CheckKinds = {"cached", "helper"}
    Sources = {"Admin", "Timer", "Dependency", "BindsTo"}
    StopReasons = {"ExplicitStop", "BindsToPropagation"}
    Registered <- NothingNew
    Hooks = {TRUE, FALSE}
    MaxGeneration = 3
    MaxCgroup = 2
INVARIANTS
    TransientStatesHaveAWayOut
    NextTreeIsFresh
    RestartsAreBudgeted
PROPERTIES
    RestartIsNotCutShort
CHECK_DEADLOCK FALSE
