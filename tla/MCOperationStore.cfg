SPECIFICATION Spec
CONSTANTS
    Services = {sa}
    MaxOperations = 4
CHECK_DEADLOCK FALSE
INVARIANTS
    QueueIsFirstComeFirstServed
    OnlyHeadIsUnqueued
    OneRunningPerService
PROPERTIES
    MergeTargetsAreLive
