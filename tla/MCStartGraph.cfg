SPECIFICATION MCSpec
CONSTANTS
    Services <- MCServices
    Dependencies <- MCDependencies
    Rank <- MCRank
    MaxParallelStarts = 3
    Outcomes <- MCOutcomes
    Started <- Ends
    Stopped <- Ends
    Failing <- Inner
    Timed <- Chain
    MaxContexts = 2
INVARIANTS
    
    PendingStartsAreOwned
    
    HeldTimeIsNotCounted
CHECK_DEADLOCK FALSE
