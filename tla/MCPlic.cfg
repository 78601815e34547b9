SPECIFICATION FairSpec
CONSTANTS
    N = 2
    NumSources = 2
    MaxPriority = 3
    ContextIds <- SameIds
    Masks <- OtherHart
    Levels = {1}
    Kinds <- OneOfEach
INVARIANTS
    ServedByOne
    NeverStuck
    ClaimHasHandler
    CallTakesEffect
PROPERTIES
    EnableOnlyAsked
    InterruptServed
CHECK_DEADLOCK FALSE
