SPECIFICATION FairSpec
CONSTANTS
    N = 2
    NumSources = 2
    MaxPriority = 3
    ContextIds <- GeneratedIds
    Masks <- OtherHart
    Levels = {1}
    Kinds <- OneOfEach
PROPERTY InterruptServed
CHECK_DEADLOCK FALSE
