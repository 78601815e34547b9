SPECIFICATION FairSpec
CONSTANTS
    N = 3
    BootHarts = {0, 1, 2}
    Scrub = TRUE
    NumCtors = 2
    NumDtors = 2
    MaxIpi = 2
INVARIANTS
    InitialisedBeforePast
    NobodyLeavesEarly
    IpiKept
PROPERTY EveryoneStarts
