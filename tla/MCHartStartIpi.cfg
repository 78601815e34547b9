SPECIFICATION FairSpec
CONSTANTS
    N = 3
    BootHarts = {0}
    Scrub = FALSE
    NumCtors = 0
    NumDtors = 0
    MaxIpi = 1
PROPERTY WaitEnds
