SPECIFICATION FairSpec
CONSTANTS
    Harts = {h1, h2, h3}
    Handlers = {h1}
    MaxBackoff = 3
INVARIANTS
    MutualExclusion
    NotLeaked
PROPERTIES
    ImplementsMutex
    FreeLockIsTaken
    WaiterSeesRelease
CHECK_DEADLOCK FALSE
