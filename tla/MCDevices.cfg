SPECIFICATION Spec
CONSTANTS
    WdogClock = 8
    WdogRates = {8, 3}
    WdogTimeouts = {2, 9}
    WdogCmpMax = 4
    WdogCountMax = 5
    WdogMaxCalls = 3
    RtcWord = 4
    RtcCompares = {3, 5, 7, 9, 15, 31, 63}
    RtcCounts = {2, 7}
    RtcCountMax = 9
    RtcMaxCalls = 4
    PllRates = {1000000, 16000000, 65000000, 320000000}
    InitRates = {0, 16000000, 65000000}
    HfroscRef = 72000000
    HfxoscRef = 16000000
    HfroscCfgs <- Oscillators
    SettleTicks = 5
    PllMaxCalls = 2
    PmpXlen = 32
    PmpNum = 5
    PmpAddrs = {1, 3, 6}
    PmpGrain = 1
    PmpAsked = {0, 3, 4, 5}
    PmpConfigs <- FewConfigs
    PmpMaxCalls = 3
    HpmWord = 2
    HpmLast = 4
    HpmPresent = 4
    HpmUserMode = TRUE
    ClocksPerSec = 5
    Timebase = 3
    TimeWord = 16
    HpmTickMax = 5
    HpmMaxCalls = 3
    ClicIds = {3, 17}
    ClicCsw = 12
    ClicSw = 3
    ClicIntBits = 4
    ClicMaxLevels = 2
    ClicBytes <- SomeBytes
    ClicMaxCalls = 4
    ThreadPins = {1}
    HandlerPins = {3}
    GpioMaxCalls = 2
    GpioMaxHandled = 1
    GpioMaxEdges = 1
    BeuEvents = {"tl", "l1"}
    BeuMaxCalls = 3
    BeuMaxErrors = 2
    L2Ways = 4
    WaySize = 4
    LimSizes = {0, 3, 4, 9, 13, 16}
    WaysAsked = {1, 2, 3, 4, 5, 257}
    L2Registers = {"mask"}
    L2Masks = {"some"}
    CacheHarts = {"h0", "h1"}
    CachedHarts = {"h0"}
    CacheLines = {"a", "b"}
    CacheMaxCalls = 3
    LocalLines = {16, 17}
    LineIsrs = {"isr0", "isr1"}
    FaultsVectored = FALSE
    LineMaxCalls = 4
INVARIANTS
    RtcNeverLate
    PllSound
    TimesExact
    GpioThreadKept
    BeuQuiet
    LimKept
    LandsAsAsked
PROPERTIES
    WdogNotEarly
    PmpOthersKept
    HpmReadsTrue
    ClicLands
CHECK_DEADLOCK FALSE
