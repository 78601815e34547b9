SPECIFICATION Spec
CONSTANTS
    Rates = {20, 40}
    MaxChanges = 1
    MaxSetups = 1
    Bauds = {1, 2}
    TxDepth = 2
    RxDepth = 1
    SymbolBits = 1
    LongMax = 31
    SpiBauds = {1, 4}
    SckDivMax = 15
    FifoDepth = 2
    MaxLen = 3
    Configs <- FlashConfigs
    MaxTransfers = 2
    MaxTimeouts = 1
    I2cBauds = {1, 8}
    PrescaleMax = 6
    MaxBytes = 2
    MaxCalls = 3
    Channels = {1}
    PwmFreqs = {1, 3}
    PwmDuties = {0, 50}
    PwmMaxCount = 7
    UsedSets <- AloneAndTogether
INVARIANTS
    DividersFollow
    SlipCounted
    AnswersMatch
PROPERTIES
    NothingCut
    CommandsQueueUp
    DrainEnds
    PwmQuiet
CHECK_DEADLOCK FALSE
