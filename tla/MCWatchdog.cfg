SPECIFICATION WdogSpec
CONSTANTS
    WdogClock = 8
    WdogRates = {8, 3}
    WdogTimeouts = {2, 9}
    WdogCmpMax = 4
    WdogCountMax = 5
    WdogMaxCalls = 3
PROPERTY
    WdogNeverEarly
CHECK_DEADLOCK FALSE
