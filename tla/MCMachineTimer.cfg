SPECIFICATION FairSpec
CONSTANTS
    Harts = {h1}
    B = 3
    Period = 2
INVARIANTS
    ReadIsSnapshot
    NoSpuriousInterrupt
    CompareNotTorn
PROPERTIES
    TimerServed
