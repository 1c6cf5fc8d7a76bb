SPECIFICATION FairSpec
CONSTANTS
    RingSize = 4
    BufSize = 4
    Texts <- MCTexts
    Faults = {"slow", "deadline"}
    MaxLines = 2
INVARIANTS TypeOK DamageIsLocal HandedAsSent
PROPERTY LineArrives
CHECK_DEADLOCK FALSE
