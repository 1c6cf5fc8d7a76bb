SPECIFICATION FairSpec
CONSTANTS
    Letters = {"a", "b"}
    MaxLen = 5
INVARIANTS TypeOK NoneMissed LiteralExact
PROPERTY Terminates
CHECK_DEADLOCK FALSE
