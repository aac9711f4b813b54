SPECIFICATION FairSpec
CONSTANTS
    Contender <- MCContender
    MaxAttempts = 1
    MaxTicket = 2
    MaxCrashes = 1
    MaxExpiries = 1
INVARIANTS
    TypeOK
    Serialized
    Version1Excluded
    FirstComeFirstServed
PROPERTIES
    CallsEnd
CHECK_DEADLOCK FALSE
