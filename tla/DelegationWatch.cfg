SPECIFICATION FairSpec
CONSTANTS
    c1 = c1
    c2 = c2
    w1 = w1
    n1 = n1
    NoOne = NoOne
    Call = {c1, c2}
    Watched = {w1}
    Subscriber = {n1}
    MaxTurns = 1
INVARIANT NotifiedOnce
PROPERTY WatchesEnd
CHECK_DEADLOCK FALSE
