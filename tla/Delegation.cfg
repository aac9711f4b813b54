SPECIFICATION Spec
CONSTANTS
    s1 = s1
    s2 = s2
    s3 = s3
    r1 = r1
    None = None
    Start = {s1, s2, s3}
    Request = {r1}
    Asks <- MCAsks
    MaxTroubles = 1
INVARIANTS
    OneSessionPerRequest
    RepeatReturnsOriginal
    FailedLeavesNothing
CONSTRAINT OneChild
SYMMETRY Symmetry
CHECK_DEADLOCK FALSE
