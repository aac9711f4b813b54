SPECIFICATION Spec
CONSTANTS
    s1 = s1
    s2 = s2
    m1 = m1
    m2 = m2
    f1 = f1
    f2 = f2
    none = none
    Steer = {s1}
    Message = {m1}
    Submission = {f1}
    Command = {f1, m1}
    Native = FALSE
    LostAnswers = FALSE
    Subagents = FALSE
    NoOne = none
    MaxStarts = 2
SYMMETRY Symmetry
CHECK_DEADLOCK FALSE
INVARIANTS
    TypeOK
    StopIsFinal
    OneNativeTurn
