SPECIFICATION Spec
CONSTANTS
    s1 = s1
    s2 = s2
    m1 = m1
    m2 = m2
    f1 = f1
    f2 = f2
    none = none
    Steer = {s1, s2}
    Message = {m1, m2}
    Submission = {f1, f2}
    Command = {}
    Native = TRUE
    LostAnswers = FALSE
    Subagents = TRUE
    NoOne = none
    MaxStarts = 2
SYMMETRY Symmetry
CONSTRAINT SteersOrFollowUps
CHECK_DEADLOCK FALSE
INVARIANTS
    TakenOnce
    FailedSteerNotTaken
    ShownBeforeTerminal
    NoFollowUpStalls
    FollowUpsKept
