SPECIFICATION FairSpec
CONSTANTS
    s1 = s1
    s2 = s2
    m1 = m1
    m2 = m2
    f1 = f1
    f2 = f2
    none = none
    Steer = {s1, s2}
    Message = {m1}
    Submission = {}
    Command = {}
    Native = TRUE
    LostAnswers = TRUE
    Subagents = FALSE
    NoOne = none
    MaxStarts = 1
CHECK_DEADLOCK FALSE
PROPERTIES
    SteersAnswered
