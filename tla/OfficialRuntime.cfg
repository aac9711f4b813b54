SPECIFICATION FairSpec
CONSTANTS
    c1 = c1
    c2 = c2
    r1 = r1
    r2 = r2
    NoOne = NoOne
    Client = {c1, c2}
    Request = {r1, r2}
    PromptDials = TRUE
    MaxGeneration = 5
    MaxFaults = 2
INVARIANTS OneProcess WaitsOnTheLiving SubscribedTurns
PROPERTIES Recovers
CHECK_DEADLOCK FALSE
