SPECIFICATION Spec
CONSTANTS
    n1 = n1
    n2 = n2
    None = None
    Native = {n1, n2}
    Known = {n1}
    MaxConns = 2
    MaxSessions = 3
INVARIANTS
    OneLeasedWriter
    LeasesHaveHolders
    OneUnknown
    RetiredStaysEmpty
CHECK_DEADLOCK FALSE
