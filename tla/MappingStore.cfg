SPECIFICATION Spec
CONSTANTS
    p1 = p1
    p2 = p2
    t1 = t1
    t2 = t2
    n1 = n1
    n2 = n2
    None = None
    Bad = Bad
    Proc = {p1, p2}
    Thread = {t1, t2}
    Native = {n1, n2}
    Failing <- Unreliable
    Overlap = FALSE
    MaxRevision = 3
    MaxCrashes = 2
    MaxFaults = 1
    MaxDamages = 1
INVARIANTS
    TypeOK
    OneOwner
    NativesUnique
PROPERTIES
    AbandonedLockBlocksNobody
    MetadataKept
    ImplementsDurableThreads
SYMMETRY Symmetry
CHECK_DEADLOCK FALSE
