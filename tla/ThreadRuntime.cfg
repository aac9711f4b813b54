SPECIFICATION Spec
CONSTANTS
    desktop = desktop
    delegate = delegate
    Request <- MCRequest
    Desktop = desktop
    MaxSessions = 3
    MaxQueued = 2
    MaxRollbacks = 0
INVARIANTS
    TypeOK
    NoDuplicateWriter
    FailedReleaseBlocksUse
PROPERTIES
    OneWriter
