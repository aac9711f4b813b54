SPECIFICATION Spec
CONSTANTS
    desktop = desktop
    delegate = delegate
    Request <- MCRequest
    Desktop = desktop
    MaxSessions = 3
    MaxQueued = 2
    MaxRollbacks = 1
INVARIANTS NoDuplicateWriter
