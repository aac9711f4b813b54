SPECIFICATION FairSpec
CONSTANTS
    desktop = desktop
    delegate = delegate
    Request <- MCRequest
    Desktop = desktop
    MaxSessions = 2
    MaxQueued = 2
    MaxRollbacks = 1
PROPERTIES
    ForgottenOnlyAfterRelease
    TurnKeepsItsSession
    CallersAnswered
