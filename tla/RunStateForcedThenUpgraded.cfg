SPECIFICATION Spec
CONSTANTS
    N = 3
    Deps <- MCDeps
    Version <- MCVersion
    FirstVersion = 0
    Content <- MCContent
    Produces <- Tolerant
    NoKey = NoKey
    NoContent = NoContent
    NoAttempt = NoAttempt
    Faults = {"crash", "force", "upgrade"}
    MaxFaults = 4
INVARIANTS
    PendingForceHonoured
