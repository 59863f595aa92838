SPECIFICATION Spec
CONSTANTS
    N = 3
    Deps <- MCDeps
    Version <- MCVersion
    FirstVersion = 0
    Content <- MCContent
    Produces <- Wavers
    NoKey = NoKey
    NoContent = NoContent
    NoAttempt = NoAttempt
    Faults = {"crash", "force", "damage", "lose", "fail", "restore"}
    MaxFaults = 3
INVARIANTS
    CompletionsStand
PROPERTIES
    StageLifecycle
