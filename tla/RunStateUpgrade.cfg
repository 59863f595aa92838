SPECIFICATION FairSpec
CONSTANTS
    N = 3
    Deps <- MCDeps
    Version <- MCVersion
    FirstVersion = 0
    Content <- MCContent
    Produces <- Follows
    NoKey = NoKey
    NoContent = NoContent
    NoAttempt = NoAttempt
    Faults = {"crash", "force", "upgrade", "fail"}
    MaxFaults = 3
INVARIANTS
    ReconciledInputs
    ResumeIsSemanticallyEqual
PROPERTIES
    ImplementsLedger
    RunsEndComplete
