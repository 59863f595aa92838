SPECIFICATION Spec
CONSTANTS
    N = 3
    Deps <- MCDeps
    Version <- MCVersion
    FirstVersion = 0
    Content <- MCContent
    Produces <- Follows
    NoKey = NoKey
    NoContent = NoContent
    NoAttempt = NoAttempt
    Faults = {"crash", "fail", "force", "pointer", "rot"}
    MaxFaults = 4
INVARIANTS
    TypeOK
    PublicationIsSound
    ReadersSeeTheRows
    ForceHonoured
