SPECIFICATION MCSpec
CONSTANTS
    p1 = p1
    p2 = p2
    p3 = p3
    Process = {p1, p2, p3}
    Sessions <- MCSessions
    File = {"graph.json", "report.json"}
    Fault = {shift, jump}
    MaxOutages = 1
    Stdout = Stdout
    Nothing = Nothing
    Opener = {p1, p2, p3}
    InputSet = {in1, in2}
    Definitions <- MCDefinitions
    NoOne = NoOne
    Missing = Missing
INVARIANTS
    OutputsAreWhole
    ExitCodesTellTheOutcome
    VerifiersSeeOneFault
PROPERTIES
    RunsAreKept
CHECK_DEADLOCK FALSE
