SPECIFICATION FairSpec
CONSTANTS
    Process = {p1, p2}
    Csv = {3}
    Calibration = {2}
    Optional = {2}
    Frame = {4, 5}
    Missing = {2, 5}
    Verdict <- Troubled
    MaximumFiles = 3
    MaximumFindings = 1
    NoOutput = NoOutput
    Faults = {"alter", "remove", "add", "crash", "io", "sync"}
    MaxFaults = 2
CHECK_DEADLOCK FALSE
INVARIANTS
    TypeOK
    PublishedIsSound
PROPERTIES
    PassesSettle
