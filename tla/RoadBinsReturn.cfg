SPECIFICATION BinsSpec
CONSTANTS
    ArcLength <- MCArcLength
    BinLength = 2
    Gap = 2
    MaxPaths = 2
    MaxPointsPerPath = 3
    MaxTotalPoints = 5
    MaxBins = 4
    MaxEvidence = 3
    MaxFindings = 2
    Modality = {"lidar"}
    NoArc = NoArc
    Requests <- MCRequests
INVARIANTS
    TraversalsAdvance
CHECK_DEADLOCK FALSE
