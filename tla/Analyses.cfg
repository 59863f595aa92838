SPECIFICATION AnalysesSpec
CONSTANTS
    Sensor <- MCSensor
    Limits <- MCLimits
    Families <- MCFamilies
    Cases <- MCCases
    Recordings <- MCRecordings
    TrajectoryGate <- MCGate
    TrajectoryLimits <- MCTrajectoryLimits
    CleanTrajectory <- MCClean
    TrajectoryCases <- MCTrajectoryCases
    Repeats = 2
    TrajectoryControls <- MCControls
    TrajectoryRecordings <- MCTrajectoryRecordings
    ArcLength <- MCArcLength
    BinLength = 2
    Gap = 2
    MaxPaths = 2
    MaxPointsPerPath = 3
    MaxTotalPoints = 5
    MaxBins = 4
    MaxEvidence = 3
    MaxFindings = 2
    Modality = {"lidar"}
    NoArc = NoArc
    Requests <- MCRequests
    NodeAt <- MCNodeAt
    MinLength = 4
    MaxMean = 2
    MaxEnd = 2
    MinTraversals = 2
    SnapRadius = 3
    Disagreement = 1
    Tolerance = 0
    MaxPairs = 6
    MaxClusters = 2
    NoNode = NoNode
    NoCompared = NoCompared
    Inputs <- MCInputs
    PositionOf <- MCPositionOf
    MinArcLength = 2
    MaxNodes = 5
    MaxWays = 3
    MaxRelations = 2
    MaxReferences = 9
    MaxArcPoints = 4
    Sources <- MCSources
    MaxTime = 15
    Second = 4
    Microsecond = 2
    Refused = Refused
    Byte <- MCByte
    SequencesOnDisk <- MCSequencesOnDisk
    RecordBytes = 2
    ChunkBytes = 4
    MaxFrameBytes = 4
    MaxFrames = 2
    MaxChanges = 1
    Decode <- MCDecode
    Networks <- MCNetworks
    Sightings <- MCSightings
    NoHeading = NoHeading
    NoUncertainty = NoUncertainty
    NoPlace = NoPlace
    SearchLimits <- MCSearchLimits
    EmissionModel <- MCEmissionModel
INVARIANTS
    InspectionIsExact
    CandidatesAreTheBest
    ReportIsExact
    QualificationsFindFaults
    EventsLocalise
    QueriesStayInSegment
    LedgerIsMeasured
    HypothesesAreJust
    WaysAreCutAtJunctions
    TurnsFollowRestrictions
PROPERTIES
    PairingIsComplete
CHECK_DEADLOCK FALSE
