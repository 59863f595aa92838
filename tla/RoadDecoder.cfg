SPECIFICATION Spec
CONSTANTS
    ArcCount = 9
    From <- MCFrom
    To <- MCTo
    Length <- MCLength
    Way <- MCWay
    Reverse <- MCReverse
    Rule <- MCRule
    MaxDistance = 6
    MaxStates = 5
    NoQuery = NoQuery
    NoRoute = NoRoute
    Tracks <- MCTracks
    OffMap = OffMap
    BeamWidth = 6
    PerTerminal = 2
    BeamDelta = 14
    AmbiguityGap = 1
    EnterOffMap = 3
    ExitOffMap = 3
    StayOffMap = 1
    TurnPenalty = 1
    UTurnPenalty = 2
    SpeedPenalty = 1
    SpeedAllowance = 1
    MaxSpeed = 5
    SlowSpeed = 0
    StillTolerance = 1
    StillMinimum = 2
    MaxObservations = 4
    NoResult = NoResult
    NoPath = NoPath
INVARIANTS
    SearchIsExact
    BeamIsSound
    DecodingIsExact
PROPERTIES
    ImplementsSearch
