----------------------------- MODULE MCAnalyses -----------------------------
(***************************************************************************)
(* The import of the road graph, the reading of a sequence, the candidates  *)
(* of a track and the four analyses, on their small inputs.  They share no  *)
(* state: a behaviour is one of them, and the others stay as they began.    *)
(***************************************************************************)
EXTENDS MCLidarIntegrity, MCTrajectoryIntegrity, MCRoadBins, MCTopologyHypotheses, MCRoadGraph,
        MCBoreasInspection, MCRoadCandidates

LidarIdle == group = -1
TrajectoryIdle == phase = "idle"
BinsIdle == stage = "idle"
TopologyIdle == mining = "idle"
RoadGraphIdle == importing = "idle"
ReadingIdle == reading = "idle"
MatchingIdle == matching = "idle"

AnalysesInit ==
    /\ LidarInit /\ TrajectoryInit /\ BinsInit /\ TopologyInit /\ RoadGraphInit /\ InspectionInit
    /\ CandidatesInit

AnalyseScans ==
    /\ TrajectoryIdle /\ BinsIdle /\ TopologyIdle /\ RoadGraphIdle /\ ReadingIdle /\ MatchingIdle
    /\ LidarNext
    /\ UNCHANGED <<trajectoryVars, binVars, topologyVars, roadGraphVars, inspectionVars, candidateVars>>

AnalyseTrajectory ==
    /\ LidarIdle /\ BinsIdle /\ TopologyIdle /\ RoadGraphIdle /\ ReadingIdle /\ MatchingIdle
    /\ TrajectoryNext
    /\ UNCHANGED <<lidarVars, binVars, topologyVars, roadGraphVars, inspectionVars, candidateVars>>

AggregateBins ==
    /\ LidarIdle /\ TrajectoryIdle /\ TopologyIdle /\ RoadGraphIdle /\ ReadingIdle /\ MatchingIdle
    /\ BinsNext
    /\ UNCHANGED <<lidarVars, trajectoryVars, topologyVars, roadGraphVars, inspectionVars, candidateVars>>

MineTopology ==
    /\ LidarIdle /\ TrajectoryIdle /\ BinsIdle /\ RoadGraphIdle /\ ReadingIdle /\ MatchingIdle
    /\ TopologyNext
    /\ UNCHANGED <<lidarVars, trajectoryVars, binVars, roadGraphVars, inspectionVars, candidateVars>>

ImportGraph ==
    /\ LidarIdle /\ TrajectoryIdle /\ BinsIdle /\ TopologyIdle /\ ReadingIdle /\ MatchingIdle
    /\ RoadGraphNext
    /\ UNCHANGED <<lidarVars, trajectoryVars, binVars, topologyVars, inspectionVars, candidateVars>>

InspectSequence ==
    /\ LidarIdle /\ TrajectoryIdle /\ BinsIdle /\ TopologyIdle /\ RoadGraphIdle /\ MatchingIdle
    /\ InspectionNext
    /\ UNCHANGED <<lidarVars, trajectoryVars, binVars, topologyVars, roadGraphVars, candidateVars>>

FindCandidates ==
    /\ LidarIdle /\ TrajectoryIdle /\ BinsIdle /\ TopologyIdle /\ RoadGraphIdle /\ ReadingIdle
    /\ CandidatesNext
    /\ UNCHANGED <<lidarVars, trajectoryVars, binVars, topologyVars, roadGraphVars, inspectionVars>>

AnalysesNext ==
    \/ AnalyseScans \/ AnalyseTrajectory \/ AggregateBins \/ MineTopology \/ ImportGraph
    \/ InspectSequence \/ FindCandidates

analysesVars == <<lidarVars, trajectoryVars, binVars, topologyVars, roadGraphVars, inspectionVars, candidateVars>>

AnalysesSpec == AnalysesInit /\ [][AnalysesNext]_analysesVars

\* Both qualifications find every fault they inject, wherever it is put, and
\* nothing in what they left clean (qualify_lidar_integrity,
\* qualify_trajectory_integrity).
QualificationsFindFaults == FaultsAreFound /\ TrajectoryFaultsAreFound
=============================================================================
