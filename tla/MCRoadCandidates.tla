-------------------------- MODULE MCRoadCandidates --------------------------
(***************************************************************************)
(* Arcs that cross, run side by side or backwards, turn round, stand on one *)
(* point or share an identifier, and observations near, between and far     *)
(* from them.                                                              *)
(***************************************************************************)
EXTENDS RoadCandidates

Road(id, shape, length) == [id |-> id, shape |-> shape, length |-> length]

East == Road(3, <<<<0, 0>>, <<4, 0>>>>, 4)
West == Road(2, <<<<4, 0>>, <<0, 0>>>>, 4)
North == Road(1, <<<<2, 0>>, <<2, 3>>>>, 5)
Hook == Road(4, <<<<0, 1>>, <<0, 1>>, <<4, 1>>, <<4, 3>>, <<1, 3>>>>, 7)
Turntable == Road(5, <<<<1, 1>>, <<3, 1>>, <<1, 1>>>>, 4)
Spot == Road(6, <<<<1, 1>>, <<1, 1>>>>, 1)

MCNetworks ==
    {<<East, West, North>>, <<Hook, Turntable, West>>, <<North, Hook, East, Turntable>>, <<East, Spot>>,
     <<>>, <<East, East>>, <<Road(1, <<<<0, 0>>>>, 1)>>}

Sighting(id, at, heading, speed, uncertainty) ==
    [id |-> id, at |-> at, heading |-> heading, speed |-> speed, uncertainty |-> uncertainty]

\* An observation anywhere, on its way to somewhere or not.
Somewhere ==
    { Sighting(1, at, h[1], h[2], u) :
        at \in (0..5) \X {0, 1, 2, 4},
        h \in {<<NoHeading, 2>>, <<0, 0>>, <<0, 2>>, <<2, 4>>, <<1, 3>>},
        u \in {NoUncertainty, 1, 3} }

MCSightings ==
    { <<o>> : o \in Somewhere }
      \cup { <<Sighting(1, <<1, 1>>, 0, 4, 1), Sighting(2, <<at, 2>>, 2, 3, NoUncertainty)>> : at \in {0, 3, 9} }
      \cup {<<>>, <<Sighting(1, <<1, 1>>, 4, 1, 1)>>, <<Sighting(1, <<1, 1>>, 1, 1, 0)>>,
             <<Sighting(1, <<1, 1>>, 1, 1, 1), Sighting(1, <<2, 1>>, 1, 1, 1)>>}

MCSearchLimits == [least |-> 1, usual |-> 2, most |-> 3, factor |-> 2, count |-> 2]

MCEmissionModel ==
    [sigma |-> 1, mostSigma |-> 2, turnSigma |-> 1, slow |-> 1, fast |-> 3, offMap |-> 5, unit |-> 2,
     peak |-> <<2, 3, 3, 4>>, turnPeak |-> 2]
=============================================================================
