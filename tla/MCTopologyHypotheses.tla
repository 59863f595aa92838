------------------------ MODULE MCTopologyHypotheses ------------------------
(***************************************************************************)
(* Four intervals along a line with three nodes, in the order of their     *)
(* identifiers or against it; the arc they run along may be there, be      *)
(* there in the other direction only, or have another shape.               *)
(***************************************************************************)
EXTENDS TopologyHypotheses

MCNodeAt == <<0, 10, 16>>

\* Along the road, a little off it, a neighbour of the latter, the other way,
\* and by a detour.
Traces == {<<0, 5, 10>>, <<1, 6, 12>>, <<2, 8, 14>>, <<10, 5, 0>>, <<0, 9, 10>>}

Interval(id, traversal, trace, flaw) ==
    [id |-> id, traversal |-> traversal, trace |-> trace, frame |-> "local",
     offMap |-> flaw # "not_off_map", observable |-> flaw # "unobservable",
     direct |-> flaw # "direction", stationary |-> flaw = "stationary",
     quality |-> flaw # "quality"]

Arc(from, to, geometry) == [from |-> from, to |-> to, geometry |-> geometry]

Graphs == {<<>>, <<Arc(2, 1, <<10, 5, 0>>)>>, <<Arc(1, 2, <<0, 9, 10>>), Arc(1, 2, <<0, 5, 10>>)>>,
           <<Arc(1, 2, <<0, 9, 10>>)>>}

Flaws == {"none", "not_off_map", "unobservable", "direction", "stationary", "quality"}

\* The traversals of the first two intervals are one or two.
Given(traces, shared, flaw, ids) ==
    << Interval(ids[1], 1, traces[1], "none"),
       Interval(ids[2], IF shared THEN 1 ELSE 2, traces[2], "none"),
       Interval(ids[3], 3, traces[3], "none"),
       Interval(ids[4], 4, traces[4], flaw) >>

Spread(ids) == { Given(traces, FALSE, "none", ids) : traces \in [1..4 -> Traces] }

Shared == { Given(traces, TRUE, "none", <<1, 2, 3, 4>>) : traces \in [1..4 -> Traces] }

\* A flawed interval, an identifier given twice, and traces too short or back where they began.
Odd ==
    { Given(<<trace, <<0, 5, 10>>, <<1, 6, 12>>, <<0, 5, 10>>>>, TRUE, flaw, <<1, 2, 3, 4>>) :
        trace \in Traces, flaw \in Flaws }
    \cup { Given([i \in 1..4 |-> t], FALSE, "none", <<1, 2, 3, 3>>) : t \in Traces }
    \cup { <<Interval(1, 1, t, "none"), Interval(2, 2, <<0, 2, 1>>, "none"), Interval(3, 3, <<5, 9, 5>>, "none")>> :
             t \in Traces }

MCInputs ==
    [intervals : Spread(<<1, 2, 3, 4>>), arcs : {<<>>, <<Arc(1, 2, <<0, 9, 10>>)>>}]
    \cup [intervals : Spread(<<4, 3, 1, 2>>), arcs : {<<>>, <<Arc(1, 2, <<0, 9, 10>>)>>}]
    \cup [intervals : Shared, arcs : Graphs]
    \cup [intervals : Odd, arcs : {<<>>}]
=============================================================================
