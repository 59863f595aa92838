----------------------------- MODULE MCRoadGraph -----------------------------
(***************************************************************************)
(* Five nodes, two of which are closer than the shortest arc, and three    *)
(* ways that meet in node 2 or pass it, with one restriction or two.       *)
(***************************************************************************)
EXTENDS RoadGraph

MCPositionOf == <<0, 4, 5, 9, 2>>

Plain == [id |-> 1, nodes |-> <<1, 2>>, highway |-> "residential", junction |-> "none", flags |-> {},
          access |-> <<"absent", "absent">>, oneway |-> <<"absent", "absent">>,
          forwardAccess |-> <<"absent">>, backwardAccess |-> <<"absent">>, layer |-> "absent"]

Way(id, path, oneway) == [Plain EXCEPT !.id = id, !.nodes = path, !.oneway = <<"absent", oneway>>]

NoTurn == [id |-> 7, type |-> "restriction", from |-> <<1>>, to |-> <<2>>, viaNodes |-> <<2>>, viaWays |-> <<>>,
           value |-> <<"absent", "no">>, except |-> FALSE, conditional |-> FALSE]

OnlyTurn == [NoTurn EXCEPT !.value = <<"only", "no">>]

Restrictions ==
    { NoTurn, OnlyTurn, [NoTurn EXCEPT !.to = <<1>>], [OnlyTurn EXCEPT !.from = <<2>>, !.to = <<3>>],
      [NoTurn EXCEPT !.viaNodes = <<3>>], [OnlyTurn EXCEPT !.except = TRUE],
      [NoTurn EXCEPT !.conditional = TRUE], [NoTurn EXCEPT !.viaNodes = <<>>, !.viaWays = <<3>>],
      [NoTurn EXCEPT !.viaNodes = <<2, 3>>], [NoTurn EXCEPT !.from = <<>>],
      [NoTurn EXCEPT !.value = <<"other", "no">>], [NoTurn EXCEPT !.to = <<4>>], [NoTurn EXCEPT !.type = "other"] }

Source(ways, restrictions) ==
    [nodes |-> <<1, 2, 3, 4, 5>>, ways |-> ways, relations |-> restrictions, bounds |-> "none",
     pinned |-> TRUE, entities |-> FALSE]

FirstPaths == {<<1, 2>>, <<1, 2, 3>>, <<2, 5, 2>>, <<3, 2, 1>>}
SecondPaths == {<<2, 4>>, <<4, 3, 2>>, <<4, 2, 5>>, <<4, 5>>}
ThirdPaths == {<<2, 3>>, <<3, 5>>}

Pair == <<[OnlyTurn EXCEPT !.id = 8, !.to = <<3>>], NoTurn>>

Roads(first, second, third, oneway, other) ==
    <<Way(1, first, oneway), Way(2, second, other), Way(3, third, "absent")>>

Directions == {"absent", "forward", "reverse"}

SourcesWith(ways, restrictions) ==
    [nodes : {<<1, 2, 3, 4, 5>>}, ways : ways, relations : restrictions, bounds : {"none"},
     pinned : {TRUE}, entities : {FALSE}]

Base == Roads(<<1, 2>>, <<2, 4>>, <<2, 3>>, "absent", "absent")

\* The tags that may leave the first way out, open one direction of it, or neither.
Tagged ==
    { [Plain EXCEPT !.highway = "motorway"], [Plain EXCEPT !.highway = "footway"],
      [Plain EXCEPT !.junction = "roundabout"], [Plain EXCEPT !.layer = "other"],
      [Plain EXCEPT !.nodes = <<1>>], [Plain EXCEPT !.oneway = <<"no_such", "forward">>] }
    \cup { [Plain EXCEPT !.flags = {flag, "conditional"}] : flag \in {"area", "construction", "ferry", "conditional"} }
    \cup { [Plain EXCEPT !.access = <<a, b>>] : a, b \in {"absent", "allowed", "denied", "unknown"} }
    \cup { [Plain EXCEPT !.oneway = <<a, b>>] : a, b \in {"absent", "forward", "reverse", "both", "unknown"} }
    \cup { [Plain EXCEPT !.forwardAccess = <<a>>, !.backwardAccess = <<b>>, !.oneway = <<c, "absent">>] :
             a, b \in {"absent", "allowed", "denied", "unknown"}, c \in {"absent", "forward", "reverse"} }

UnfitSources ==
    { [Source(Base, <<NoTurn>>) EXCEPT !.pinned = FALSE], [Source(Base, <<NoTurn>>) EXCEPT !.entities = TRUE],
      [Source(Base, <<NoTurn>>) EXCEPT !.bounds = "reversed"], [Source(Base, <<NoTurn, NoTurn>>) EXCEPT !.bounds = "given"],
      [Source(Base, <<>>) EXCEPT !.nodes = <<1, 2, 3>>], [Source(Base, <<>>) EXCEPT !.nodes = <<1, 2, 3, 4, 4>>],
      [Source(<<>>, <<>>) EXCEPT !.nodes = <<>>, !.bounds = "given"],
      Source(<<Way(1, <<2, 3>>, "absent")>>, <<>>), Source(<<Way(1, <<1, 2>>, "absent"), Way(1, <<2, 4>>, "absent")>>, <<>>),
      Source(<<Way(1, <<1, 2, 3, 4, 5>>, "absent")>>, <<>>), Source(Base, <<Pair[1], Pair[2], [NoTurn EXCEPT !.id = 9]>>),
      Source(<<Way(1, <<1, 2, 3, 4, 5>>, "absent"), Way(2, <<5, 4, 3, 2, 1>>, "absent")>>, <<>>) }

MCSources ==
    SourcesWith({ Roads(first, second, third, oneway, other) :
                    first \in FirstPaths, second \in SecondPaths, third \in ThirdPaths,
                    oneway \in Directions, other \in Directions },
                { <<restriction>> : restriction \in Restrictions })
    \cup SourcesWith({ Roads(first, second, <<2, 3>>, oneway, "absent") :
                         first \in FirstPaths, second \in SecondPaths, oneway \in Directions }, {Pair})
    \cup SourcesWith({ <<way, Way(2, <<2, 4>>, "absent"), Way(3, <<2, 3>>, "absent")>> : way \in Tagged }, {<<NoTurn>>})
    \cup UnfitSources
=============================================================================
