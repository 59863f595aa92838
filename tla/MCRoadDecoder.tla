---------------------------- MODULE MCRoadDecoder ----------------------------
(***************************************************************************)
(* A road network for TLC: a street from A to B and back (arcs 1 and 2 of  *)
(* one way), a block from B over C to A (3, 4), a loop at C (5), a slow    *)
(* way from A to C (6), a lane parallel to arc 3 (7), a way from A to C    *)
(* that is longer than the distance budget (8) and a way from C to B (9).  *)
(***************************************************************************)
EXTENDS RoadPath

MCFrom == <<"A", "B", "B", "C", "C", "A", "B", "A", "C">>

MCTo == <<"B", "A", "C", "A", "C", "C", "C", "C", "B">>

MCLength == <<2, 2, 1, 1, 1, 4, 1, 8, 3>>

MCWay == <<1, 1, 2, 3, 4, 5, 6, 7, 8>>

MCReverse == <<FALSE, TRUE, FALSE, FALSE, FALSE, FALSE, FALSE, FALSE, FALSE>>

MCRule == { [from |-> 1, to |-> 3, state |-> "forbidden"],
            [from |-> 1, to |-> 3, state |-> "unknown"],
            [from |-> 4, to |-> 1, state |-> "unknown"],
            [from |-> 1, to |-> 7, state |-> "forbidden"] }

On(arc, off, id, emission) == [arc |-> arc, off |-> off, id |-> id, emission |-> emission]

Nowhere == On(OffMap, 0, 9, -5)

Seen(x, speed, candidates) == [x |-> x, speed |-> speed, candidates |-> candidates]

MCTracks ==
    { \* Along the block; the parallel lane is as good as the street.
      << Seen(0, 1, <<On(1, 0, 1, -1), Nowhere>>),
         Seen(2, 2, <<On(3, 0, 4, -1), On(7, 0, 2, -1), Nowhere>>),
         Seen(3, 1, <<On(3, 1, 3, -1), On(7, 1, 6, -1), Nowhere>>),
         Seen(4, 1, <<On(4, 1, 2, 0), Nowhere>>) >>,
      \* Standing still, then against the direction of the arc.
      << Seen(1, 0, <<On(1, 1, 5, 0), On(2, 1, 3, 0), Nowhere>>),
         Seen(1, 0, <<On(1, 2, 2, -4), On(2, 0, 4, 0), Nowhere>>),
         Seen(0, 1, <<On(1, 0, 1, 0), On(2, 2, 7, -1), Nowhere>>) >>,
      \* A slow drift, one unit at a time.
      << Seen(0, 0, <<On(8, 0, 1, 0), Nowhere>>),
         Seen(1, 0, <<On(8, 1, 2, -1), On(1, 1, 3, -1), Nowhere>>),
         Seen(2, 0, <<On(8, 2, 1, 0), On(1, 2, 3, 0), Nowhere>>),
         Seen(3, 2, <<On(8, 3, 1, 0), On(3, 1, 3, 0), On(7, 1, 2, 0), On(6, 2, 5, 0), Nowhere>>) >>,
      \* Round the block and back to the first arc.
      << Seen(1, 2, <<On(1, 1, 1, 0), On(2, 1, 4, -1)>>),
         Seen(0, 4, <<On(1, 0, 2, 0), On(5, 1, 3, -2)>>),
         Seen(1, 2, <<On(5, 0, 1, 0), On(2, 2, 3, -3)>>) >>,
      \* Two ways that only their emissions tell apart.
      << Seen(0, 4, <<On(6, 0, 1, 0), Nowhere>>),
         Seen(4, 4, <<On(5, 0, 3, -3), On(4, 0, 4, -1), Nowhere>>) >>,
      \* A target beyond the distance budget.
      << Seen(0, 4, <<On(6, 0, 1, 0), Nowhere>>), Seen(4, 4, <<On(1, 2, 2, 0), Nowhere>>) >>,
      \* No candidate is off the map.
      << Seen(0, 1, <<On(1, 0, 1, 0)>>),
         Seen(2, 1, <<On(3, 0, 1, 0)>>),
         Seen(9, 1, <<On(3, 0, 1, 0), On(6, 0, 2, 0)>>) >> }
=============================================================================
