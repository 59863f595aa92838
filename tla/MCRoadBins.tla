----------------------------- MODULE MCRoadBins -----------------------------
(***************************************************************************)
(* A request of three windows over an arc of three bins, the last one      *)
(* partial, and an arc of one bin.  The second window repeats a part of    *)
(* the first, overlaps it, follows it, or belongs to another sequence.     *)
(***************************************************************************)
EXTENDS RoadBins

MCArcLength == <<5, 2>>

Point(time, arc, off, state) == [time |-> time, arc |-> arc, off |-> off, state |-> state]

\* Where a vehicle is seen, and how.
Places == {<<1, 0, "moving">>, <<1, 1, "moving">>, <<1, 2, "moving">>, <<1, 5, "moving">>,
           <<2, 2, "moving">>, <<1, 4, "ambiguous">>, <<1, 1, "stationary">>, <<NoArc, 0, "moving">>}

Path(id, sequence, group, points) ==
    [id |-> id, sequence |-> sequence, group |-> group, clock |-> "utc", points |-> points]

At(times, places) ==
    [i \in DOMAIN times |-> Point(times[i], places[i][1], places[i][2], places[i][3])]

Firsts == { Path(1, 1, "a", At(<<0, 2, 5>>, places)) : places \in [1..3 -> Places] }

\* The second window: the end of the first one again, one that overlaps it,
\* one a long time later, one that is back on the arc too soon, one of another sequence, and ones no request may hold.
Seconds(first) ==
    {Path(2, 1, "a", SubSeq(first.points, 2, 3)),
     Path(2, 1, "a", At(<<1, 4>>, <<<<1, 0, "moving">>, <<1, 3, "moving">>>>)),
     Path(2, 1, "a", At(<<8, 9>>, <<<<1, 1, "moving">>, <<1, 2, "moving">>>>)),
     Path(2, 1, "a", At(<<6, 7>>, <<<<1, 0, "moving">>, <<1, 1, "moving">>>>)),
     Path(2, 2, "b", At(<<3, 4>>, <<<<1, 1, "moving">>, <<1, 5, "moving">>>>)),
     Path(2, 1, "b", SubSeq(first.points, 2, 3)),
     Path(1, 1, "a", SubSeq(first.points, 2, 3)),
     Path(2, 1, "a", At(<<4, 4>>, <<<<1, 0, "moving">>, <<1, 3, "moving">>>>))}

Spanning(id, sequence, from, to) ==
    [id |-> id, sequence |-> sequence, clock |-> "utc", from |-> from, to |-> to]

Evidence(id, sequence, from, to, usable, stamped) ==
    Spanning(id, sequence, from, to) @@ [modality |-> "lidar", usable |-> usable, stamped |-> stamped]

Evidences == {<<Evidence(1, 1, 0, 4, TRUE, TRUE), Evidence(2, 1, 3, 9, TRUE, FALSE), Evidence(3, 1, 0, 9, FALSE, TRUE)>>,
              <<Evidence(1, 2, 3, 4, TRUE, TRUE)>>}

Findings == {<<Spanning(1, 1, 1, 3) @@ [critical |-> TRUE], Spanning(2, 1, 5, 9) @@ [critical |-> FALSE]>>}

MCRequests ==
    [paths : UNION { { <<first, second>> : second \in Seconds(first) } : first \in Firsts },
     evidence : Evidences, findings : Findings, foreign : {FALSE}]
=============================================================================
