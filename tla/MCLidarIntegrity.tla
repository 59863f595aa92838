--------------------------- MODULE MCLidarIntegrity ---------------------------
(***************************************************************************)
(* Two rings and four bins, eight points a frame; clean recordings of six   *)
(* and four frames, one case per kind of fault and severity, and public recordings  *)
(* of four frames that are damaged in every combination of five ways.      *)
(***************************************************************************)
EXTENDS LidarIntegrity

MCSensor ==
    [rings |-> {0, 1}, ringPoints |-> 1, bins |-> 4, blank |-> 1, framePoints |-> 4,
     range |-> <<1, 10>>, intensity |-> <<0, 1>>, time |-> <<-10, 9>>, span |-> 12,
     scan |-> 10, scanTolerance |-> 0, cadence |-> 10, cadenceTolerance |-> 0]

MCLimits == [persistence |-> 2, densityPercent |-> 70, frames |-> 6, points |-> 8,
             events |-> 4, raw |-> 12, offsets |-> 2]

CleanPoint(i) ==
    [range |-> 4, intensity |-> 1, ring |-> i % 2, bin |-> (i - 1) \div 2, time |-> 2 * i - 9, offset |-> i]

CleanFrame(k) ==
    [index |-> k, ref |-> 10 * k, start |-> 10 * k - 5, end |-> 10 * k + 5, points |-> [i \in 1..8 |-> CleanPoint(i)]]

CleanRecording(n) == [k \in 1..n |-> CleanFrame(k - 1)]

MCFamilies == <<CleanRecording(6), CleanRecording(4)>>

Case(op, amount, duration, expected) ==
    [op |-> op, amount |-> amount, duration |-> duration, biased |-> FALSE, expected |-> expected]

MCCases ==
    << Case("scan_loss", 0, 1, "frame_cadence"), Case("scan_loss", 0, 2, "frame_cadence"),
       Case("ring_loss", 1, 1, "none"), Case("ring_loss", 1, 2, "ring_loss"),
       Case("sector_loss", 2, 1, "none"), Case("sector_loss", 2, 3, "sector_loss"),
       Case("density_reduction", 90, 2, "none"),
       [Case("density_reduction", 50, 2, "density") EXCEPT !.biased = TRUE],
       Case("nonfinite", 1, 1, "nonfinite"), Case("range_scale", 2, 2, "none"),
       Case("range_scale", 3, 2, "range"), Case("shift", 2, 1, "none"), Case("shift", 6, 2, "point_time"),
       Case("reverse", 0, 2, "point_time"), Case("clamp", 0, 2, "scan_duration") >>

Damages == {"none", "ring", "nan", "late", "order", "lost"}

Damaged(f, d) ==
    CASE d = "ring" -> Kept(f, { p \in Range(f.points) : p.ring # 0 })
      [] d = "nan" -> [f EXCEPT !.points[2].range = Nan, !.points[3].intensity = 2, !.points[4].ring = 7]
      [] d = "late" -> [f EXCEPT !.ref = @ + 12]
      [] d = "order" -> [f EXCEPT !.points[5].time = -9, !.end = @ + 1]
      [] OTHER -> f

Recording(damage) ==
    LET left == SelectSeq(<<1, 2, 3, 4>>, LAMBDA k : damage[k] # "lost")
    IN  [frames |-> [i \in DOMAIN left |-> Damaged(CleanFrame(left[i]), damage[left[i]])], verified |-> TRUE]

UnfitScans ==
    { [frames |-> CleanRecording(7), verified |-> TRUE],
      [frames |-> CleanRecording(4), verified |-> FALSE],
      [frames |-> <<CleanFrame(1), CleanFrame(1)>>, verified |-> TRUE],
      [frames |-> <<[CleanFrame(1) EXCEPT !.end = 5]>>, verified |-> TRUE],
      [frames |-> <<[CleanFrame(1) EXCEPT !.points = Append(@, CleanPoint(8))]>>, verified |-> TRUE] }

MCRecordings == { Recording(d) : d \in [1..4 -> Damages] } \cup UnfitScans

=============================================================================
