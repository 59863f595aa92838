------------------------ MODULE MCTrajectoryIntegrity ------------------------
(***************************************************************************)
(* Twelve clean samples, two time units apart, at two positions per unit;  *)
(* cases below and above each threshold at every target; and short public  *)
(* recordings with every pattern of displacements and of time steps.       *)
(***************************************************************************)
EXTENDS TrajectoryIntegrity

MCGate == [gap |-> 2, degree |-> 3, half |-> 2, slow |-> 0, still |-> 4, exclusion |-> 2]

MCTrajectoryLimits ==
    [gap |-> 2, jump |-> 4, reference |-> 3, velocity |-> 1, held |-> 0, moving |-> 1, freeze |-> 6,
     adjacency |-> 4, pair |-> 16, clear |-> 2, samples |-> 14, raw |-> 40, events |-> 3]

SampleAt(t, x, v) == [t |-> t, x |-> x, v |-> v, h |-> (x + t) % 3, domain |-> "rig"]

Straight(n) == [i \in 1..n |-> SampleAt(2 * i, 4 * i, 2)]

MCClean == Straight(12)

TrajectoryCase(op, amount, count, rule, expected) ==
    [op |-> op, amount |-> amount, count |-> count, referenced |-> FALSE, rule |-> rule, expected |-> expected]

Referenced(case) == [case EXCEPT !.referenced = TRUE]

MCTrajectoryCases ==
    << TrajectoryCase("timestamp_discontinuity", 1, 0, "timestamp_gap", FALSE),
       TrajectoryCase("timestamp_discontinuity", 5, 0, "timestamp_gap", TRUE),
       TrajectoryCase("position_jump", 4, 2, "position_jump", FALSE),
       TrajectoryCase("position_jump", 6, 1, "position_jump", TRUE),
       TrajectoryCase("position_jump", 9, 4, "position_jump", TRUE),
       TrajectoryCase("position_freeze", 0, 2, "position_freeze", FALSE),
       TrajectoryCase("position_freeze", 0, 5, "position_freeze", TRUE),
       TrajectoryCase("position_bias", 7, 0, "reference_position_residual", FALSE),
       Referenced(TrajectoryCase("position_bias", 3, 0, "reference_position_residual", FALSE)),
       Referenced(TrajectoryCase("position_bias", 7, 0, "reference_position_residual", TRUE)),
       TrajectoryCase("position_drift", 2, 4, "velocity_residual", FALSE),
       TrajectoryCase("position_drift", 3, 4, "velocity_residual", TRUE) >>

Pulsed(s, at) == [i \in DOMAIN s |-> IF i \in at THEN [s[i] EXCEPT !.x = @ + 3] ELSE s[i]]

\* Moving, standing from the third to the seventh sample, moving on.
StopStart ==
    [i \in 1..10 |-> SampleAt(2 * i, 4 * (IF i <= 3 THEN i ELSE IF i <= 7 THEN 3 ELSE i - 4),
                        IF i \in 4..6 THEN 0 ELSE 2)]

Control(kind, s, rule, least, most) ==
    [kind |-> kind, samples |-> s, rule |-> rule, least |-> least, most |-> most]

MCControls ==
    << Control("scenario", [i \in 1..6 |-> SampleAt(2 * i, 0, 0)], "position_freeze", 0, 0),
       Control("scenario", StopStart, "timestamp_gap", 0, 0),
       Control("duration", Straight(14), "position_jump", 0, 0),
       Control("detector", Straight(8), "coordinate_continuity", 0, 0),
       Control("detector", [Straight(8) EXCEPT ![5].domain = "other"], "coordinate_continuity", 1, 1),
       Control("detector", [Straight(8) EXCEPT ![5].t = 7], "timestamp_regression", 1, 1),
       Control("detector", Pulsed(Straight(14), {3, 6}), "velocity_residual", 1, 1),
       Control("detector", Pulsed(Straight(14), {3, 11}), "velocity_residual", 2, 2) >>

\* Displaced by each pattern of offsets after the first sample.
Displaced(offsets) ==
    [i \in 1..(Len(offsets) + 1) |-> IF i = 1 THEN SampleAt(2, 4, 2) ELSE SampleAt(2 * i, 4 * i + offsets[i - 1], 2)]

\* Times advancing by each pattern of steps, at rest or moving.
RECURSIVE Clock(_, _)
Clock(steps, i) == IF i = 1 THEN 1 ELSE Clock(steps, i - 1) + steps[i - 1]

Timed(steps, v) == [i \in 1..(Len(steps) + 1) |-> SampleAt(Clock(steps, i), v * Clock(steps, i), v)]

\* Out, back and elsewhere again at any distance.
Excursions ==
    { Displaced([i \in 1..11 |-> IF i < a THEN 0 ELSE IF i < b THEN 6 ELSE IF i < c THEN back ELSE 0])
        : <<a, b, c, back>> \in { <<a, b, c, back>> \in (1..4) \X (2..11) \X (3..12) \X {0, 7, -6} : a < b /\ b < c } }

MCPublicSamples ==
    { Displaced(offsets) : offsets \in [1..6 -> {0, 5, -5}] }
      \cup Excursions
      \cup { Timed(steps, v) : steps \in [1..5 -> {1, 2, 5}], v \in {0, 2} }
      \cup { Timed(steps, 2) : steps \in [1..4 -> {2, 5, 0, -1}] }
      \cup { [Straight(6) EXCEPT ![i].domain = "other"] : i \in 1..6 }
      \cup { [Straight(6) EXCEPT ![i].v = NoVelocity] : i \in 1..6 }

UnfitTrajectories ==
    { [samples |-> <<>>, reference |-> NoReference],
      [samples |-> Straight(15), reference |-> NoReference],
      [samples |-> Straight(3), reference |-> NoReference],
      [samples |-> Straight(6), reference |-> Straight(5)],
      [samples |-> Straight(6), reference |-> [Straight(6) EXCEPT ![4].t = 9]],
      [samples |-> Timed(<<2, 0, 2>>, 2), reference |-> Timed(<<2, 0, 2>>, 2)],
      [samples |-> [Straight(6) EXCEPT ![4].domain = "other"], reference |-> [Straight(6) EXCEPT ![4].domain = "other"]],
      [samples |-> [i \in 1..14 |-> SampleAt(IF i < 8 THEN 9 * i ELSE 9 * i + 99, 0, 0)], reference |-> NoReference],
      [samples |-> [i \in 1..12 |-> SampleAt(2 * i, 0, 2)], reference |-> Straight(12)] }

MCTrajectoryRecordings == { [samples |-> s, reference |-> NoReference] : s \in MCPublicSamples } \cup UnfitTrajectories

=============================================================================
