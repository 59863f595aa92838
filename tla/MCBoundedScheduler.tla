------------------------- MODULE MCBoundedScheduler -------------------------
(***************************************************************************)
(* Instances of BoundedScheduler for TLC.                                  *)
(***************************************************************************)
EXTENDS BoundedScheduler

CONSTANTS w1, w2, u1, u2, u3, u4

\* u1 and u2 are small, u3 takes the whole budget of 2.
MCBytes == [u \in Unit |-> IF u = u3 THEN 2 ELSE 1]

\* As MCBytes, and u4 is larger than any budget used here.
OddBytes == [u \in Unit |-> CASE u = u3 -> 2 [] u = u4 -> 9 [] OTHER -> 1]

SmallBytes == [u \in Unit |-> 1]

\* u1 lidar, u2 imu, u3 camera, u4 radar.
MCModality == [u \in Unit |-> CASE u = u1 -> 3 [] u = u2 -> 1 [] u = u3 -> 4 [] OTHER -> 5]

\* u1 and u2 imu, u3 metadata, u4 radar.
BatchModality == [u \in Unit |-> CASE u = u3 -> 0 [] u = u4 -> 5 [] OTHER -> 1]
=============================================================================
