----------------------------- MODULE MCIngestion -----------------------------
(***************************************************************************)
(* Instances of Ingestion for TLC: source 2 is an optional calibration, 3  *)
(* a csv file, 4 and 5 are frames.                                         *)
(***************************************************************************)
EXTENDS Ingestion

\* The csv file is out of order, and its second version repeats timestamps;
\* the calibration, added and then changed, does not parse.
Troubled(s, v) == CASE s \in Csv /\ v = 0         -> "reordered"
                    [] s \in Csv /\ v = 1         -> "duplicate"
                    [] s \in Calibration /\ v = 2 -> "malformed"
                    [] OTHER                      -> "good"
=============================================================================
