--------------------------- MODULE MCResearchRuns ----------------------------
(***************************************************************************)
(* Start dates at the ends of long months, across a year's end and a       *)
(* February with and without a leap day, where adding months cuts the day; *)
(* lengths of windows and steps of both signs and zero, and a test that no *)
(* year is left for.  The years begin and end near the starts, so that     *)
(* windows that roll backwards come to an end here too.                    *)
(***************************************************************************)
EXTENDS ResearchRuns

CONSTANTS r1, r2, p1, p2

MCStarts ==
  {[year |-> 2022, month |-> 12, day |-> 31], [year |-> 2022, month |-> 10, day |-> 29],
   [year |-> 2023, month |-> 8, day |-> 31], [year |-> 2023, month |-> 12, day |-> 30],
   [year |-> 2024, month |-> 1, day |-> 1]}
MCTrains == {-5, 0, 2}
MCTests == {1, 3, 90}
MCSteps == {-5, 0, 1, 3}
MCLastDate == [year |-> 2025, month |-> 2, day |-> 1]
=============================================================================
