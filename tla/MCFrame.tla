------------------------------- MODULE MCFrame -------------------------------
(***************************************************************************)
(* A sensor small enough for TLC, with different increments on its axes,   *)
(* and requests at every kind of edge: aligned or not, at the origin, in   *)
(* the middle, against the far edge and beyond it, smaller than 32 and as  *)
(* large as the sensor.  User sets of a depth Lima knows and of one it     *)
(* does not.                                                               *)
(***************************************************************************)
EXTENDS XimeaFrame

Sizes       == [x |-> 96, y |-> 64]
Minimum     == [x |-> 48, y |-> 4]
SizeSteps   == [x |-> 16, y |-> 4]
OffsetSteps == [x |-> 8,  y |-> 4]

Region(ox, sx, oy, sy) ==
  [x |-> [offset |-> ox, size |-> sx], y |-> [offset |-> oy, size |-> sy]]

EdgeRequests ==
  {Region(0, 96, 32, 32), Region(5, 33, 3, 32), Region(13, 50, 9, 54),
   Region(41, 50, 0, 64), Region(64, 32, 10, 31), Region(63, 33, 3, 32)}

\* Nothing is claimed once a failure has passed for a success, and nothing is
\* explored from there.
NotMasked == "masked" \notin changes
=============================================================================
