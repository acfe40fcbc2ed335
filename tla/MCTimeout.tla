------------------------------ MODULE MCTimeout ------------------------------
(***************************************************************************)
(* Integers of seven bits and a millisecond of four microseconds; timeouts *)
(* at both ends of the range, in between and around zero: a negative one   *)
(* is accepted, and some exposures outweigh it and some do not.            *)
(***************************************************************************)
EXTENDS XimeaTimeout

EdgeTimeouts == {-HalfRange, -9, -1, 0, 2, 31, HalfRange - 1}
=============================================================================
