------------------------------ MODULE MCSession ------------------------------
(***************************************************************************)
(* Two user sets of different depth; the server starts the camera in the   *)
(* first.                                                                  *)
(***************************************************************************)
EXTENDS XimeaSession

UserSets == {"2_12_HDR_HL", "14_STD_L"}

SetDepth == [m \in UserSets |-> IF m = "14_STD_L" THEN "Bpp14" ELSE "Bpp12"]
=============================================================================
