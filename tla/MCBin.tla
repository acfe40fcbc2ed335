------------------------------- MODULE MCBin -------------------------------
(***************************************************************************)
(* An engine that bins up to 6 and 4, one of them not a power of two, and  *)
(* one that bins up to 2.  The increment of the second axis is two, which  *)
(* goes into the exponent of the first engine and not of the second.       *)
(***************************************************************************)
EXTENDS XimeaBin

Largest == [sensor |-> [x |-> 2, y |-> 2], fpga |-> [x |-> 6, y |-> 4]]

Steps == [x |-> 1, y |-> 2]
=============================================================================
