--------------------------- MODULE TriggerSetting ---------------------------
(***************************************************************************)
(* What SyncCtrlObj promises Lima about the trigger mode, with no          *)
(* parameters or selectors in sight: a mode is being set or it is not; the *)
(* mode reported changes only when a call returns, and then the device is  *)
(* in that mode and, for an external one, its line listens; a call that    *)
(* throws leaves the report as it was.  While nothing is being set the     *)
(* client may give the line another task, or load a user set, which is all *)
(* that changes the mode of the device behind the report.                  *)
(***************************************************************************)
CONSTANTS
  Modes,       \* the modes that can be set
  External     \* those that need the trigger line

VARIABLES
  reported,    \* what getTrigMode says
  device,      \* the mode the device is in, "mixed" if in none of them
  listens,     \* is the trigger line a trigger input?
  setting      \* the mode being set, or "none"

avars == <<reported, device, listens, setting>>

Init ==
  /\ reported \in Modes /\ device \in Modes \cup {"mixed"}
  /\ listens = FALSE /\ setting = "none"

\* A call begins, perhaps with its first access.
Set(mode) ==
  /\ setting = "none"
  /\ setting' = mode /\ device' \in Modes \cup {"mixed"}
  /\ UNCHANGED <<reported, listens>>

\* One of the accesses of the call.
Work ==
  /\ setting # "none"
  /\ \/ device' \in Modes \cup {"mixed"} /\ UNCHANGED listens
     \/ setting \in External /\ listens' = TRUE /\ UNCHANGED device
  /\ UNCHANGED <<reported, setting>>

Return ==
  /\ setting # "none"
  /\ device = setting /\ (setting \in External => listens)
  /\ reported' = setting /\ setting' = "none"
  /\ UNCHANGED <<device, listens>>

Throw ==
  /\ setting # "none"
  /\ setting' = "none"
  /\ UNCHANGED <<reported, device, listens>>

\* The client gives the trigger line another task, or this one.
Retask ==
  /\ setting = "none"
  /\ listens' \in BOOLEAN
  /\ UNCHANGED <<reported, device, setting>>

\* The client loads a user set: a mode of its own, and no trigger line unless
\* it was one.
Load ==
  /\ setting = "none"
  /\ device' \in Modes \cup {"mixed"}
  /\ listens' \in {listens, FALSE}
  /\ UNCHANGED <<reported, setting>>

Next ==
  \/ \E mode \in Modes : Set(mode)
  \/ Work \/ Return \/ Throw \/ Retask \/ Load

Spec == Init /\ [][Next]_avars
=============================================================================
