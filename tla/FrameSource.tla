----------------------------- MODULE FrameSource -----------------------------
(***************************************************************************)
(* What the plugin promises Lima about one acquisition, with no threads,   *)
(* status words or device in sight: frames are numbered from zero without  *)
(* gaps, there are never more of them than asked for, none comes before    *)
(* the start or after the end, and once a stop has been requested at most  *)
(* the frame already read is still delivered.                              *)
(***************************************************************************)
EXTENDS Naturals

CONSTANT Quotas       \* the numbers of frames that may be asked for

VARIABLES
  phase,     \* "idle", "ready" (prepared), "running", "ended"
  count,     \* frames delivered since the preparation
  quota,     \* frames asked for, 0 = endless
  stopping,  \* a stop has been requested and not yet granted
  grace      \* may a frame be delivered although a stop was requested?

fvars == <<phase, count, quota, stopping, grace>>

Init ==
  /\ phase = "idle" /\ count = 0 /\ quota = 1
  /\ stopping = FALSE /\ grace = FALSE

SetQuota ==
  /\ ~stopping /\ phase # "running"
  /\ quota' \in Quotas
  /\ UNCHANGED <<phase, count, stopping, grace>>

Prepare ==
  /\ ~stopping /\ phase = "idle"
  /\ phase' = "ready"
  /\ UNCHANGED <<count, quota, stopping, grace>>

\* An ended acquisition may be started again: it has nothing left to deliver.
Start ==
  /\ ~stopping /\ phase \in {"ready", "ended"}
  /\ phase' = "running"
  /\ UNCHANGED <<count, quota, stopping, grace>>

Frame ==
  /\ phase = "running"
  /\ quota = 0 \/ count < quota
  /\ stopping => grace
  /\ count' = count + 1
  /\ grace' = FALSE
  /\ UNCHANGED <<phase, quota, stopping>>

Finish ==
  /\ phase = "running"
  /\ phase' = "ended" /\ grace' = FALSE
  /\ UNCHANGED <<count, quota, stopping>>

RequestStop ==
  /\ ~stopping
  /\ stopping' = TRUE
  /\ grace' \in {FALSE, phase = "running"}
  /\ UNCHANGED <<phase, count, quota>>

Release ==
  /\ stopping /\ phase # "running"
  /\ phase' = "idle" /\ count' = 0
  /\ stopping' = FALSE /\ grace' = FALSE
  /\ UNCHANGED quota

Next == SetQuota \/ Prepare \/ Start \/ Frame \/ Finish \/ RequestStop \/ Release

\* A requested stop is granted.
Spec == Init /\ [][Next]_fvars /\ WF_fvars(Release) /\ WF_fvars(stopping /\ Finish)
=============================================================================
