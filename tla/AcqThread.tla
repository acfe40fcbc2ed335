------------------------------ MODULE AcqThread ------------------------------
(***************************************************************************)
(* AcqThread::threadFunction, one action per access to state another       *)
(* thread can see.  The XIMEA SDK (xiGetImage, xiStopAcquisition) and      *)
(* Lima's buffer manager (newFrameReady) are external: their results are   *)
(* chosen from what they may answer in the current state.                  *)
(***************************************************************************)
EXTENDS XimeaState

\* The loop condition on the frame count.  Zero frames means "until stopped".
MoreFrames_OffByOne == m_nb_frames = 0 \/ m_image_number <= m_nb_frames

MoreFrames_UntilStopped == TRUE

MoreFrames == m_nb_frames = 0 \/ m_image_number < m_nb_frames

Entry ==
  /\ tpc = "entry"
  /\ m_thread_started' = TRUE
  /\ continueAcq' = TRUE
  /\ tpc' = "loop"
  /\ UNCHANGED <<xiH, xi_status, m_status, m_image_number,
                 m_soft_trigger_issued, device, config, m_acq_thread, m_quit,
                 got, caller, upc, history>>

LoopTest ==
  /\ tpc = "loop"
  /\ tpc' = IF m_quit \/ ~MoreFrames THEN "leave"
            ELSE IF m_trigger_mode = "IntTrigMult" THEN "wait" ELSE "expose"
  /\ UNCHANGED <<xiH, xi_status, m_status, m_image_number,
                 m_soft_trigger_issued, device, config, object, continueAcq,
                 got, caller, upc, history>>

\* The test half of Camera::_soft_trigger_issued.
PollTrigger ==
  /\ tpc = "wait"
  /\ tpc' = IF m_soft_trigger_issued THEN "clear" ELSE "quitpoll"
  /\ UNCHANGED <<xiH, xi_status, m_status, m_image_number,
                 m_soft_trigger_issued, device, config, object, continueAcq,
                 got, caller, upc, history>>

PollQuit ==
  /\ tpc = "quitpoll"
  /\ tpc' = IF m_quit THEN "leave" ELSE "wait"
  /\ UNCHANGED <<xiH, xi_status, m_status, m_image_number,
                 m_soft_trigger_issued, device, config, object, continueAcq,
                 got, caller, upc, history>>

\* The clear half of _soft_trigger_issued, then the test of m_quit.
ClearTrigger_Kept ==
  /\ tpc = "clear"
  /\ credit' = credit - 1
  /\ tpc' = IF m_quit THEN "leave" ELSE "expose"
  /\ UNCHANGED <<xiH, xi_status, m_status, m_image_number,
                 m_soft_trigger_issued, device, config, object, continueAcq,
                 got, caller, upc, delivered, carried>>

ClearTrigger ==
  /\ tpc = "clear"
  /\ m_soft_trigger_issued' = FALSE
  /\ credit' = credit - 1
  /\ tpc' = IF m_quit THEN "leave" ELSE "expose"
  /\ UNCHANGED <<xiH, xi_status, m_status, m_image_number, device, config,
                 object, continueAcq, got, caller, upc, delivered, carried>>

Expose ==
  /\ tpc = "expose"
  /\ SetStatus("Exposure")
  /\ tpc' = "read"
  /\ UNCHANGED <<xiH, xi_status, m_image_number, m_soft_trigger_issued,
                 device, config, object, continueAcq, got, caller, upc,
                 history>>

\* What xiGetImage may answer: an image needs a running acquisition and, with
\* a software trigger source, a trigger; the wait is bounded by its timeout.
ImageResults ==
  LET image == xiH /\ acquiring /\ (trg_source = "SOFTWARE" => pending > 0)
      error == ~(xiH /\ acquiring) \/ "read" \in Failing
      more  == m_image_number < MaxFrames
  IN  {"TIMEOUT"} \cup (IF image /\ more THEN {"OK"} ELSE {})
                  \cup (IF error /\ more THEN {"ERROR"} ELSE {})

\* Camera::_read_image.
ReadImage ==
  /\ tpc = "read"
  /\ xi_status' \in ImageResults
  /\ got' = xi_status'
  /\ pending' = IF xi_status' = "OK" /\ trg_source = "SOFTWARE"
                THEN pending - 1 ELSE pending
  /\ tpc' = "check"
  /\ UNCHANGED <<xiH, m_status, m_image_number, m_soft_trigger_issued,
                 acquiring, trg_source, stray, config, object, continueAcq,
                 caller, upc, history>>

\* Where the read loop goes next: out on m_quit, round again on a timeout.
AfterRead_QuitIgnored == IF xi_status = "TIMEOUT" THEN "read" ELSE "readout"

AfterRead_NoTimeoutLoop == IF m_quit THEN "leave" ELSE "readout"

AfterRead_DeliverOnQuit ==
  IF m_quit /\ xi_status = "TIMEOUT" THEN "leave"
  ELSE IF xi_status = "TIMEOUT" THEN "read" ELSE "readout"

AfterRead ==
  IF m_quit THEN "leave"
  ELSE IF xi_status = "TIMEOUT" THEN "read" ELSE "readout"

CheckRead ==
  /\ tpc = "check"
  /\ tpc' = AfterRead
  /\ UNCHANGED <<xiH, xi_status, m_status, m_image_number,
                 m_soft_trigger_issued, device, config, object, continueAcq,
                 got, caller, upc, history>>

Readout ==
  /\ tpc = "readout"
  /\ SetStatus("Readout")
  /\ tpc' = "deliver"
  /\ UNCHANGED <<xiH, xi_status, m_image_number, m_soft_trigger_issued,
                 device, config, object, continueAcq, got, caller, upc,
                 history>>

\* newFrameReady may refuse the frame; the frame counts either way.
Deliver ==
  /\ tpc = "deliver"
  /\ continueAcq' \in {TRUE} \cup (IF "buffer" \in Failing THEN {FALSE} ELSE {})
  /\ m_image_number' = m_image_number + 1
  /\ delivered' = delivered + 1
  /\ tpc' = "latency"
  /\ UNCHANGED <<xiH, xi_status, m_status, m_soft_trigger_issued, device,
                 config, object, got, caller, upc, credit, carried>>

LatencyWait ==
  /\ tpc = "latency"
  /\ IF m_latency_time THEN SetStatus("Latency") ELSE UNCHANGED m_status
  /\ tpc' = "after"
  /\ UNCHANGED <<xiH, xi_status, m_image_number, m_soft_trigger_issued,
                 device, config, object, continueAcq, got, caller, upc,
                 history>>

\* The verdict on the frame: Fault and out when Lima refused it, Fault and
\* on with the next frame when the read failed, Ready otherwise.
Verdict_RefusalSilent ==
  /\ tpc' = IF continueAcq THEN "loop" ELSE "leave"
  /\ IF continueAcq THEN SetStatus("Ready") ELSE UNCHANGED m_status

Verdict_ErrorIsReady ==
  /\ tpc' = IF continueAcq THEN "loop" ELSE "leave"
  /\ m_status' = IF continueAcq THEN "Ready" ELSE "Fault"

Verdict_RefusalContinues ==
  /\ tpc' = "loop"
  /\ IF continueAcq /\ xi_status = "OK"
     THEN SetStatus("Ready") ELSE SetStatus("Fault")

Verdict ==
  /\ tpc' = IF continueAcq THEN "loop" ELSE "leave"
  /\ IF continueAcq /\ xi_status = "OK"
     THEN SetStatus("Ready") ELSE SetStatus("Fault")

AfterFrame ==
  /\ tpc = "after"
  /\ Verdict
  /\ UNCHANGED <<xiH, xi_status, m_image_number, m_soft_trigger_issued,
                 device, config, object, continueAcq, got, caller, upc,
                 history>>

\* xiStopAcquisition on the way out, "no matter what".
Leave_KeepsAcquiring ==
  /\ tpc = "leave"
  /\ tpc' = "exit"
  /\ UNCHANGED <<xiH, xi_status, m_status, m_image_number,
                 m_soft_trigger_issued, device, config, object, continueAcq,
                 got, caller, upc, history>>

Leave ==
  /\ tpc = "leave"
  /\ StopAcquisition
  /\ tpc' = "exit"
  /\ UNCHANGED <<xiH, xi_status, m_status, m_image_number,
                 m_soft_trigger_issued, trg_source, pending, config, object,
                 continueAcq, got, caller, upc, history>>

\* Lima's Thread marks itself finished once threadFunction has returned.
Exit ==
  /\ tpc = "exit"
  /\ m_acq_thread' = "finished"
  /\ tpc' = "none"
  /\ UNCHANGED <<xiH, xi_status, m_status, m_image_number,
                 m_soft_trigger_issued, device, config, m_quit,
                 m_thread_started, continueAcq, got, caller, upc, history>>

AcqNext ==
  \/ Entry \/ LoopTest \/ PollTrigger \/ PollQuit \/ ClearTrigger
  \/ Expose \/ ReadImage \/ CheckRead \/ Readout \/ Deliver
  \/ LatencyWait \/ AfterFrame \/ Leave \/ Exit
=============================================================================
