------------------------------ MODULE XimeaAcq ------------------------------
(***************************************************************************)
(* The acquisition path of the plugin: the camera operations, the          *)
(* acquisition thread and a Tango client, interleaved access by access.    *)
(***************************************************************************)
EXTENDS AcqThread, Camera

\* ~Camera has returned: the server is gone and nothing more happens.
Terminated == cpc = "closed" /\ UNCHANGED vars

Next == AcqNext \/ CtlCall \/ CtlStep \/ UsrNext \/ Terminated

Spec == Init /\ [][Next]_vars

\* The operating system runs every thread that can run; an operation that
\* has been called is carried on.  Nobody is obliged to call one.
Fairness == WF_vars(AcqNext) /\ WF_vars(CtlStep)

FairSpec == Spec /\ Fairness

\* A device that has an image to give does not time out forever, nor does one
\* that is not acquiring and can only refuse.  This is the hypothesis of
\* AcqCompletes and TriggerTaken, and of no other property.
DeviceAnswers ==
  /\ SF_vars(ReadImage /\ xi_status' = "OK")
  /\ SF_vars(ReadImage /\ xi_status' # "TIMEOUT" /\ ~acquiring)

-----------------------------------------------------------------------------
\* The frame counter is the number of frames this thread object has delivered:
\* no frame is numbered twice, skipped, or numbered by an earlier
\* acquisition's counter, and Lima is told their number.
FrameNumbering == m_acq_thread # "NULL" => GetNbHwAcquiredFrames = delivered

\* A thread never goes past the number of frames asked for, however stop,
\* prepare and start interleave with its loop test.
FrameQuota ==
  m_acq_thread = "running" => m_nb_frames = 0 \/ m_image_number <= m_nb_frames

\* The device acquires only while a thread is there to end it: stop, errors,
\* refused frames and quota all lead through a xiStopAcquisition ("no matter
\* what").  Two cases escape, and only until the next stop that is accepted:
\* the device refused the stop, which nobody notices, or startAcq started it
\* and then threw, because the thread it found running was past its own stop.
DeviceQuiet ==
  acquiring => \/ m_acq_thread = "running" /\ tpc # "exit"
               \/ op = "startAcq" /\ cpc = "start"
               \/ stray

\* getStatus never reports a busy camera that no thread will make ready: a
\* client waiting for the end of the acquisition is not left waiting.
BusyMeansRunning ==
  op = "none" /\ GetStatus \in {"Exposure", "Readout", "Latency"}
    => m_acq_thread = "running"

\* After a successful prepareAcq the camera reports Ready, whatever state the
\* acquisition it replaced was interrupted in.
PreparedIsReady ==
  op = "none" /\ armed /\ m_acq_thread = "new" => GetStatus = "Ready"

\* startAcq dereferences m_acq_thread untested: it finds a thread object even
\* after a prepareAcq, a stop or a reset that threw half-way.
StartHasThread == cpc \in {"begin", "start"} => m_acq_thread # "NULL"

\* A frame is handed to Lima only for a xiGetImage that did not time out.
NoPhantomFrame ==
  tpc \in {"readout", "deliver", "latency", "after"} => got # "TIMEOUT"

\* A thread never takes more software triggers than were issued since its
\* object was made and it found raised then; a raised flag is one it has not
\* taken yet.
OneExposurePerTrigger ==
  credit + carried >= IF m_soft_trigger_issued THEN 1 ELSE 0

\* A read that failed is visible as Fault when the frame has been dealt with.
FailuresReported ==
  [][tpc = "after" /\ tpc' # "after" /\ got # "OK" => m_status' = "Fault"]_vars

\* A frame refused by Lima ends the acquisition: nothing more is delivered.
RefusalIsFinal == [][delivered' > delivered => continueAcq]_vars

\* stopAcq, prepareAcq, reset and ~Camera always come back, whatever the
\* thread is waiting for when they are called.
StopReturns == (cpc = "join") ~> (cpc # "join")

\* A finite acquisition on the internal trigger ends by itself, with a device
\* that answers in the end.
AcqCompletes == DeviceAnswers =>
  (m_acq_thread = "running" /\ m_trigger_mode = "IntTrig" /\ m_nb_frames > 0)
    ~> (m_acq_thread # "running")

\* A software trigger that is flagged while the thread runs does not stay
\* flagged: the thread takes it, or ends; again if the device answers.
TriggerTaken == DeviceAnswers =>
  (m_soft_trigger_issued /\ m_acq_thread = "running")
    ~> (~m_soft_trigger_issued \/ m_acq_thread # "running")

-----------------------------------------------------------------------------
\* The acquisition path implements the frame source.  A stop is pending from
\* the call to the deletion of the thread; the frame it may still let through
\* is one the thread has already decided to deliver.
Stopping == cpc = "join"

Phase == [NULL    |-> "idle",    new      |-> "ready",
          running |-> "running", finished |-> "ended"][m_acq_thread]

Count == IF m_acq_thread = "NULL" THEN 0 ELSE m_image_number

Grace == Stopping /\ tpc \in {"readout", "deliver"}

Source == INSTANCE FrameSource WITH
  Quotas <- FrameCounts \cup {1}, phase <- Phase, count <- Count,
  quota <- m_nb_frames, stopping <- Stopping, grace <- Grace

ImplementsFrameSource == Source!Spec

-----------------------------------------------------------------------------
\* What stopAcq itself says at its end, "this->_set_status(Camera::Ready)": a
\* stopped camera is ready.
StopLeavesReady ==
  [][op = "stopAcq" /\ op' = "none" => m_status' = "Ready"]_vars

\* What XimeaAcqThread.cpp:61 says: in IntTrigMult the thread waits for the
\* trigger before it goes to Exposure.
TriggerBeforeExposure ==
  m_trigger_mode = "IntTrigMult" /\ tpc \in {"expose", "read"} => credit >= 0
=============================================================================
