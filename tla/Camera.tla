------------------------------- MODULE Camera -------------------------------
(***************************************************************************)
(* The operations of Camera that the Lima control thread calls through     *)
(* Interface, and the accesses of a Ximea Tango client.  An operation is   *)
(* cut where another thread can act between two of its accesses; "cpc"     *)
(* names the next piece.  Where the code tests xi_status after an SDK call *)
(* the test is a step of its own, because any other thread may have        *)
(* overwritten xi_status in between.                                       *)
(***************************************************************************)
EXTENDS XimeaState

\* What Lima polls: Interface::getStatus reports the status word one to one,
\* getNbHwAcquiredFrames the frame counter.
GetStatus == m_status

GetNbHwAcquiredFrames == m_image_number

\* CtControl is external: it accepts startAcq after prepareAcq, once per
\* preparation except in IntTrigMult, where a further start asks for Ready.
StartAccepted ==
  /\ armed
  /\ m_trigger_mode = "IntTrigMult" => GetStatus = "Ready"

\* CtControl applies settings before it prepares; with LateConfig it may do
\* so while the thread of the last acquisition is still on its way out.
Configurable ==
  /\ op = "none"
  /\ m_acq_thread = "running" => LateConfig /\ GetStatus = "Ready"

Return == op' = "none" /\ cpc' = "idle"

-----------------------------------------------------------------------------
\* _stop_acq_thread raises m_quit, in its own test or in ~AcqThread, whatever
\* state the thread is in.
RaiseQuit == m_quit' = IF m_acq_thread = "NULL" THEN m_quit ELSE TRUE

\* Entry of prepareAcq, stopAcq, reset and ~Camera.
Call(o) ==
  /\ op = "none"
  /\ op' = o
  /\ cpc' = "join"
  /\ armed' = FALSE
  /\ RaiseQuit
  /\ UNCHANGED <<xiH, xi_status, m_status, m_image_number,
                 m_soft_trigger_issued, device, config, m_acq_thread,
                 m_thread_started, thread, arg, upc, history>>

\* delete m_acq_thread: Lima's ~Thread waits for the thread to end.
Join ==
  /\ cpc = "join"
  /\ m_acq_thread # "running"
  /\ m_acq_thread' = "NULL"
  /\ cpc' = CASE op = "prepareAcq" -> "init"
              [] op = "close"      -> "closed"
              [] OTHER             -> "stop"
  /\ IF op = "close" THEN CloseHandle ELSE UNCHANGED <<xiH, acquiring, stray>>
  /\ UNCHANGED <<xi_status, m_status, m_image_number, m_soft_trigger_issued,
                 trg_source, pending, config, m_quit, m_thread_started,
                 thread, op, arg, armed, upc, history>>

-----------------------------------------------------------------------------
\* stopAcq after the join.  Interface::reset stops, then Camera::reset stops
\* once more before it resets the device.
StopDevice ==
  /\ cpc \in {"stop", "again"}
  /\ StopAcquisition
  /\ SetStatus("Ready")
  /\ IF op = "stopAcq"
     THEN Return
     ELSE op' = op /\ cpc' = IF cpc = "stop" THEN "again" ELSE "deviceReset"
  /\ UNCHANGED <<xiH, xi_status, m_image_number, m_soft_trigger_issued,
                 trg_source, pending, config, object, thread, arg, armed,
                 upc, history>>

\* prepareAcq after the join: the frame counter, then getExpTime for the
\* timeout of the thread to come.
PrepareCounter_Kept ==
  /\ cpc = "init"
  /\ ParamCall
  /\ cpc' = "new"
  /\ UNCHANGED <<xiH, m_status, m_image_number, m_soft_trigger_issued,
                 device, config, object, thread, op, arg, armed, upc, history>>

PrepareCounter_LastFrame ==
  /\ cpc = "init"
  /\ m_image_number' = -1
  /\ ParamCall
  /\ cpc' = "new"
  /\ UNCHANGED <<xiH, m_status, m_soft_trigger_issued, device, config,
                 object, thread, op, arg, armed, upc, history>>

PrepareCounter ==
  /\ cpc = "init"
  /\ m_image_number' = 0
  /\ ParamCall
  /\ cpc' = "new"
  /\ UNCHANGED <<xiH, m_status, m_soft_trigger_issued, device, config,
                 object, thread, op, arg, armed, upc, history>>

NewThread_FailureSwallowed ==
  /\ cpc = "new"
  /\ IF xi_status = "OK"
     THEN /\ m_acq_thread' = "new" /\ m_quit' = FALSE /\ m_thread_started' = FALSE
          /\ delivered' = 0 /\ credit' = 0
          /\ carried' = IF m_soft_trigger_issued THEN 1 ELSE 0
     ELSE UNCHANGED <<object, history>>
  /\ cpc' = "ready"
  /\ UNCHANGED <<xiH, xi_status, m_status, m_image_number,
                 m_soft_trigger_issued, device, config, thread, op, arg,
                 armed, upc>>

NewThread ==
  /\ cpc = "new" /\ xi_status = "OK"
  /\ m_acq_thread' = "new" /\ m_quit' = FALSE /\ m_thread_started' = FALSE
  /\ delivered' = 0 /\ credit' = 0
  /\ carried' = IF m_soft_trigger_issued THEN 1 ELSE 0
  /\ cpc' = "ready"
  /\ UNCHANGED <<xiH, xi_status, m_status, m_image_number,
                 m_soft_trigger_issued, device, config, thread, op, arg,
                 armed, upc>>

\* The final _set_status(Ready) of prepareAcq and of Interface::reset.
Ready_NotSet ==
  /\ cpc = "ready"
  /\ armed' = (op = "prepareAcq")
  /\ Return
  /\ UNCHANGED <<xiH, xi_status, m_status, m_image_number,
                 m_soft_trigger_issued, device, config, object, thread, arg,
                 upc, history>>

Ready ==
  /\ cpc = "ready"
  /\ SetStatus("Ready")
  /\ armed' = (op = "prepareAcq")
  /\ Return
  /\ UNCHANGED <<xiH, xi_status, m_image_number, m_soft_trigger_issued,
                 device, config, object, thread, arg, upc, history>>

-----------------------------------------------------------------------------
\* Camera::reset after its stopAcq: device reset, close, reopen.
DeviceReset ==
  /\ cpc = "deviceReset"
  /\ ParamCall
  /\ cpc' = "reopen"
  /\ UNCHANGED <<xiH, m_status, m_image_number, m_soft_trigger_issued,
                 device, config, object, thread, op, arg, armed, upc, history>>

CloseDevice ==
  /\ cpc = "reopen" /\ xi_status = "OK"
  /\ CloseHandle
  /\ cpc' = "open"
  /\ UNCHANGED <<xi_status, m_status, m_image_number, m_soft_trigger_issued,
                 trg_source, pending, config, object, thread, op, arg, armed,
                 upc, history>>

\* _startup: xiOpenDevice ...
OpenDevice ==
  /\ cpc = "open"
  /\ \E opened \in {TRUE} \cup (IF "open" \in Failing THEN {FALSE} ELSE {}) :
       /\ xiH' = opened
       /\ xi_status' = IF opened THEN "OK" ELSE "ERROR"
  /\ cpc' = "configure"
  /\ UNCHANGED <<m_status, m_image_number, m_soft_trigger_issued, device,
                 config, object, thread, op, arg, armed, upc, history>>

\* ... then the parameter writes up to setTrigMode(IntTrig) ...
Configure ==
  /\ cpc = "configure" /\ xi_status = "OK"
  /\ ParamCall
  /\ arg' = "IntTrig"
  /\ cpc' = "source"
  /\ UNCHANGED <<xiH, m_status, m_image_number, m_soft_trigger_issued,
                 device, config, object, thread, op, armed, upc, history>>

\* ... and, after it, setMode, which loads a factory user set.
LoadUserSet ==
  /\ cpc = "load"
  /\ UserSetLoad
  /\ cpc' = "loaded"
  /\ UNCHANGED <<xiH, m_status, m_image_number, m_soft_trigger_issued,
                 config, object, thread, op, arg, armed, upc, history>>

Loaded ==
  /\ cpc = "loaded" /\ xi_status = "OK"
  /\ cpc' = "ready"
  /\ UNCHANGED <<xiH, xi_status, m_status, m_image_number,
                 m_soft_trigger_issued, device, config, object, thread, op,
                 arg, armed, upc, history>>

-----------------------------------------------------------------------------
\* setTrigMode: [GPIO setup,] trigger source, trigger selector, and the mode
\* is recorded only when every write was accepted.
SourceOf(mode) == CASE mode = "IntTrig"     -> "OFF"
                    [] mode = "IntTrigMult" -> "SOFTWARE"
                    [] mode = "ExtTrigMult" -> "EDGE"

WriteSource(mode) ==
  /\ ParamCall
  /\ trg_source' = IF xi_status' = "OK" THEN SourceOf(mode) ELSE trg_source
  /\ UNCHANGED <<acquiring, pending, stray>>

SetTrigMode(mode) ==
  /\ Configurable
  /\ op' = "setTrigMode" /\ arg' = mode /\ armed' = FALSE
  /\ IF mode = "ExtTrigMult"
     THEN ParamCall /\ cpc' = "source" /\ UNCHANGED device
     ELSE WriteSource(mode) /\ cpc' = "selector"
  /\ UNCHANGED <<xiH, m_status, m_image_number, m_soft_trigger_issued,
                 config, object, thread, upc, history>>

SetSource ==
  /\ cpc = "source" /\ xi_status = "OK"
  /\ WriteSource(arg)
  /\ cpc' = "selector"
  /\ UNCHANGED <<xiH, m_status, m_image_number, m_soft_trigger_issued,
                 config, object, thread, op, arg, armed, upc, history>>

SetSelector ==
  /\ cpc = "selector" /\ xi_status = "OK"
  /\ ParamCall
  /\ cpc' = "mode"
  /\ UNCHANGED <<xiH, m_status, m_image_number, m_soft_trigger_issued,
                 device, config, object, thread, op, arg, armed, upc, history>>

\* In _startup, setNbFrames(1) follows.
SetMode ==
  /\ cpc = "mode" /\ xi_status = "OK"
  /\ m_trigger_mode' = arg
  /\ IF op = "reset"
     THEN m_nb_frames' = 1 /\ op' = op /\ cpc' = "load"
     ELSE UNCHANGED m_nb_frames /\ Return
  /\ UNCHANGED <<xiH, xi_status, m_status, m_image_number,
                 m_soft_trigger_issued, device, m_latency_time, object,
                 thread, arg, armed, upc, history>>

SetNbFrames(n) ==
  /\ Configurable
  /\ m_nb_frames' = n
  /\ armed' = FALSE
  /\ UNCHANGED <<xiH, xi_status, m_status, m_image_number,
                 m_soft_trigger_issued, device, m_trigger_mode,
                 m_latency_time, object, thread, op, cpc, arg, upc, history>>

SetLatTime(positive) ==
  /\ Configurable
  /\ m_latency_time' = positive
  /\ armed' = FALSE
  /\ UNCHANGED <<xiH, xi_status, m_status, m_image_number,
                 m_soft_trigger_issued, device, m_trigger_mode, m_nb_frames,
                 object, thread, op, cpc, arg, upc, history>>

-----------------------------------------------------------------------------
\* startAcq: a further trigger when the thread has started in IntTrigMult,
\* the start of device and thread otherwise.
StartAcq ==
  /\ op = "none" /\ StartAccepted
  /\ op' = "startAcq"
  /\ cpc' = IF m_trigger_mode = "IntTrigMult" /\ m_thread_started
            THEN "trig" ELSE "begin"
  /\ armed' = (m_trigger_mode = "IntTrigMult")
  /\ UNCHANGED <<xiH, xi_status, m_status, m_image_number,
                 m_soft_trigger_issued, device, config, object, thread, arg,
                 upc, history>>

\* The result of xiStartAcquisition is not looked at.
StartDevice ==
  /\ cpc = "begin"
  /\ \E started \in (IF xiH THEN {TRUE} ELSE {})
                      \cup (IF ~xiH \/ "start" \in Failing THEN {FALSE} ELSE {}) :
       /\ acquiring' = (acquiring \/ started)
       /\ pending' = IF ~acquiring /\ started THEN 0 ELSE pending
  /\ m_quit' = FALSE
  /\ cpc' = "start"
  /\ UNCHANGED <<xiH, xi_status, m_status, m_image_number,
                 m_soft_trigger_issued, trg_source, stray, config,
                 m_acq_thread, m_thread_started, thread, op, arg, armed, upc,
                 history>>

\* Thread::start of Lima throws on a running thread, runs it otherwise.  The
\* device has been started by then: a thread past its own xiStopAcquisition
\* leaves it acquiring.
StartThread ==
  /\ cpc = "start"
  /\ IF m_acq_thread = "running"
     THEN /\ stray' = (stray \/ (acquiring /\ tpc = "exit"))
          /\ Return
          /\ UNCHANGED <<m_acq_thread, tpc>>
     ELSE /\ stray' = FALSE
          /\ m_acq_thread' = "running"
          /\ tpc' = "entry"
          /\ IF m_trigger_mode = "IntTrigMult"
             THEN op' = op /\ cpc' = "trig"
             ELSE Return
  /\ UNCHANGED <<xiH, xi_status, m_status, m_image_number,
                 m_soft_trigger_issued, acquiring, trg_source, pending, config,
                 m_quit, m_thread_started, continueAcq, got, arg, armed, upc,
                 history>>

StartTrigger ==
  /\ cpc = "trig"
  /\ FireTrigger
  /\ cpc' = "flag"
  /\ UNCHANGED <<xiH, m_status, m_image_number, m_soft_trigger_issued,
                 acquiring, trg_source, stray, config, object, thread, op,
                 arg, armed, upc, history>>

StartFlag ==
  /\ cpc = "flag" /\ xi_status = "OK"
  /\ RaiseFlag
  /\ Return
  /\ UNCHANGED <<xiH, xi_status, m_status, m_image_number, device, config,
                 object, thread, arg, armed, upc, delivered, carried>>

\* THROW_HW_ERROR after a parameter call, or after xiOpenDevice, whose result
\* reads as a failure.  Nothing is undone.
Throw ==
  /\ cpc \in {"new", "reopen", "configure", "source", "selector", "mode",
              "loaded", "flag"}
  /\ xi_status # "OK"
  /\ Return
  /\ UNCHANGED <<xiH, xi_status, m_status, m_image_number,
                 m_soft_trigger_issued, device, config, object, thread, arg,
                 armed, upc, history>>

-----------------------------------------------------------------------------
\* A Ximea Tango client reads or writes an attribute that is a parameter of
\* the device and does not change how it acquires, as the temperatures.
AttributeAccess ==
  /\ UsrActive /\ upc = "idle" /\ cpc # "closed"
  /\ ParamCall
  /\ UNCHANGED <<xiH, m_status, m_image_number, m_soft_trigger_issued,
                 device, config, object, thread, caller, upc, history>>

\* It writes the attribute mode, Camera::setMode: the selector, then the load
\* of the user set if the selector reads as written.
UserMode ==
  /\ UsrActive /\ upc = "idle" /\ cpc # "closed"
  /\ ParamCall
  /\ upc' = "load"
  /\ UNCHANGED <<xiH, m_status, m_image_number, m_soft_trigger_issued,
                 device, config, object, thread, caller, history>>

UserLoad ==
  /\ upc = "load"
  /\ upc' = "idle"
  /\ IF xi_status = "OK" THEN UserSetLoad ELSE UNCHANGED <<xi_status, device>>
  /\ UNCHANGED <<xiH, m_status, m_image_number, m_soft_trigger_issued,
                 config, object, thread, caller, history>>

\* It writes the attribute software_trigger: Camera::setSoftwareTrigger.
UserTrigger ==
  /\ UsrActive /\ upc = "idle" /\ cpc # "closed"
  /\ FireTrigger
  /\ upc' = "flag"
  /\ UNCHANGED <<xiH, m_status, m_image_number, m_soft_trigger_issued,
                 acquiring, trg_source, stray, config, object, thread, caller,
                 history>>

UserFlag ==
  /\ upc = "flag"
  /\ upc' = "idle"
  /\ IF xi_status = "OK"
     THEN RaiseFlag
     ELSE UNCHANGED <<m_soft_trigger_issued, credit>>
  /\ UNCHANGED <<xiH, xi_status, m_status, m_image_number, device, config,
                 object, thread, caller, delivered, carried>>

-----------------------------------------------------------------------------
CtlCall ==
  \/ \E o \in StopOps : Call(o)
  \/ StartAcq
  \/ \E mode \in TrigModes : SetTrigMode(mode)
  \/ \E n \in FrameCounts : SetNbFrames(n)
  \/ \E positive \in BOOLEAN : SetLatTime(positive)

CtlStep ==
  \/ Join \/ StopDevice \/ PrepareCounter \/ NewThread \/ Ready
  \/ DeviceReset \/ CloseDevice \/ OpenDevice \/ Configure
  \/ SetSource \/ SetSelector \/ SetMode \/ LoadUserSet \/ Loaded
  \/ StartDevice \/ StartThread \/ StartTrigger \/ StartFlag \/ Throw

UsrNext ==
  AttributeAccess \/ UserMode \/ UserLoad \/ UserTrigger \/ UserFlag
=============================================================================
