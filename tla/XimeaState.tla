----------------------------- MODULE XimeaState -----------------------------
(***************************************************************************)
(* The state the Camera object, its AcqThread, the XIMEA device and the    *)
(* clients of the plugin share, and the helpers every component uses.      *)
(*                                                                         *)
(* Three threads of control run over this state:                           *)
(*   - ctl, the Lima control thread that calls the Interface;              *)
(*   - acq, the AcqThread the camera creates at every prepareAcq;          *)
(*   - usr, a client of the Ximea Tango device, which reads and writes     *)
(*     camera attributes on the same Camera object with no lock.           *)
(***************************************************************************)
EXTENDS Integers, FiniteSets

CONSTANTS
  TrigModes,    \* the trigger modes a client may select
  FrameCounts,  \* the numbers of frames a client may ask for, 0 = endless
  MaxFrames,    \* bound: xiGetImage yields no result beyond this many frames
  MaxTriggers,  \* bound: where counts of software triggers saturate
  Failing,      \* the external calls that may fail
  UsrActive,    \* whether a Ximea Tango client is active
  LateConfig    \* whether settings may change while the thread still runs

Failures == {"start", "stop", "param", "read", "buffer", "open"}

ASSUME ConstantsAssumption ==
  /\ TrigModes \subseteq {"IntTrig", "IntTrigMult", "ExtTrigMult"}
  /\ MaxFrames \in Nat \ {0}
  /\ FrameCounts \subseteq 0 .. MaxFrames
  /\ MaxTriggers \in Nat \ {0}
  /\ Failing \subseteq Failures
  /\ UsrActive \in BOOLEAN
  /\ LateConfig \in BOOLEAN

VARIABLES
  \* fields of Camera
  xiH,                    \* is the device handle open?
  xi_status,              \* result of the last XIMEA call that was recorded
  m_status,               \* what getStatus reports
  m_image_number,
  m_nb_frames,
  m_trigger_mode,
  m_latency_time,         \* is the latency time positive?
  m_soft_trigger_issued,
  \* the AcqThread object: its Lima thread state and its two flags
  m_acq_thread,
  m_quit,
  m_thread_started,
  \* the XIMEA device behind xiH
  acquiring,
  trg_source,
  pending,                \* software triggers not yet turned into an image
  stray,                  \* history: no thread will stop the acquisition,
                          \* since a stop was refused or a start threw
  \* the acquisition thread: program counter and locals
  tpc,
  continueAcq,
  got,                    \* what the last xiGetImage really returned
  \* the control thread: operation, program counter, argument
  op,
  cpc,
  arg,
  armed,                  \* CtControl: prepared, startAcq is allowed
  \* the Tango client
  upc,
  \* history of the current AcqThread object
  delivered,              \* frames handed to Lima
  credit,                 \* software triggers issued minus triggers consumed
  carried                 \* flags it found raised when it was made, 0 or 1

device  == <<acquiring, trg_source, pending, stray>>
config  == <<m_nb_frames, m_trigger_mode, m_latency_time>>
object  == <<m_acq_thread, m_quit, m_thread_started>>
thread  == <<tpc, continueAcq, got>>
caller  == <<op, cpc, arg, armed>>
history == <<delivered, credit, carried>>

vars == <<xiH, xi_status, m_status, m_image_number, m_soft_trigger_issued,
          device, config, object, thread, caller, upc, history>>

-----------------------------------------------------------------------------
XiStatus == {"OK", "TIMEOUT", "ERROR"}
Status   == {"Ready", "Exposure", "Readout", "Latency", "Fault"}
Sources  == {"OFF", "SOFTWARE", "EDGE"}

Ops == {"none", "prepareAcq", "startAcq", "stopAcq", "reset", "close",
        "setTrigMode"}

\* Operations that begin by ending the acquisition thread.
StopOps == {"prepareAcq", "stopAcq", "reset", "close"}

CtlPcs == {"idle", "join", "stop", "again", "init", "new", "ready",
           "deviceReset", "reopen", "open", "configure", "source", "selector",
           "mode", "load", "loaded", "begin", "start", "trig", "flag", "closed"}

AcqPcs == {"none", "entry", "loop", "wait", "quitpoll", "clear", "expose",
           "read", "check", "readout", "deliver", "latency", "after",
           "leave", "exit"}

TypeOK ==
  /\ xiH \in BOOLEAN
  /\ xi_status \in XiStatus
  /\ m_status \in Status
  /\ m_image_number \in Nat
  /\ m_soft_trigger_issued \in BOOLEAN
  /\ acquiring \in BOOLEAN
  /\ trg_source \in Sources
  /\ pending \in 0 .. MaxTriggers
  /\ stray \in BOOLEAN
  /\ m_nb_frames \in Nat
  /\ m_trigger_mode \in {"IntTrig", "IntTrigMult", "ExtTrigMult"}
  /\ m_latency_time \in BOOLEAN
  /\ m_acq_thread \in {"NULL", "new", "running", "finished"}
  /\ m_quit \in BOOLEAN
  /\ m_thread_started \in BOOLEAN
  /\ tpc \in AcqPcs
  /\ continueAcq \in BOOLEAN
  /\ got \in XiStatus
  /\ op \in Ops
  /\ cpc \in CtlPcs
  /\ arg \in {"IntTrig", "IntTrigMult", "ExtTrigMult"}
  /\ armed \in BOOLEAN
  /\ upc \in {"idle", "flag", "load"}
  /\ delivered \in Nat
  /\ credit \in Int
  /\ carried \in {0, 1}

\* The camera as its constructor leaves it when every call of it succeeded.
Init ==
  /\ xiH = TRUE
  /\ xi_status = "OK"
  /\ m_status = "Ready"
  /\ m_image_number = 0
  /\ m_soft_trigger_issued = FALSE
  /\ acquiring = FALSE /\ trg_source = "OFF" /\ pending = 0
  /\ stray = FALSE
  /\ m_nb_frames = 1 /\ m_trigger_mode = "IntTrig" /\ m_latency_time = FALSE
  /\ m_acq_thread = "NULL" /\ m_quit = FALSE /\ m_thread_started = FALSE
  /\ tpc = "none" /\ continueAcq = TRUE /\ got = "OK"
  /\ op = "none" /\ cpc = "idle" /\ arg = "IntTrig" /\ armed = FALSE
  /\ upc = "idle"
  /\ delivered = 0 /\ credit = 0 /\ carried = 0

-----------------------------------------------------------------------------
\* Camera::_set_status: the recorded XIMEA status overrides the caller's wish.
SetStatus(s) == m_status' = IF xi_status = "OK" THEN s ELSE "Fault"

\* A parameter read or write of the SDK: it is refused without a handle, and
\* it records its result in the one xi_status all threads share.
ParamCall ==
  xi_status' \in (IF xiH THEN {"OK"} ELSE {})
                   \cup (IF ~xiH \/ "param" \in Failing THEN {"ERROR"} ELSE {})

\* xiStopAcquisition, whose result nobody looks at.
StopAcquisition ==
  /\ acquiring' \in {FALSE} \cup (IF "stop" \in Failing THEN {acquiring} ELSE {})
  /\ stray' = acquiring'

\* xiCloseDevice ends whatever the device was doing.
CloseHandle == xiH' = FALSE /\ acquiring' = FALSE /\ stray' = FALSE

\* xiSetParamInt(XI_PRM_USER_SET_LOAD): a factory user set has no trigger.
UserSetLoad ==
  /\ ParamCall
  /\ trg_source' = IF xi_status' = "OK" THEN "OFF" ELSE trg_source
  /\ UNCHANGED <<acquiring, pending, stray>>

Saturated(n) == IF n < MaxTriggers THEN n ELSE MaxTriggers

\* xiSetParamInt(XI_PRM_TRG_SOFTWARE): the first half of
\* Camera::_generate_soft_trigger.
FireTrigger ==
  /\ ParamCall
  /\ pending' = IF xi_status' = "OK" THEN Saturated(pending + 1) ELSE pending

\* The second half: the write the acquisition thread polls for.
RaiseFlag ==
  /\ m_soft_trigger_issued' = TRUE
  /\ credit' = Saturated(credit + 1)
=============================================================================
