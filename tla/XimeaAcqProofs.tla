--------------------------- MODULE XimeaAcqProofs ---------------------------
(***************************************************************************)
(* Theorems about the acquisition path, for every set of trigger modes,    *)
(* every number of frames, every bound on counts of triggers, every set of *)
(* failing calls, with and without a Tango client.                         *)
(*                                                                         *)
(* IInv is the inductive invariant of Spec with no assumption on the       *)
(* environment, and DeviceQuiet and Unrefused are inductive beside it.     *)
(* Others need a hypothesis: Quota, that settings do not change under a    *)
(* running thread; Reporting, that parameter calls are accepted; Sole, that *)
(* nobody but the acquisition thread makes XIMEA calls while it runs.  The *)
(* hypotheses of the theorems are those conditions.                        *)
(***************************************************************************)
EXTENDS XimeaAcq, TLAPS

\* Which pieces belong to which operation of the control thread.
OpAndPc ==
  \/ op = "none" /\ cpc = "idle"
  \/ op = "prepareAcq" /\ cpc \in {"join", "init", "new", "ready"}
  \/ op = "stopAcq" /\ cpc \in {"join", "stop"}
  \/ op = "close" /\ cpc \in {"join", "closed"}
  \/ op = "reset" /\ cpc \in {"join", "stop", "again", "deviceReset", "reopen",
                             "open", "configure", "source", "selector", "mode",
                             "load", "loaded", "ready"}
  \/ op = "setTrigMode" /\ cpc \in {"source", "selector", "mode"}
  \/ op = "startAcq" /\ cpc \in {"begin", "start", "trig", "flag"}

\* The program counter of the thread and the state of its object agree, and a
\* control thread that waits for a thread object to end has raised m_quit.
ThreadAlive ==
  /\ (m_acq_thread = "running") <=> (tpc # "none")
  /\ cpc = "join" /\ m_acq_thread # "NULL" => m_quit

\* Where in the operations the thread object does, and does not, exist; a new
\* thread object starts counting from zero.
NoStrayThread ==
  /\ op \in {"stopAcq", "reset", "close"} /\ cpc # "join" =>
       m_acq_thread = "NULL"
  /\ cpc \in {"init", "new"} => m_acq_thread = "NULL"
  /\ cpc = "new" => m_image_number = 0
  /\ op = "prepareAcq" /\ cpc = "ready" =>
       m_acq_thread = "new" /\ m_image_number = 0
  /\ cpc \in {"begin", "start"} => m_acq_thread # "NULL"
  /\ armed => m_acq_thread # "NULL"
  /\ armed => op \notin StopOps

\* FrameNumbering of XimeaAcq, the part of it that is inductive.
Numbering == m_acq_thread # "NULL" => m_image_number = delivered

\* OneExposurePerTrigger is inductive once it is known that nobody but the
\* thread lowers the flag, so that it is still up when the thread clears it.
Triggers ==
  /\ credit + carried >= 0
  /\ m_soft_trigger_issued => credit + carried >= 1
  /\ tpc = "clear" => m_soft_trigger_issued

\* The inductive invariant of Spec.
IInv ==
  /\ TypeOK /\ OpAndPc /\ ThreadAlive /\ NoStrayThread
  /\ Numbering /\ Triggers

\* Every step of the acquisition thread preserves the invariant.
LEMMA AcqPreserves == IInv /\ AcqNext => IInv'
<1> SUFFICES ASSUME IInv, AcqNext PROVE IInv'
  OBVIOUS
<1> USE ConstantsAssumption
   DEF IInv, TypeOK, OpAndPc, ThreadAlive, NoStrayThread, Numbering, Triggers,
       StopOps, XiStatus, Status, Sources, Ops, CtlPcs, AcqPcs, object, device,
       config, thread, caller, history
<1>1. CASE Entry
  BY <1>1 DEF Entry
<1>2. CASE LoopTest
  BY <1>2 DEF LoopTest
<1>3. CASE PollTrigger
  BY <1>3 DEF PollTrigger
<1>4. CASE PollQuit
  BY <1>4 DEF PollQuit
<1>5. CASE ClearTrigger
  <2>1. m_soft_trigger_issued' \in BOOLEAN
    BY <1>5, Zenon DEF ClearTrigger
  <2> QED
    BY <1>5, <2>1 DEF ClearTrigger
<1>6. CASE Expose
  BY <1>6 DEF Expose, SetStatus
<1>7. CASE ReadImage
  BY <1>7 DEF ReadImage, ImageResults
<1>8. CASE CheckRead
  BY <1>8 DEF CheckRead, AfterRead
<1>9. CASE Readout
  BY <1>9 DEF Readout, SetStatus
<1>10. CASE Deliver
  <2>1. continueAcq' \in BOOLEAN
    BY <1>10, Zenon DEF Deliver
  <2> QED
    BY <1>10, <2>1 DEF Deliver
<1>11. CASE LatencyWait
  BY <1>11 DEF LatencyWait, SetStatus
<1>12. CASE AfterFrame
  BY <1>12 DEF AfterFrame, Verdict, SetStatus
<1>13. CASE Leave
  <2>1. acquiring' \in BOOLEAN /\ stray' \in BOOLEAN
    <3>1. acquiring' \in {FALSE, acquiring} /\ stray' = acquiring'
      BY <1>13 DEF Leave, StopAcquisition
    <3> QED
      BY <3>1, Zenon
  <2> QED
    BY <1>13, <2>1 DEF Leave
<1>14. CASE Exit
  BY <1>14 DEF Exit
<1> QED
  BY <1>1, <1>2, <1>3, <1>4, <1>5, <1>6, <1>7, <1>8, <1>9, <1>10, <1>11, <1>12,
     <1>13, <1>14
     DEF AcqNext

\* Every step of an operation under way preserves the invariant.
LEMMA CtlPreserves == IInv /\ CtlStep => IInv'
<1> SUFFICES ASSUME IInv, CtlStep PROVE IInv'
  OBVIOUS
<1> USE ConstantsAssumption
   DEF IInv, TypeOK, OpAndPc, ThreadAlive, NoStrayThread, Numbering, Triggers,
       StopOps, XiStatus, Status, Sources, Ops, CtlPcs, AcqPcs, object, device,
       config, thread, caller, history
<1>1. CASE Join
  <2>1. xiH' \in BOOLEAN /\ acquiring' \in BOOLEAN /\ stray' \in BOOLEAN
    BY <1>1 DEF Join, CloseHandle
  <2>2. op \in StopOps
    BY <1>1 DEF Join
  <2>3. /\ op = "prepareAcq" => cpc' = "init"
        /\ op = "close" => cpc' = "closed"
        /\ op \in {"stopAcq", "reset"} => cpc' = "stop"
    BY <1>1, <2>2 DEF Join
  <2>4. UNCHANGED <<xi_status, m_status, m_image_number, m_soft_trigger_issued,
                    trg_source, pending, config, m_quit, m_thread_started,
                    thread, op, arg, armed, upc, history>>
        /\ m_acq_thread # "running" /\ m_acq_thread' = "NULL" /\ cpc = "join"
    BY <1>1 DEF Join
  <2> QED
    BY <2>1, <2>2, <2>3, <2>4
<1>2. CASE StopDevice
  <2>1. acquiring' \in BOOLEAN /\ stray' \in BOOLEAN
    <3>1. acquiring' \in {FALSE, acquiring} /\ stray' = acquiring'
      BY <1>2 DEF StopDevice, StopAcquisition
    <3> QED
      BY <3>1, Zenon
  <2> QED
    BY <1>2, <2>1 DEF StopDevice, SetStatus, Return
<1>3. CASE PrepareCounter
  BY <1>3 DEF PrepareCounter, ParamCall
<1>4. CASE NewThread
  <2>1. m_quit' \in BOOLEAN /\ m_thread_started' \in BOOLEAN
    BY <1>4, Zenon DEF NewThread
  <2> QED
    BY <1>4, <2>1 DEF NewThread
<1>5. CASE Ready
  BY <1>5 DEF Ready, SetStatus, Return
<1>6. CASE DeviceReset
  BY <1>6 DEF DeviceReset, ParamCall
<1>7. CASE CloseDevice
  <2>1. xiH' \in BOOLEAN /\ acquiring' \in BOOLEAN /\ stray' \in BOOLEAN
    BY <1>7, Zenon DEF CloseDevice, CloseHandle
  <2> QED
    BY <1>7, <2>1 DEF CloseDevice
<1>8. CASE OpenDevice
  <2>1. xiH' \in BOOLEAN
    BY <1>8, Zenon DEF OpenDevice
  <2> QED
    BY <1>8, <2>1 DEF OpenDevice
<1>9. CASE Configure
  BY <1>9 DEF Configure, ParamCall
<1>10. CASE SetSource
  BY <1>10 DEF SetSource, WriteSource, SourceOf, ParamCall
<1>11. CASE SetSelector
  BY <1>11 DEF SetSelector, ParamCall
<1>12. CASE SetMode
  BY <1>12 DEF SetMode, Return
<1>13. CASE LoadUserSet
  BY <1>13 DEF LoadUserSet, UserSetLoad, ParamCall
<1>14. CASE Loaded
  BY <1>14 DEF Loaded
<1>15. CASE StartDevice
  <2>1. acquiring' \in BOOLEAN /\ m_quit' \in BOOLEAN
    BY <1>15, Zenon DEF StartDevice
  <2> QED
    BY <1>15, <2>1 DEF StartDevice
<1>16. CASE StartThread
  <2>1. stray' \in BOOLEAN
    BY <1>16, Zenon DEF StartThread
  <2> QED
    BY <1>16, <2>1 DEF StartThread, Return
<1>17. CASE StartTrigger
  BY <1>17 DEF StartTrigger, FireTrigger, ParamCall, Saturated
<1>18. CASE StartFlag
  BY <1>18 DEF StartFlag, RaiseFlag, Return, Saturated
<1>19. CASE Throw
  BY <1>19 DEF Throw, Return
<1> QED
  BY <1>1, <1>2, <1>3, <1>4, <1>5, <1>6, <1>7, <1>8, <1>9, <1>10, <1>11, <1>12,
     <1>13, <1>14, <1>15, <1>16, <1>17, <1>18, <1>19
     DEF CtlStep

\* Every access of a Tango client preserves the invariant.
LEMMA UsrPreserves == IInv /\ UsrNext => IInv'
<1> SUFFICES ASSUME IInv, UsrNext PROVE IInv'
  OBVIOUS
<1> USE ConstantsAssumption
   DEF IInv, TypeOK, OpAndPc, ThreadAlive, NoStrayThread, Numbering, Triggers,
       StopOps, XiStatus, Status, Sources, Ops, CtlPcs, AcqPcs, object, device,
       config, thread, caller, history
<1>1. CASE AttributeAccess
  BY <1>1 DEF AttributeAccess, ParamCall
<1>2. CASE UserTrigger
  BY <1>2 DEF UserTrigger, FireTrigger, ParamCall, Saturated
<1>3. CASE UserFlag
  <2>1. m_soft_trigger_issued' \in BOOLEAN
    BY <1>3, Zenon DEF UserFlag, RaiseFlag, Saturated
  <2> QED
    BY <1>3, <2>1 DEF UserFlag, RaiseFlag, Saturated
<1>4. CASE UserMode
  BY <1>4 DEF UserMode, ParamCall
<1>5. CASE UserLoad
  BY <1>5 DEF UserLoad, UserSetLoad, ParamCall
<1> QED
  BY <1>1, <1>2, <1>3, <1>4, <1>5 DEF UsrNext

\* Every call of the control thread preserves the invariant.
LEMMA CallPreserves == IInv /\ CtlCall => IInv'
<1> SUFFICES ASSUME IInv, CtlCall PROVE IInv'
  OBVIOUS
<1> USE ConstantsAssumption
   DEF IInv, TypeOK, OpAndPc, ThreadAlive, NoStrayThread, Numbering, Triggers,
       StopOps, XiStatus, Status, Sources, Ops, CtlPcs, AcqPcs, object, device,
       config, thread, caller, history
<1>1. ASSUME NEW o \in StopOps, Call(o) PROVE IInv'
  <2>1. armed' \in BOOLEAN /\ m_quit' \in BOOLEAN
    BY <1>1, Zenon DEF Call, RaiseQuit
  <2>2. TypeOK'
    <3>1. /\ op' = o /\ cpc' = "join"
          /\ UNCHANGED <<xiH, xi_status, m_status, m_image_number,
                         m_soft_trigger_issued, device, config, m_acq_thread,
                         m_thread_started, thread, arg, upc, history>>
      BY <1>1 DEF Call, RaiseQuit
    <3> QED
      BY <2>1, <3>1
  <2>3. OpAndPc' /\ NoStrayThread' /\ Numbering' /\ Triggers'
    BY <1>1, <2>1 DEF Call, RaiseQuit
  <2>4. ThreadAlive'
    <3>1. m_acq_thread # "NULL" => m_quit'
      BY <1>1, Zenon DEF Call, RaiseQuit
    <3> QED
      BY <1>1, <3>1 DEF Call, RaiseQuit
  <2> QED
    BY <2>2, <2>3, <2>4
<1>2. CASE StartAcq
  <2>1. armed' \in BOOLEAN
    BY <1>2, Zenon DEF StartAcq
  <2> QED
    BY <1>2, <2>1 DEF StartAcq, StartAccepted
<1>3. ASSUME NEW mode \in TrigModes, SetTrigMode(mode) PROVE IInv'
  <2>1. armed' \in BOOLEAN
    BY <1>3, Zenon DEF SetTrigMode
  <2> QED
    BY <1>3, <2>1 DEF SetTrigMode, Configurable, WriteSource, SourceOf,
                      ParamCall
<1>4. ASSUME NEW n \in FrameCounts, SetNbFrames(n) PROVE IInv'
  <2>1. armed' \in BOOLEAN
    BY <1>4, Zenon DEF SetNbFrames
  <2> QED
    BY <1>4, <2>1 DEF SetNbFrames, Configurable
<1>5. ASSUME NEW positive \in BOOLEAN, SetLatTime(positive) PROVE IInv'
  <2>1. armed' \in BOOLEAN /\ m_latency_time' \in BOOLEAN
    BY <1>5, Zenon DEF SetLatTime
  <2> QED
    BY <1>5, <2>1 DEF SetLatTime, Configurable
<1> QED
  BY <1>1, <1>2, <1>3, <1>4, <1>5 DEF CtlCall

\* The invariant holds in every reachable state; all theorems below rest on it.
THEOREM InvHolds == Spec => []IInv
<1>1. Init => IInv
  <2> SUFFICES ASSUME Init PROVE IInv
    OBVIOUS
  <2>1. /\ xiH \in BOOLEAN /\ m_soft_trigger_issued \in BOOLEAN
        /\ acquiring \in BOOLEAN /\ m_latency_time \in BOOLEAN
        /\ stray \in BOOLEAN
        /\ m_quit \in BOOLEAN /\ continueAcq \in BOOLEAN
        /\ m_thread_started \in BOOLEAN /\ armed \in BOOLEAN
    BY Zenon DEF Init
  <2> QED
    BY <2>1, ConstantsAssumption
       DEF Init, IInv, TypeOK, OpAndPc, ThreadAlive, NoStrayThread, Numbering,
           Triggers, XiStatus, Status, Sources, Ops, CtlPcs, AcqPcs, StopOps
<1>2. IInv /\ [Next]_vars => IInv'
  <2> SUFFICES ASSUME IInv, [Next]_vars PROVE IInv'
    OBVIOUS
  <2>1. CASE UNCHANGED vars
    BY <2>1 DEF vars, IInv, TypeOK, OpAndPc, ThreadAlive, NoStrayThread,
                Numbering, Triggers, object, device, config, thread, caller,
                history
  <2> QED
    BY <2>1, AcqPreserves, CtlPreserves, UsrPreserves, CallPreserves
       DEF Next, Terminated
<1> QED
  BY <1>1, <1>2, PTL DEF Spec

\* What FrameQuota rests on: past the loop test there is a frame left to take,
\* and a thread that may be started has not passed the quota.
Quota ==
  /\ /\ m_acq_thread # "NULL"
     /\ armed \/ m_acq_thread = "running" \/ cpc \in {"begin", "start"}
     => m_nb_frames = 0 \/ m_image_number <= m_nb_frames
  /\ tpc \in {"wait", "quitpoll", "clear", "expose", "read", "check",
              "readout", "deliver"} => MoreFrames

\* Settings that stay put under a running thread keep the loop test valid up to
\* the delivery it lets through.
LEMMA QuotaStep ==
  ASSUME LateConfig = FALSE, IInv, Quota, [Next]_vars
  PROVE  Quota'
<1> USE DEF Quota, MoreFrames
<1>1. /\ m_nb_frames \in Nat /\ m_image_number \in Nat
      /\ OpAndPc /\ ThreadAlive /\ NoStrayThread
  BY DEF IInv, TypeOK
<1> USE <1>1 DEF OpAndPc, ThreadAlive, NoStrayThread, StopOps, object, device,
                 config, thread, caller, history
<1>2. CASE Entry
  BY <1>2 DEF Entry
<1>3. CASE LoopTest
  BY <1>3 DEF LoopTest
<1>4. CASE PollTrigger
  BY <1>4 DEF PollTrigger
<1>5. CASE PollQuit
  BY <1>5 DEF PollQuit
<1>6. CASE ClearTrigger
  BY <1>6 DEF ClearTrigger
<1>7. CASE Expose
  BY <1>7 DEF Expose
<1>8. CASE ReadImage
  BY <1>8 DEF ReadImage
<1>9. CASE CheckRead
  BY <1>9 DEF CheckRead, AfterRead
<1>10. CASE Readout
  BY <1>10 DEF Readout
<1>11. CASE Deliver
  BY <1>11 DEF Deliver
<1>12. CASE LatencyWait
  BY <1>12 DEF LatencyWait
<1>13. CASE AfterFrame
  BY <1>13 DEF AfterFrame, Verdict
<1>14. CASE Leave
  BY <1>14 DEF Leave
<1>15. CASE Exit
  BY <1>15 DEF Exit
<1>16. CASE Join
  BY <1>16 DEF Join
<1>17. CASE StopDevice
  BY <1>17 DEF StopDevice, Return
<1>18. CASE PrepareCounter
  BY <1>18 DEF PrepareCounter
<1>19. CASE NewThread
  BY <1>19 DEF NewThread
<1>20. CASE Ready
  BY <1>20 DEF Ready, Return
<1>21. CASE DeviceReset
  BY <1>21 DEF DeviceReset
<1>22. CASE CloseDevice
  BY <1>22 DEF CloseDevice
<1>23. CASE OpenDevice
  BY <1>23 DEF OpenDevice
<1>24. CASE Configure
  BY <1>24 DEF Configure
<1>25. CASE SetSource
  BY <1>25 DEF SetSource
<1>26. CASE SetSelector
  BY <1>26 DEF SetSelector
<1>27. CASE SetMode
  BY <1>27 DEF SetMode, Return
<1>28. CASE LoadUserSet
  BY <1>28 DEF LoadUserSet, UserSetLoad
<1>29. CASE Loaded
  BY <1>29 DEF Loaded
<1>30. CASE StartDevice
  BY <1>30 DEF StartDevice
<1>31. CASE StartThread
  BY <1>31 DEF StartThread, Return
<1>32. CASE StartTrigger
  BY <1>32 DEF StartTrigger
<1>33. CASE StartFlag
  BY <1>33 DEF StartFlag, Return
<1>34. CASE Throw
  BY <1>34 DEF Throw, Return
<1>35. CASE AttributeAccess
  BY <1>35 DEF AttributeAccess
<1>36. CASE UserTrigger
  BY <1>36 DEF UserTrigger
<1>37. CASE UserFlag
  BY <1>37 DEF UserFlag
<1>38. CASE StartAcq
  BY <1>38 DEF StartAcq, StartAccepted
<1>39. ASSUME NEW o \in StopOps, Call(o) PROVE Quota'
  BY <1>39 DEF Call, RaiseQuit
<1>40. ASSUME NEW mode \in TrigModes, SetTrigMode(mode) PROVE Quota'
  BY <1>40 DEF SetTrigMode, Configurable
<1>41. ASSUME NEW k \in FrameCounts, SetNbFrames(k) PROVE Quota'
  BY <1>41 DEF SetNbFrames, Configurable
<1>42. ASSUME NEW positive \in BOOLEAN, SetLatTime(positive) PROVE Quota'
  BY <1>42 DEF SetLatTime, Configurable
<1>43. CASE UNCHANGED vars
  BY <1>43 DEF vars
<1>44. CASE UserMode
  BY <1>44 DEF UserMode
<1>45. CASE UserLoad
  BY <1>45 DEF UserLoad, UserSetLoad
<1> QED
  BY <1>2, <1>3, <1>4, <1>5, <1>6, <1>7, <1>8, <1>9, <1>10, <1>11, <1>12,
     <1>13, <1>14, <1>15, <1>16, <1>17, <1>18, <1>19, <1>20, <1>21, <1>22,
     <1>23, <1>24, <1>25, <1>26, <1>27, <1>28, <1>29, <1>30, <1>31, <1>32,
     <1>33, <1>34, <1>35, <1>36, <1>37, <1>38, <1>39, <1>40, <1>41, <1>42,
     <1>43, <1>44, <1>45
     DEF Next, AcqNext, CtlCall, CtlStep, UsrNext, Terminated

\* Every step is a step of FrameSource or leaves its variables alone.
LEMMA RefinementStep ==
  ASSUME LateConfig = FALSE, IInv, Quota, [Next]_vars
  PROVE  [Source!Next]_(Source!fvars)
<1> USE DEF Source!Next, Source!fvars, Phase, Count, Grace, Stopping
<1>1. /\ m_acq_thread \in {"NULL", "new", "running", "finished"}
      /\ m_image_number \in Nat /\ m_nb_frames \in Nat
      /\ OpAndPc /\ ThreadAlive /\ NoStrayThread
  BY DEF IInv, TypeOK
<1> USE <1>1 DEF OpAndPc, ThreadAlive, NoStrayThread, StopOps, object, device,
                 config, thread, caller, history
<1>2. CASE Entry
  BY <1>2 DEF Entry
<1>3. CASE LoopTest
  BY <1>3 DEF LoopTest
<1>4. CASE PollTrigger
  BY <1>4 DEF PollTrigger
<1>5. CASE PollQuit
  BY <1>5 DEF PollQuit
<1>6. CASE ClearTrigger
  BY <1>6 DEF ClearTrigger
<1>7. CASE Expose
  BY <1>7 DEF Expose
<1>8. CASE ReadImage
  BY <1>8 DEF ReadImage
<1>9. CASE CheckRead
  BY <1>9 DEF CheckRead, AfterRead
<1>10. CASE Readout
  BY <1>10 DEF Readout
<1>11. CASE Deliver
  BY <1>11 DEF Deliver, Source!Frame, Quota, MoreFrames
<1>12. CASE LatencyWait
  BY <1>12 DEF LatencyWait
<1>13. CASE AfterFrame
  BY <1>13 DEF AfterFrame, Verdict
<1>14. CASE Leave
  BY <1>14 DEF Leave
<1>15. CASE Exit
  BY <1>15 DEF Exit, Source!Finish
<1>16. CASE Join
  BY <1>16 DEF Join, Source!Release
<1>17. CASE StopDevice
  BY <1>17 DEF StopDevice, Return
<1>18. CASE PrepareCounter
  BY <1>18 DEF PrepareCounter
<1>19. CASE NewThread
  BY <1>19 DEF NewThread, Source!Prepare
<1>20. CASE Ready
  BY <1>20 DEF Ready, Return
<1>21. CASE DeviceReset
  BY <1>21 DEF DeviceReset
<1>22. CASE CloseDevice
  BY <1>22 DEF CloseDevice
<1>23. CASE OpenDevice
  BY <1>23 DEF OpenDevice
<1>24. CASE Configure
  BY <1>24 DEF Configure
<1>25. CASE SetSource
  BY <1>25 DEF SetSource
<1>26. CASE SetSelector
  BY <1>26 DEF SetSelector
<1>27. CASE SetMode
  BY <1>27 DEF SetMode, Return, Source!SetQuota
<1>28. CASE LoadUserSet
  BY <1>28 DEF LoadUserSet, UserSetLoad
<1>29. CASE Loaded
  BY <1>29 DEF Loaded
<1>30. CASE StartDevice
  BY <1>30 DEF StartDevice
<1>31. CASE StartThread
  BY <1>31 DEF StartThread, Return, Source!Start
<1>32. CASE StartTrigger
  BY <1>32 DEF StartTrigger
<1>33. CASE StartFlag
  BY <1>33 DEF StartFlag, Return
<1>34. CASE Throw
  BY <1>34 DEF Throw, Return
<1>35. CASE AttributeAccess
  BY <1>35 DEF AttributeAccess
<1>36. CASE UserTrigger
  BY <1>36 DEF UserTrigger
<1>37. CASE UserFlag
  BY <1>37 DEF UserFlag
<1>38. CASE StartAcq
  BY <1>38 DEF StartAcq, StartAccepted
<1>39. ASSUME NEW o \in StopOps, Call(o) PROVE [Source!Next]_(Source!fvars)
  <2>1. /\ cpc = "idle" /\ cpc' = "join"
        /\ UNCHANGED <<m_acq_thread, m_image_number, m_nb_frames, tpc>>
    BY <1>39 DEF Call, RaiseQuit
  <2>2. Grace' = FALSE \/ (Grace' = TRUE /\ Phase = "running")
    BY <2>1
  <2>3. Phase' = Phase /\ Count' = Count
    BY <2>1
  <2>4. Grace' \in {FALSE, Phase = "running"}
    BY <2>2, Zenon
  <2> QED
    BY <2>1, <2>3, <2>4 DEF Source!RequestStop
<1>40. ASSUME NEW mode \in TrigModes, SetTrigMode(mode) PROVE
[Source!Next]_(Source!fvars)
  BY <1>40 DEF SetTrigMode, Configurable
<1>41. ASSUME NEW k \in FrameCounts, SetNbFrames(k) PROVE
[Source!Next]_(Source!fvars)
  BY <1>41 DEF SetNbFrames, Configurable, Source!SetQuota
<1>42. ASSUME NEW positive \in BOOLEAN, SetLatTime(positive) PROVE
[Source!Next]_(Source!fvars)
  BY <1>42 DEF SetLatTime, Configurable
<1>43. CASE UNCHANGED vars
  BY <1>43 DEF vars
<1>44. CASE UserMode
  BY <1>44 DEF UserMode
<1>45. CASE UserLoad
  BY <1>45 DEF UserLoad, UserSetLoad
<1> QED
  BY <1>2, <1>3, <1>4, <1>5, <1>6, <1>7, <1>8, <1>9, <1>10, <1>11, <1>12,
     <1>13, <1>14, <1>15, <1>16, <1>17, <1>18, <1>19, <1>20, <1>21, <1>22,
     <1>23, <1>24, <1>25, <1>26, <1>27, <1>28, <1>29, <1>30, <1>31, <1>32,
     <1>33, <1>34, <1>35, <1>36, <1>37, <1>38, <1>39, <1>40, <1>41, <1>42,
     <1>43, <1>44, <1>45
     DEF Next, AcqNext, CtlCall, CtlStep, UsrNext, Terminated

\* Nobody but the acquisition thread calls the SDK while it runs: no Tango
\* client, no software triggers, no late settings.
Undisturbed ==
  LateConfig = FALSE /\ UsrActive = FALSE /\ "IntTrigMult" \notin TrigModes

\* Then xi_status is the thread's own between a read and the verdict on it.
Sole ==
  /\ upc = "idle"
  /\ m_trigger_mode # "IntTrigMult" /\ arg # "IntTrigMult"
  /\ cpc \notin {"trig", "flag"}
  /\ op = "setTrigMode" => m_acq_thread # "running"
  /\ armed \/ cpc \in {"begin", "start"} => m_acq_thread = "new"
  /\ op = "startAcq" => ~armed
  /\ tpc \in {"check", "readout", "deliver", "latency", "after"} =>
       xi_status = got
  /\ NoPhantomFrame

\* Sole is inductive relative to IInv.
LEMMA SoleStep ==
  ASSUME Undisturbed, IInv, Sole, [Next]_vars
  PROVE  Sole'
<1> USE DEF Undisturbed, Sole, NoPhantomFrame
<1>1. /\ m_acq_thread \in {"NULL", "new", "running", "finished"}
      /\ OpAndPc /\ ThreadAlive /\ NoStrayThread
  BY DEF IInv, TypeOK
<1> USE <1>1 DEF OpAndPc, ThreadAlive, NoStrayThread, StopOps, object, device,
                 config, thread, caller, history
<1>2. CASE Entry
  BY <1>2 DEF Entry
<1>3. CASE LoopTest
  BY <1>3 DEF LoopTest
<1>4. CASE PollTrigger
  BY <1>4 DEF PollTrigger
<1>5. CASE PollQuit
  BY <1>5 DEF PollQuit
<1>6. CASE ClearTrigger
  BY <1>6 DEF ClearTrigger
<1>7. CASE Expose
  BY <1>7 DEF Expose
<1>8. CASE ReadImage
  BY <1>8 DEF ReadImage
<1>9. CASE CheckRead
  BY <1>9 DEF CheckRead, AfterRead
<1>10. CASE Readout
  BY <1>10 DEF Readout
<1>11. CASE Deliver
  BY <1>11 DEF Deliver
<1>12. CASE LatencyWait
  BY <1>12 DEF LatencyWait
<1>13. CASE AfterFrame
  BY <1>13 DEF AfterFrame, Verdict
<1>14. CASE Leave
  BY <1>14 DEF Leave
<1>15. CASE Exit
  BY <1>15 DEF Exit
<1>16. CASE Join
  BY <1>16 DEF Join
<1>17. CASE StopDevice
  BY <1>17 DEF StopDevice, Return
<1>18. CASE PrepareCounter
  BY <1>18 DEF PrepareCounter
<1>19. CASE NewThread
  BY <1>19 DEF NewThread
<1>20. CASE Ready
  BY <1>20 DEF Ready, Return
<1>21. CASE DeviceReset
  BY <1>21 DEF DeviceReset
<1>22. CASE CloseDevice
  BY <1>22 DEF CloseDevice
<1>23. CASE OpenDevice
  BY <1>23 DEF OpenDevice
<1>24. CASE Configure
  BY <1>24 DEF Configure
<1>25. CASE SetSource
  BY <1>25 DEF SetSource, WriteSource
<1>26. CASE SetSelector
  BY <1>26 DEF SetSelector
<1>27. CASE SetMode
  BY <1>27 DEF SetMode, Return
<1>28. CASE LoadUserSet
  BY <1>28 DEF LoadUserSet, UserSetLoad
<1>29. CASE Loaded
  BY <1>29 DEF Loaded
<1>30. CASE StartDevice
  BY <1>30 DEF StartDevice
<1>31. CASE StartThread
  BY <1>31 DEF StartThread, Return
<1>32. CASE StartTrigger
  BY <1>32 DEF StartTrigger
<1>33. CASE StartFlag
  BY <1>33 DEF StartFlag, Return
<1>34. CASE Throw
  BY <1>34 DEF Throw, Return
<1>35. CASE AttributeAccess
  BY <1>35 DEF AttributeAccess
<1>36. CASE UserTrigger
  BY <1>36 DEF UserTrigger
<1>37. CASE UserFlag
  BY <1>37 DEF UserFlag
<1>38. CASE StartAcq
  BY <1>38 DEF StartAcq, StartAccepted
<1>39. ASSUME NEW o \in StopOps, Call(o) PROVE Sole'
  BY <1>39 DEF Call, RaiseQuit
<1>40. ASSUME NEW mode \in TrigModes, SetTrigMode(mode) PROVE Sole'
  BY <1>40 DEF SetTrigMode, Configurable, WriteSource
<1>41. ASSUME NEW k \in FrameCounts, SetNbFrames(k) PROVE Sole'
  BY <1>41 DEF SetNbFrames, Configurable
<1>42. ASSUME NEW positive \in BOOLEAN, SetLatTime(positive) PROVE Sole'
  BY <1>42 DEF SetLatTime, Configurable
<1>43. CASE UNCHANGED vars
  BY <1>43 DEF vars
<1>44. CASE UserMode
  BY <1>44 DEF UserMode
<1>45. CASE UserLoad
  BY <1>45 DEF UserLoad, UserSetLoad
<1> QED
  BY <1>2, <1>3, <1>4, <1>5, <1>6, <1>7, <1>8, <1>9, <1>10, <1>11, <1>12,
     <1>13, <1>14, <1>15, <1>16, <1>17, <1>18, <1>19, <1>20, <1>21, <1>22,
     <1>23, <1>24, <1>25, <1>26, <1>27, <1>28, <1>29, <1>30, <1>31, <1>32,
     <1>33, <1>34, <1>35, <1>36, <1>37, <1>38, <1>39, <1>40, <1>41, <1>42,
     <1>43, <1>44, <1>45
     DEF Next, AcqNext, CtlCall, CtlStep, UsrNext, Terminated

\* What getStatus reports while something is going on.
Busy == {"Exposure", "Readout", "Latency"}

\* The status word is busy only while a thread reads an image, or until the stop
\* that interrupts it comes to its own _set_status.  Between that stop and the
\* next preparation the device may be away, and then no thread is made; a thread
\* that has been made and not started is Ready.
Reporting ==
  /\ m_quit /\ m_acq_thread # "NULL" => cpc = "join"
  /\ ~xiH => cpc = "closed" \/ (m_acq_thread = "NULL" /\ m_status \notin Busy)
  /\ cpc = "new" => xi_status = IF xiH THEN "OK" ELSE "ERROR"
  /\ op = "prepareAcq" /\ cpc = "ready" => xi_status = "OK"
  /\ m_status \in Busy =>
       \/ tpc \in {"read", "check", "readout", "deliver", "latency", "after"}
       \/ cpc \in {"join", "stop", "closed"}
       \/ op = "prepareAcq" /\ cpc \in {"init", "new", "ready"}
  /\ m_acq_thread = "new" /\ op \notin StopOps => m_status = "Ready"

\* Reporting is inductive relative to IInv.
LEMMA ReportingStep ==
  ASSUME "param" \notin Failing, IInv, Reporting, [Next]_vars
  PROVE  Reporting'
<1> USE DEF Reporting, Busy
<1>1. /\ m_acq_thread \in {"NULL", "new", "running", "finished"}
      /\ OpAndPc /\ ThreadAlive /\ NoStrayThread
  BY DEF IInv, TypeOK
<1> USE <1>1 DEF OpAndPc, ThreadAlive, NoStrayThread, StopOps, object, device,
                 config, thread, caller, history
<1>2. CASE Entry
  BY <1>2 DEF Entry
<1>3. CASE LoopTest
  BY <1>3 DEF LoopTest
<1>4. CASE PollTrigger
  BY <1>4 DEF PollTrigger
<1>5. CASE PollQuit
  BY <1>5 DEF PollQuit
<1>6. CASE ClearTrigger
  BY <1>6 DEF ClearTrigger
<1>7. CASE Expose
  BY <1>7 DEF Expose, SetStatus
<1>8. CASE ReadImage
  BY <1>8 DEF ReadImage
<1>9. CASE CheckRead
  BY <1>9 DEF CheckRead, AfterRead
<1>10. CASE Readout
  BY <1>10 DEF Readout, SetStatus
<1>11. CASE Deliver
  BY <1>11 DEF Deliver
<1>12. CASE LatencyWait
  BY <1>12 DEF LatencyWait, SetStatus
<1>13. CASE AfterFrame
  BY <1>13 DEF AfterFrame, Verdict, SetStatus
<1>14. CASE Leave
  BY <1>14 DEF Leave
<1>15. CASE Exit
  BY <1>15 DEF Exit
<1>16. CASE Join
  BY <1>16 DEF Join, CloseHandle
<1>17. CASE StopDevice
  BY <1>17 DEF StopDevice, Return, SetStatus
<1>18. CASE PrepareCounter
  BY <1>18 DEF PrepareCounter, ParamCall
<1>19. CASE NewThread
  BY <1>19 DEF NewThread
<1>20. CASE Ready
  BY <1>20 DEF Ready, Return, SetStatus
<1>21. CASE DeviceReset
  BY <1>21 DEF DeviceReset
<1>22. CASE CloseDevice
  BY <1>22 DEF CloseDevice, CloseHandle
<1>23. CASE OpenDevice
  BY <1>23 DEF OpenDevice
<1>24. CASE Configure
  BY <1>24 DEF Configure
<1>25. CASE SetSource
  BY <1>25 DEF SetSource, WriteSource
<1>26. CASE SetSelector
  BY <1>26 DEF SetSelector
<1>27. CASE SetMode
  BY <1>27 DEF SetMode, Return
<1>28. CASE LoadUserSet
  BY <1>28 DEF LoadUserSet, UserSetLoad
<1>29. CASE Loaded
  BY <1>29 DEF Loaded
<1>30. CASE StartDevice
  BY <1>30 DEF StartDevice
<1>31. CASE StartThread
  BY <1>31 DEF StartThread, Return
<1>32. CASE StartTrigger
  BY <1>32 DEF StartTrigger, FireTrigger, ParamCall
<1>33. CASE StartFlag
  BY <1>33 DEF StartFlag, Return
<1>34. CASE Throw
  BY <1>34 DEF Throw, Return
<1>35. CASE AttributeAccess
  BY <1>35 DEF AttributeAccess, ParamCall
<1>36. CASE UserTrigger
  BY <1>36 DEF UserTrigger, FireTrigger, ParamCall
<1>37. CASE UserFlag
  BY <1>37 DEF UserFlag
<1>38. CASE StartAcq
  BY <1>38 DEF StartAcq, StartAccepted
<1>39. ASSUME NEW o \in StopOps, Call(o) PROVE Reporting'
  BY <1>39 DEF Call, RaiseQuit
<1>40. ASSUME NEW mode \in TrigModes, SetTrigMode(mode) PROVE Reporting'
  BY <1>40 DEF SetTrigMode, Configurable, WriteSource
<1>41. ASSUME NEW k \in FrameCounts, SetNbFrames(k) PROVE Reporting'
  BY <1>41 DEF SetNbFrames, Configurable
<1>42. ASSUME NEW positive \in BOOLEAN, SetLatTime(positive) PROVE Reporting'
  BY <1>42 DEF SetLatTime, Configurable
<1>43. CASE UNCHANGED vars
  BY <1>43 DEF vars
<1>44. CASE UserMode
  BY <1>44 DEF UserMode, ParamCall
<1>45. CASE UserLoad
  BY <1>45 DEF UserLoad, UserSetLoad, ParamCall
<1> QED
  BY <1>2, <1>3, <1>4, <1>5, <1>6, <1>7, <1>8, <1>9, <1>10, <1>11, <1>12,
     <1>13, <1>14, <1>15, <1>16, <1>17, <1>18, <1>19, <1>20, <1>21, <1>22,
     <1>23, <1>24, <1>25, <1>26, <1>27, <1>28, <1>29, <1>30, <1>31, <1>32,
     <1>33, <1>34, <1>35, <1>36, <1>37, <1>38, <1>39, <1>40, <1>41, <1>42,
     <1>43, <1>44, <1>45
     DEF Next, AcqNext, CtlCall, CtlStep, UsrNext, Terminated

\* Every variable keeps its type; in particular the pending triggers of the
\* device are never over-consumed by xiGetImage.
THEOREM TypeCorrect == Spec => []TypeOK
<1>1. IInv => TypeOK
  BY DEF IInv
<1> QED
  BY <1>1, InvHolds, PTL

\* Camera::prepareAcq and AcqThread::threadFunction number the frames of an
\* acquisition 0, 1, 2 ... whatever stops, fails or is reconfigured meanwhile.
THEOREM FramesNumbered == Spec => []FrameNumbering
<1>1. IInv => FrameNumbering
  BY DEF IInv, Numbering, FrameNumbering, GetNbHwAcquiredFrames
<1> QED
  BY <1>1, InvHolds, PTL

\* Camera::startAcq never dereferences a null m_acq_thread, given CtControl's
\* rule that a start needs a preparation that returned.
THEOREM StartIsSafe == Spec => []StartHasThread
<1>1. IInv => StartHasThread
  BY DEF IInv, NoStrayThread, StartHasThread
<1> QED
  BY <1>1, InvHolds, PTL

\* A thread takes no more software triggers than were issued in its time or
\* left raised for it, even with a Tango client firing concurrently: the
\* unlocked test-and-clear of Camera::_soft_trigger_issued loses triggers but
\* never doubles one.
THEOREM TriggersPaid == Spec => []OneExposurePerTrigger
<1>1. IInv => OneExposurePerTrigger
  BY DEF IInv, Triggers, OneExposurePerTrigger
<1> QED
  BY <1>1, InvHolds, PTL

\* The loop of threadFunction never exceeds the number of frames asked for if
\* settings do not change under a running thread.
THEOREM QuotaHolds ==
  ASSUME LateConfig = FALSE
  PROVE  Spec => []FrameQuota
<1>1. Init => Quota
  BY DEF Init, Quota
<1>2. IInv /\ Quota /\ [Next]_vars => Quota'
  BY QuotaStep
<1>3. IInv /\ Quota => FrameQuota
  BY DEF Quota, FrameQuota
<1> QED
  BY <1>1, <1>2, <1>3, InvHolds, PTL DEF Spec

\* The safety part of ImplementsFrameSource: with or without a Tango client and
\* failing calls, the plugin's frames are those of the abstract source; after a
\* stop is requested at most the frame in flight is delivered.
THEOREM ImplementsSafety ==
  ASSUME LateConfig = FALSE
  PROVE  Spec => Source!Init /\ [][Source!Next]_(Source!fvars)
<1>1. Init => Source!Init /\ Quota
  BY DEF Init, Source!Init, Phase, Count, Grace, Stopping, Quota
<1>2. IInv /\ Quota /\ [Next]_vars => Quota'
  BY QuotaStep
<1>3. IInv /\ Quota /\ [Next]_vars => [Source!Next]_(Source!fvars)
  BY RefinementStep
<1> QED
  BY <1>1, <1>2, <1>3, InvHolds, PTL DEF Spec

\* The undisturbed invariant holds in every reachable state.
THEOREM SoleHolds ==
  ASSUME Undisturbed
  PROVE  Spec => []Sole
<1>1. Init => Sole
  BY DEF Init, Sole, NoPhantomFrame
<1>2. IInv /\ Sole /\ [Next]_vars => Sole'
  BY SoleStep
<1> QED
  BY <1>1, <1>2, InvHolds, PTL DEF Spec

\* Every way out of the loop stops the device, and a step that leaves it
\* acquiring all the same says so in stray.
LEMMA QuietStep ==
  ASSUME IInv, DeviceQuiet, [Next]_vars
  PROVE  DeviceQuiet'
<1>1. OpAndPc /\ ThreadAlive /\ (cpc = "new" => m_acq_thread = "NULL")
  BY DEF IInv, NoStrayThread
<1> USE <1>1 DEF DeviceQuiet, OpAndPc, ThreadAlive, device, config, object,
                 thread, caller, history
<1>2. CASE UNCHANGED vars
  BY <1>2 DEF vars
<1>3. CASE AcqNext
  <2>1. CASE Leave
    BY <2>1 DEF Leave, StopAcquisition
  <2>2. CASE ~Leave
    BY <1>3, <2>2 DEF AcqNext, Entry, LoopTest, PollTrigger, PollQuit,
       ClearTrigger, Expose, ReadImage, CheckRead, AfterRead, Readout, Deliver,
       LatencyWait, AfterFrame, Verdict, Exit
  <2> QED
    BY <2>1, <2>2
<1>4. CASE CtlStep
  <2>1. CASE Join
    BY <2>1 DEF Join, CloseHandle
  <2>2. CASE StopDevice
    BY <2>2 DEF StopDevice, StopAcquisition, Return
  <2>3. CASE CloseDevice
    BY <2>3 DEF CloseDevice, CloseHandle
  <2>4. CASE StartDevice
    BY <2>4 DEF StartDevice
  <2>5. CASE StartThread
    BY <2>5 DEF StartThread, Return
  <2>6. CASE PrepareCounter \/ DeviceReset \/ OpenDevice \/ Configure
    BY <2>6 DEF PrepareCounter, DeviceReset, OpenDevice, Configure
  <2>7. CASE NewThread \/ Ready \/ SetMode \/ Throw
    BY <2>7 DEF NewThread, Ready, SetMode, Throw, Return
  <2>8. CASE SetSource \/ SetSelector \/ LoadUserSet \/ Loaded
    BY <2>8 DEF SetSource, WriteSource, SetSelector, LoadUserSet, UserSetLoad,
       Loaded
  <2>9. CASE StartTrigger \/ StartFlag
    BY <2>9 DEF StartTrigger, StartFlag, Return
  <2> QED
    BY <1>4, <2>1, <2>2, <2>3, <2>4, <2>5, <2>6, <2>7, <2>8, <2>9 DEF CtlStep
<1>5. CASE UsrNext
  BY <1>5 DEF UsrNext, AttributeAccess, UserMode, UserLoad, UserSetLoad,
     UserTrigger, UserFlag
<1>6. CASE CtlCall
  <2>1. ASSUME NEW o \in StopOps, Call(o) PROVE DeviceQuiet'
    BY <2>1 DEF Call
  <2>2. CASE StartAcq
    BY <2>2 DEF StartAcq
  <2>3. ASSUME NEW mode \in TrigModes, SetTrigMode(mode) PROVE DeviceQuiet'
    BY <2>3 DEF SetTrigMode, WriteSource, Configurable
  <2>4. ASSUME NEW n \in FrameCounts, SetNbFrames(n) PROVE DeviceQuiet'
    BY <2>4 DEF SetNbFrames
  <2>5. ASSUME NEW p \in BOOLEAN, SetLatTime(p) PROVE DeviceQuiet'
    BY <2>5 DEF SetLatTime
  <2> QED
    BY <1>6, <2>1, <2>2, <2>3, <2>4, <2>5 DEF CtlCall
<1> QED
  BY <1>2, <1>3, <1>4, <1>5, <1>6 DEF Next, Terminated

\* Every way out of an acquisition stops the device: the xiStopAcquisition at
\* the end of threadFunction covers every break of its loop, with any failing
\* calls, any trigger mode and an interfering client.  What escapes it is what
\* stray records.
THEOREM DeviceIsQuiet == Spec => []DeviceQuiet
<1>1. Init => DeviceQuiet
  BY DEF Init, DeviceQuiet
<1>2. IInv /\ DeviceQuiet /\ [Next]_vars => DeviceQuiet'
  BY QuietStep
<1> QED
  BY <1>1, <1>2, InvHolds, PTL DEF Spec

\* No frame is delivered for a xiGetImage that timed out, if nobody else writes
\* xi_status; the run "phantom" shows that the condition is needed.
THEOREM NoPhantoms ==
  ASSUME Undisturbed
  PROVE  Spec => []NoPhantomFrame
<1>1. Sole => NoPhantomFrame
  BY DEF Sole
<1> QED
  BY <1>1, SoleHolds, PTL

\* A read that failed always ends in Fault, under the same condition.
THEOREM FailuresAreReported ==
  ASSUME Undisturbed
  PROVE  Spec => FailuresReported
<1>1. IInv /\ Sole /\ [Next]_vars =>
        [tpc = "after" /\ tpc' # "after" /\ got # "OK"
           => m_status' = "Fault"]_vars
  <2> SUFFICES ASSUME IInv, Sole, [Next]_vars, tpc = "after", tpc' # "after",
                      got # "OK"
               PROVE  m_status' = "Fault"
    BY DEF vars
  <2>1. AfterFrame \/ StartThread
    BY DEF vars, thread, Next, Terminated, AcqNext, CtlCall, CtlStep, UsrNext,
           Entry, LoopTest, PollTrigger, PollQuit, ClearTrigger, Expose,
           ReadImage, CheckRead, Readout, Deliver, LatencyWait, Leave, Exit,
           StartAcq, SetTrigMode, SetNbFrames, SetLatTime, Call, RaiseQuit,
           Join, StopDevice, PrepareCounter, NewThread, Ready, DeviceReset,
           CloseDevice, OpenDevice, Configure, SetSource, SetSelector, SetMode,
           LoadUserSet, Loaded, StartDevice, StartTrigger, StartFlag, Throw,
           AttributeAccess, UserMode, UserLoad, UserTrigger,
           UserFlag
  <2>2. ~StartThread
    BY DEF StartThread, Sole, IInv, ThreadAlive
  <2> QED
    BY <2>1, <2>2 DEF AfterFrame, Verdict, SetStatus, Sole
<1> QED
  BY <1>1, InvHolds, SoleHolds, PTL DEF Spec, FailuresReported

\* The status word keeps its invariant in every reachable state.
LEMMA ReportingHolds ==
  ASSUME "param" \notin Failing
  PROVE  Spec => []Reporting
<1>1. Init => Reporting
  BY DEF Init, Reporting, Busy
<1>2. IInv /\ Reporting /\ [Next]_vars => Reporting'
  BY ReportingStep
<1> QED
  BY <1>1, <1>2, InvHolds, PTL DEF Spec

\* getStatus reports a busy camera only while a thread is there to end that,
\* whatever reads, starts and openings fail, with clients and late settings; a
\* failing getExpTime in prepareAcq is the one that would leave it busy.
THEOREM BusyIsRunning ==
  ASSUME "param" \notin Failing
  PROVE  Spec => []BusyMeansRunning
<1>1. IInv /\ Reporting => BusyMeansRunning
  BY DEF IInv, TypeOK, OpAndPc, ThreadAlive, Reporting, Busy, BusyMeansRunning, GetStatus
<1> QED
  BY <1>1, InvHolds, ReportingHolds, PTL

\* After a prepareAcq that returned the camera is Ready, under the same condition.
THEOREM PreparedReportsReady ==
  ASSUME "param" \notin Failing
  PROVE  Spec => []PreparedIsReady
<1>1. Reporting => PreparedIsReady
  BY DEF Reporting, StopOps, PreparedIsReady, GetStatus
<1> QED
  BY <1>1, ReportingHolds, PTL

\* A thread that may yet deliver has had no frame refused.
Unrefused ==
  tpc \in {"loop", "wait", "quitpoll", "clear", "expose", "read", "check",
           "readout", "deliver"} => continueAcq

\* Every way back into the loop of threadFunction passes the test of the flag.
LEMMA UnrefusedStep ==
  ASSUME Unrefused, [Next]_vars
  PROVE  Unrefused'
<1> USE DEF Unrefused
<1>1. CASE UNCHANGED <<tpc, continueAcq>>
  BY <1>1
<1>2. CASE StartThread
  BY <1>2 DEF StartThread
<1>3. CASE AcqNext
  BY <1>3 DEF AcqNext, Entry, LoopTest, PollTrigger, PollQuit, ClearTrigger, Expose,
     ReadImage, CheckRead, AfterRead, Readout, Deliver, LatencyWait, AfterFrame,
     Verdict, Leave, Exit
<1>4. UNCHANGED <<tpc, continueAcq>> \/ StartThread \/ AcqNext
  BY DEF vars, thread, Next, Terminated, CtlCall, CtlStep, UsrNext,
     StartAcq, SetTrigMode, SetNbFrames, SetLatTime, Call, Join, StopDevice,
     PrepareCounter, NewThread, Ready, DeviceReset, CloseDevice, OpenDevice,
     Configure, SetSource, SetSelector, SetMode, LoadUserSet, Loaded, StartDevice,
     StartTrigger, StartFlag, Throw, AttributeAccess, UserMode, UserLoad, UserTrigger,
           UserFlag
<1> QED
  BY <1>1, <1>2, <1>3, <1>4

\* A frame that Lima refuses is the last one of its thread: nothing more is
\* delivered, whatever fails or is called meanwhile.
THEOREM RefusalsAreFinal == Spec => RefusalIsFinal
<1>1. Init => Unrefused
  BY DEF Init, Unrefused
<1>2. Unrefused /\ [Next]_vars => Unrefused'
  BY UnrefusedStep
<1>3. IInv /\ Unrefused /\ [Next]_vars => [delivered' > delivered => continueAcq]_vars
  <2> SUFFICES ASSUME IInv, Unrefused, [Next]_vars, delivered' > delivered
               PROVE  continueAcq
    BY DEF vars
  <2>1. delivered \in Nat /\ delivered' # delivered
    BY DEF IInv, TypeOK
  <2>2. Deliver \/ NewThread
    BY <2>1 DEF vars, history, Next, Terminated, AcqNext, CtlCall, CtlStep, UsrNext,
       Entry, LoopTest, PollTrigger, PollQuit, ClearTrigger, Expose, ReadImage,
       CheckRead, Readout, LatencyWait, AfterFrame, Leave, Exit, StartAcq,
       SetTrigMode, SetNbFrames, SetLatTime, Call, Join, StopDevice, PrepareCounter,
       Ready, DeviceReset, CloseDevice, OpenDevice, Configure, SetSource,
       SetSelector, SetMode, LoadUserSet, Loaded, StartDevice, StartThread,
       StartTrigger, StartFlag, Throw, AttributeAccess, UserMode, UserLoad, UserTrigger,
           UserFlag
  <2>3. ~NewThread
    BY <2>1 DEF NewThread
  <2> QED
    BY <2>2, <2>3 DEF Deliver, Unrefused
<1> QED
  BY <1>1, <1>2, <1>3, InvHolds, PTL DEF Spec, RefusalIsFinal
=============================================================================
