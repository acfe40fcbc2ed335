------------------------- MODULE XimeaTriggerProofs -------------------------
(***************************************************************************)
(* The trigger configuration, for any set of GPI lines.  What setTrigMode  *)
(* has written at each place (Written) holds as long as the status tested  *)
(* is that of its own calls: nobody else makes calls meanwhile, or none    *)
(* fails.  That it writes to the right line (Borrowed) holds only as long  *)
(* as nobody else moves the selector: Overlap = FALSE.                     *)
(***************************************************************************)
EXTENDS XimeaTrigger, TLAPS

\* Which calls get as far as the device, and which of them use the lines.
Arguments ==
  /\ pc # "idle" => arg \in Supported
  /\ pc \in {"select", "arm", "restore"} => arg = "ExtTrigMult"

\* Where nothing fails, the status is always good.
Reliable ==
  ParamsFail = FALSE =>
    /\ xi_status = "OK"
    /\ pc \in {"select", "arm", "restore"} => selected_gpi \in Ports

\* The parameters written so far are those of the argument, if the last call
\* was good and no user set has been loaded on top of them.
Written ==
  xi_status = "OK" /\ ~outside =>
    /\ pc \in {"selector", "record"} =>
         \E p \in {"Falling", "Rising"} : trg_source = SourceOf(arg, p)
    /\ pc = "record" => trg_selector = SelectorOf(arg)

IType == TypeOK /\ Arguments

IInv == IType /\ Reliable /\ Written /\ DeviceFollowsMode

\* Where the borrowed selector points, and what has been done with it.
Borrowed ==
  /\ pc # "idle" => ~outside
  /\ pc \in {"idle", "select", "selector", "record"} => gpi_selector = selection
  /\ pc = "source" /\ xi_status = "OK" => gpi_selector = selection
  /\ pc = "arm" /\ xi_status = "OK" => gpi_selector = TriggerPort
  /\ pc = "select" /\ xi_status = "OK" => selected_gpi = selection
  /\ pc \in {"arm", "restore"} => selected_gpi = selection
  /\ pc = "restore" /\ xi_status = "OK" => gpi_mode[TriggerPort] = "Trigger"
  /\ pc \in {"source", "selector", "record"} /\ arg = "ExtTrigMult"
       => gpi_mode[TriggerPort] = "Trigger"

IAlone == IInv /\ Borrowed

-----------------------------------------------------------------------------
\* The sources and selectors of the supported modes, so that no other proof
\* needs to look into the tables.
LEMMA Tables ==
  ASSUME NEW mode \in Supported, NEW p \in {"Falling", "Rising"}
  PROVE  /\ SourceOf(mode, p) \in {"Off", "Software", "EdgeFalling", "EdgeRising"}
         /\ SelectorOf(mode) \in {"BurstStart", "FrameStart"}
BY DEF Supported, SourceOf, SelectorOf, UsesGpi

\* The camera begins in a mode that its parameters amount to.
LEMMA InitInv == Init => IInv
BY TriggerAssumption DEF Init, IInv, IType, TypeOK, Arguments, Reliable, Written,
   DeviceFollowsMode, Settled, Supported, TrigModes, GpiModes

\* A source written is one of the table's, whoever reads the result.
LEMMA SourceWritten ==
  ASSUME TypeOK, NEW mode \in Supported, WriteSource(mode)
  PROVE  /\ trg_source' \in {"Off", "Software", "EdgeFalling", "EdgeRising"}
         /\ xi_status' \in {"OK", "ERROR"}
         /\ xi_status' = "OK" =>
              \E p \in {"Falling", "Rising"} : trg_source' = SourceOf(mode, p)
         /\ ParamsFail = FALSE => xi_status' = "OK"
BY Tables, TriggerAssumption DEF WriteSource, ParamCall, Stored, TypeOK

\* Every step of anybody keeps the types, and arguments that are refused keep
\* away from the device.
LEMMA StepType == IType /\ [Next]_tvars => IType'
<1> SUFFICES ASSUME IType, [Next]_tvars PROVE IType'
    OBVIOUS
<1> USE TriggerAssumption DEF IType, Arguments, Goto, At, ParamCall, Stored,
        fields, trigger, gpi, caller
<1>1. ASSUME NEW mode \in TrigModes, SetTrigMode(mode) PROVE IType'
  <2>1. CASE mode \in Supported /\ UsesGpi(mode)
    BY <1>1, <2>1 DEF SetTrigMode, FirstCall, SaveSelector, TypeOK, Supported,
       UsesGpi, TrigModes
  <2>2. CASE mode \in Supported /\ ~UsesGpi(mode)
    <3>1. WriteSource(mode)
      BY <1>1, <2>2 DEF SetTrigMode, FirstCall
    <3> HIDE DEF ParamCall, Stored
    <3> QED
      BY <1>1, <2>2, <3>1, SourceWritten DEF SetTrigMode, FirstCall, TypeOK
  <2>3. CASE mode \notin Supported
    BY <1>1, <2>3 DEF SetTrigMode, TypeOK
  <2> QED BY <2>1, <2>2, <2>3
<1>2. CASE SelectPort \/ ArmPort \/ RestoreSelector
  BY <1>2 DEF SelectPort, ArmPort, RestoreSelector, TypeOK, GpiModes
<1>3. CASE SetSource
  <2> HIDE DEF ParamCall, Stored
  <2> QED
    BY <1>3, SourceWritten DEF SetSource, TypeOK
<1>4. CASE WriteSelector
  BY <1>4, Tables DEF WriteSelector, TypeOK
<1>5. CASE Record
  BY <1>5 DEF Record, TypeOK
<1>6. CASE Throw
  BY <1>6 DEF Throw, TypeOK
<1>7. CASE ClientNext
  <2>1. CASE \/ \E p \in Ports : SelectGpi(p)
             \/ \E p \in Polarities : SetTriggerPolarity(p)
             \/ AccessGpi \/ SetMode
    BY <1>7, <2>1 DEF SelectGpi, SetTriggerPolarity, AccessGpi, SetMode, TypeOK
  <2>2. ASSUME NEW m \in GpiModes, WriteGpiMode(m) PROVE IType'
    BY <2>2 DEF WriteGpiMode, TypeOK
  <2>3. CASE LoadUserSet
    <3>1. [p \in Ports |-> "Off"] \in [Ports -> GpiModes]
      BY DEF GpiModes
    <3>2. /\ gpi_mode' \in [Ports -> GpiModes]
          /\ trg_source' \in {trg_source, "Off"}
          /\ trg_selector' \in {trg_selector, "BurstStart", "FrameStart"}
          /\ outside' \in BOOLEAN /\ xi_status' \in {"OK", "ERROR"}
      BY <2>3, <3>1 DEF LoadUserSet, TypeOK
    <3> QED
      BY <2>3, <3>2 DEF LoadUserSet, TypeOK
  <2> QED BY <1>7, <2>1, <2>2, <2>3 DEF ClientNext
<1>8. CASE UNCHANGED tvars
  BY <1>8 DEF tvars, TypeOK
<1> QED
  BY <1>1, <1>2, <1>3, <1>4, <1>5, <1>6, <1>7, <1>8 DEF Next, CtlNext

\* Every step keeps what setTrigMode has written, place by place, if nobody
\* can hide the result of its calls, or none is bad.
LEMMA StepInv ==
  (Overlap = FALSE \/ ParamsFail = FALSE) /\ IInv /\ [Next]_tvars => IInv'
<1> SUFFICES ASSUME Overlap = FALSE \/ ParamsFail = FALSE, IInv, [Next]_tvars
             PROVE  IInv'
    OBVIOUS
<1>0. IType'
  BY StepType DEF IInv
<1> USE TriggerAssumption, <1>0 DEF IInv, IType, Arguments, Reliable, Written,
        DeviceFollowsMode, InMode, Settled, Goto, At, ParamCall, Stored,
        fields, trigger, gpi, caller
<1>1. ASSUME NEW mode \in TrigModes, SetTrigMode(mode) PROVE IInv'
  <2>1. CASE mode \in Supported /\ UsesGpi(mode)
    BY <1>1, <2>1 DEF SetTrigMode, FirstCall, SaveSelector, TypeOK
  <2>2. CASE mode \in Supported /\ ~UsesGpi(mode)
    <3>1. WriteSource(mode)
      BY <1>1, <2>2 DEF SetTrigMode, FirstCall
    <3> HIDE DEF ParamCall, Stored
    <3> QED
      BY <1>1, <2>2, <3>1, SourceWritten DEF SetTrigMode, FirstCall
  <2>3. CASE mode \notin Supported
    BY <1>1, <2>3 DEF SetTrigMode
  <2> QED BY <2>1, <2>2, <2>3
<1>2. CASE SelectPort \/ ArmPort \/ RestoreSelector
  BY <1>2 DEF SelectPort, ArmPort, RestoreSelector
<1>3. CASE SetSource
  <2> HIDE DEF ParamCall, Stored
  <2> QED
    BY <1>3, SourceWritten DEF SetSource
<1>4. CASE WriteSelector
  BY <1>4 DEF WriteSelector
<1>5. CASE Record
  BY <1>5 DEF Record
<1>6. CASE Throw
  BY <1>6 DEF Throw
<1>7. CASE ClientNext
  <2>1. CASE \/ \E p \in Ports : SelectGpi(p)
             \/ \E m \in GpiModes : WriteGpiMode(m)
             \/ AccessGpi \/ SetMode
    BY <1>7, <2>1 DEF SelectGpi, WriteGpiMode, AccessGpi, SetMode, ClientMayAct
  <2>2. CASE \E p \in Polarities : SetTriggerPolarity(p)
    BY <1>7, <2>2 DEF SetTriggerPolarity
  <2>3. CASE LoadUserSet
    BY <1>7, <2>3 DEF LoadUserSet, ClientMayAct, TypeOK
  <2> QED BY <1>7, <2>1, <2>2, <2>3 DEF ClientNext
<1>8. CASE UNCHANGED tvars
  BY <1>8 DEF tvars
<1> QED
  BY <1>1, <1>2, <1>3, <1>4, <1>5, <1>6, <1>7, <1>8 DEF Next, CtlNext

\* The types hold in every reachable state, whoever does what.
LEMMA TypeHolds == Spec => []IType
<1>1. Init => IType BY InitInv DEF IInv
<1> QED BY <1>1, StepType, PTL DEF Spec

\* What has been written holds too, if no result can be hidden.
LEMMA InvHolds ==
  ASSUME Overlap = FALSE \/ ParamsFail = FALSE
  PROVE  Spec => []IInv
<1>1. IInv /\ [Next]_tvars => IInv'
  BY StepInv
<1> QED BY <1>1, InitInv, PTL DEF Spec

\* Every field and parameter keeps its type; in particular no mode that
\* checkTrigMode refuses is ever recorded.
THEOREM TypeCorrect == Spec => []TypeOK
<1>1. IType => TypeOK BY DEF IType
<1> QED BY <1>1, TypeHolds, PTL

\* A setTrigMode that returns leaves the device in the mode getTrigMode
\* reports, until a user set is loaded: with failures if the client keeps away
\* from the call, and with the client in it if nothing fails.  With both the
\* theorem would be false: a good call of the client's hides a refused write.
THEOREM ModeIsApplied ==
  ASSUME Overlap = FALSE \/ ParamsFail = FALSE
  PROVE  Spec => []DeviceFollowsMode
<1>1. IInv => DeviceFollowsMode BY DEF IInv
<1> QED BY <1>1, InvHolds, PTL

-----------------------------------------------------------------------------
\* It begins with the selection of the client.
LEMMA AloneInit == Init => IAlone
<1> SUFFICES ASSUME Init PROVE IAlone OBVIOUS
<1>1. IInv BY InitInv
<1> QED BY <1>1 DEF Init, IAlone, Borrowed

\* Without a client beside setTrigMode the borrowed selector is where it is
\* expected, step by step.
LEMMA AloneStep == Overlap = FALSE /\ IAlone /\ [Next]_tvars => IAlone'
<1> SUFFICES ASSUME Overlap = FALSE, IAlone, [Next]_tvars PROVE IAlone'
    OBVIOUS
<1>0. IInv'
  BY StepInv DEF IAlone
<1> USE TriggerAssumption DEF IAlone, IInv, IType, Arguments, Borrowed, Goto, At,
        ParamCall, Stored, fields, trigger, gpi, caller
<1>1. ASSUME NEW mode \in TrigModes, SetTrigMode(mode) PROVE IAlone'
  BY <1>0, <1>1 DEF SetTrigMode, FirstCall, WriteSource, SaveSelector, Supported,
     UsesGpi
<1>3. CASE SelectPort
  BY <1>0, <1>3 DEF SelectPort
<1>4. CASE ArmPort
  BY <1>0, <1>4 DEF ArmPort, TypeOK
<1>5. CASE RestoreSelector
  BY <1>0, <1>5 DEF RestoreSelector, TypeOK
<1>6. CASE SetSource \/ WriteSelector \/ Record
  BY <1>0, <1>6 DEF SetSource, WriteSource, WriteSelector, Record
<1>7. CASE Throw
  BY <1>0, <1>7 DEF Throw
<1>8. CASE ClientNext
  BY <1>0, <1>8 DEF ClientNext, SelectGpi, WriteGpiMode, AccessGpi, SetMode,
     LoadUserSet, SetTriggerPolarity, ClientMayAct
<1>11. CASE UNCHANGED tvars
  BY <1>0, <1>11 DEF tvars
<1> QED
  BY <1>1, <1>3, <1>4, <1>5, <1>6, <1>7, <1>8, <1>11 DEF Next, CtlNext

\* So it is in every reachable state.
LEMMA AloneHolds ==
  ASSUME Overlap = FALSE
  PROVE  Spec => []IAlone
<1>1. IAlone /\ [Next]_tvars => IAlone'
  BY AloneStep
<1> QED
  BY <1>1, AloneInit, PTL DEF Spec

\* With nobody else at the selector, an external trigger mode arms the port
\* the server is configured with, even if earlier attempts have failed.
THEOREM PortIsArmed ==
  ASSUME Overlap = FALSE
  PROVE  Spec => TriggerPortArmed
<1>1. IAlone => (Record /\ arg = "ExtTrigMult" => gpi_mode'[TriggerPort] = "Trigger")
  BY DEF IAlone, Borrowed, Record, At, gpi
<1> QED BY <1>1, AloneHolds, PTL DEF TriggerPortArmed, Spec

\* ... and changes no other, trigger inputs of the client's among them.
THEOREM NoOtherPort ==
  ASSUME Overlap = FALSE
  PROVE  Spec => OtherPortsKept
<1>1. IAlone /\ CtlNext => \A p \in Ports \ {TriggerPort} : gpi_mode'[p] = gpi_mode[p]
  <2> SUFFICES ASSUME IAlone, CtlNext, NEW p \in Ports \ {TriggerPort}
               PROVE  gpi_mode'[p] = gpi_mode[p]
      OBVIOUS
  <2>1. CASE ArmPort
    BY <2>1 DEF ArmPort, At, IAlone, IInv, IType, TypeOK, Borrowed
  <2>2. CASE ~ArmPort
    BY <2>2 DEF CtlNext, SetTrigMode, SelectPort, RestoreSelector, SetSource,
       WriteSelector, Record, Throw, gpi
  <2> QED BY <2>1, <2>2
<1>2. IAlone /\ [Next]_tvars
        => [CtlNext => \A p \in Ports \ {TriggerPort} : gpi_mode'[p] = gpi_mode[p]]_tvars
  BY <1>1
<1> QED BY <1>2, AloneHolds, PTL DEF OtherPortsKept, Spec

\* The client finds its selection as it left it, unless a call has failed
\* since and left the selector elsewhere.
THEOREM SelectionIsHeld ==
  ASSUME Overlap = FALSE
  PROVE  Spec => []SelectionHeld
<1>1. IAlone => SelectionHeld
  BY DEF IAlone, Borrowed, SelectionHeld
<1> QED BY <1>1, AloneHolds, PTL

-----------------------------------------------------------------------------
\* The parameters of different modes differ, so that the device is in the mode
\* its parameters amount to.
LEMMA Distinct ==
  ASSUME NEW m \in Supported, NEW n \in Supported, InMode(m), InMode(n)
  PROVE  m = n
BY DEF InMode, Supported, SourceOf, SelectorOf, UsesGpi

\* The mode of the device that the mapping computes is the one it is in.
LEMMA ModeOfDevice ==
  /\ DeviceMode \in Supported \cup {"mixed"}
  /\ \A m \in Supported : InMode(m) => DeviceMode = m
<1>1. ASSUME NEW m \in Supported, InMode(m) PROVE DeviceMode = m
  <2>1. PICK n \in Supported : n = DeviceMode /\ InMode(n)
    BY <1>1 DEF DeviceMode
  <2> QED
    BY <1>1, <2>1, Distinct
<1>2. DeviceMode \in Supported \cup {"mixed"}
  BY DEF DeviceMode
<1> QED
  BY <1>1, <1>2

\* What the mode of the device depends on.
LEMMA SameMode == UNCHANGED trigger => UNCHANGED DeviceMode
BY DEF DeviceMode, InMode, trigger

\* Initial states map to initial states.
LEMMA SettingInit == Init => Setting!Init
<1> SUFFICES ASSUME Init PROVE Setting!Init
    OBVIOUS
<1>1. ~Listens
  BY TriggerAssumption DEF Init, Listens
<1> QED
  BY <1>1, ModeOfDevice DEF Init, Setting!Init, BeingSet, Supported

\* Every step maps to a step or a stutter.
LEMMA SettingStep ==
  Overlap = FALSE /\ IAlone /\ IAlone' /\ [Next]_tvars
    => [Setting!Next]_(Setting!avars)
<1> SUFFICES ASSUME Overlap = FALSE, IAlone, IAlone', [Next]_tvars
             PROVE  [Setting!Next]_(Setting!avars)
    OBVIOUS
<1> USE DEF Setting!Next, Setting!avars, At, Goto
<1>0. "none" \notin TrigModes
  BY DEF TrigModes
<1>a. DeviceMode' \in Supported \cup {"mixed"}
  BY DEF DeviceMode
<1>1. ASSUME NEW mode \in TrigModes, SetTrigMode(mode)
      PROVE  [Setting!Next]_(Setting!avars)
  <2>1. UNCHANGED <<m_trigger_mode, Listens>>
    BY <1>1 DEF SetTrigMode, fields, gpi, Listens
  <2>2. CASE mode \in Supported
    <3>1. BeingSet = "none" /\ BeingSet' = mode
      BY <1>1, <2>2 DEF SetTrigMode, FirstCall, BeingSet
    <3> QED
      BY <2>1, <2>2, <3>1, <1>a DEF Setting!Set
  <2>3. CASE mode \notin Supported
    <3>1. UNCHANGED trigger /\ UNCHANGED BeingSet
      BY <1>1, <2>3 DEF SetTrigMode, BeingSet, trigger
    <3> QED
      BY <2>1, <3>1, SameMode
  <2> QED
    BY <2>2, <2>3
<1>2. CASE SelectPort \/ RestoreSelector
  <2>1. UNCHANGED <<m_trigger_mode, DeviceMode, Listens>>
    BY <1>2, SameMode
       DEF SelectPort, RestoreSelector, fields, gpi, Listens
  <2>2. UNCHANGED BeingSet
    BY <1>2 DEF SelectPort, RestoreSelector, BeingSet
  <2> QED
    BY <2>1, <2>2
<1>3. CASE ArmPort
  <2>1. UNCHANGED <<m_trigger_mode, DeviceMode, BeingSet>>
    BY <1>3, SameMode DEF ArmPort, fields, BeingSet
  <2>2. Listens' \/ UNCHANGED Listens
    BY <1>3, TriggerAssumption
       DEF ArmPort, Stored, Listens, IAlone, IInv, IType, TypeOK, Borrowed
  <2>3. BeingSet = "ExtTrigMult"
    BY <1>3 DEF ArmPort, BeingSet, IAlone, IInv, IType, Arguments
  <2> QED
    BY <2>1, <2>2, <2>3 DEF Setting!Work, Listens
<1>4. CASE SetSource \/ WriteSelector
  <2>1. UNCHANGED <<m_trigger_mode, Listens, BeingSet>>
    BY <1>4 DEF SetSource, WriteSelector, fields, gpi, Listens, BeingSet
  <2>2. BeingSet # "none"
    BY <1>0, <1>4 DEF SetSource, WriteSelector, BeingSet, IAlone, IInv, IType, TypeOK
  <2> QED
    BY <2>1, <2>2, <1>a DEF Setting!Work
<1>5. CASE Record
  <2>1. UNCHANGED <<DeviceMode, Listens>>
    BY <1>5, SameMode DEF Record, gpi, Listens
  <2>2. BeingSet = arg /\ BeingSet # "none" /\ BeingSet' = "none"
    BY <1>0, <1>5 DEF Record, BeingSet, IAlone, IInv, IType, TypeOK
  <2>3. DeviceMode = arg
    BY <1>5, ModeOfDevice
       DEF Record, InMode, IAlone, IInv, IType, Arguments, Borrowed, Written
  <2>4. arg = "ExtTrigMult" => Listens
    BY <1>5 DEF Record, IAlone, Borrowed, Listens
  <2> QED
    BY <1>5, <2>1, <2>2, <2>3, <2>4 DEF Record, Setting!Return
<1>6. CASE Throw
  <2>1. UNCHANGED <<m_trigger_mode, DeviceMode, Listens>>
    BY <1>6, SameMode DEF Throw, fields, gpi, Listens
  <2>2. BeingSet # "none" /\ BeingSet' = "none"
    BY <1>0, <1>6 DEF Throw, BeingSet, IAlone, IInv, IType, TypeOK
  <2> QED
    BY <2>1, <2>2 DEF Setting!Throw
<1>7. CASE \/ \E p \in Ports : SelectGpi(p)
           \/ \E p \in Polarities : SetTriggerPolarity(p)
           \/ AccessGpi \/ SetMode
  BY <1>7, SameMode
     DEF SelectGpi, SetTriggerPolarity, AccessGpi, SetMode, fields, gpi, caller,
         Listens, BeingSet
<1>8. ASSUME NEW m \in GpiModes, WriteGpiMode(m)
      PROVE  [Setting!Next]_(Setting!avars)
  <2>1. UNCHANGED <<m_trigger_mode, DeviceMode, BeingSet>>
    BY <1>8, SameMode DEF WriteGpiMode, fields, caller, BeingSet
  <2>2. BeingSet = "none"
    BY <1>8 DEF WriteGpiMode, ClientMayAct, BeingSet
  <2>3. Listens' \in BOOLEAN
    BY DEF Listens
  <2> QED
    BY <2>1, <2>2, <2>3 DEF Setting!Retask
<1>9. CASE LoadUserSet
  <2>1. UNCHANGED <<m_trigger_mode, BeingSet>>
    BY <1>9 DEF LoadUserSet, fields, caller, BeingSet
  <2>2. BeingSet = "none"
    BY <1>9 DEF LoadUserSet, ClientMayAct, BeingSet
  <2>3. Listens' \in {Listens, FALSE}
    BY <1>9, TriggerAssumption DEF LoadUserSet, Stored, Listens
  <2> QED
    BY <2>1, <2>2, <2>3, <1>a DEF Setting!Load
<1>10. CASE UNCHANGED tvars
  BY <1>10, SameMode DEF tvars, fields, gpi, caller, Listens, BeingSet
<1> QED
  BY <1>1, <1>2, <1>3, <1>4, <1>5, <1>6, <1>7, <1>8, <1>9, <1>10
     DEF Next, CtlNext, ClientNext

\* setTrigMode, parameter by parameter and with failures, does what Lima is
\* promised, for any lines, as long as the client keeps away meanwhile.
THEOREM ImplementsTriggerSetting ==
  ASSUME Overlap = FALSE
  PROVE  Spec => ImplementsSetting
<1>1. IAlone /\ IAlone' /\ [Next]_tvars => [Setting!Next]_(Setting!avars)
  BY SettingStep
<1> QED
  BY <1>1, SettingInit, AloneHolds, PTL DEF Spec, ImplementsSetting, Setting!Spec
=============================================================================
