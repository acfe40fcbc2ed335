---------------------------- MODULE XimeaTrigger ----------------------------
(***************************************************************************)
(* The trigger configuration: SyncCtrlObj::setTrigMode and, beneath it,    *)
(* Camera::setTrigMode and _setup_gpio_trigger, one device parameter at a  *)
(* time, against a Ximea Tango client that configures the GPI lines and    *)
(* the polarity of the same camera.                                        *)
(*                                                                         *)
(* The mode of a GPI line is written to the line gpi_selector points at;   *)
(* there is one such selector for all the users of the device.  XimeaState *)
(* has setTrigMode too, with the GPI setup as one step: there the point is *)
(* the status word, here it is the parameters.                             *)
(***************************************************************************)

CONSTANTS
  Ports,        \* the GPI lines
  NoPort,       \* the 0 a refused read of the selector returns
  TriggerPort,  \* m_trigger_gpi_port, the device property trigger_gpi_port
  ParamsFail,   \* may the device fail a parameter call?
  Overlap,      \* may the client act while setTrigMode is under way?
  Polarities    \* the polarities the client may write

ASSUME TriggerAssumption ==
  /\ TriggerPort \in Ports /\ NoPort \notin Ports
  /\ ParamsFail \in BOOLEAN /\ Overlap \in BOOLEAN
  /\ Polarities \subseteq {"Falling", "Rising"}

VARIABLES
  m_trigger_mode, m_trig_polarity,  \* fields of Camera
  xi_status,                        \* result of the last call, of anybody
  trg_source, trg_selector,         \* parameters of the device
  gpi_selector, gpi_mode,           \* gpi_mode: per line
  pc, arg, selected_gpi,            \* setTrigMode: place, argument, local
  outcome,                          \* how the last setTrigMode ended
  upc,                              \* the client's place in setMode
  selection,                        \* the line the client last selected, or
                                    \* that a call that failed left selected
  outside                           \* has the client loaded a user set since
                                    \* setTrigMode was last called?

fields == <<m_trigger_mode, m_trig_polarity>>
trigger == <<trg_source, trg_selector>>
gpi    == <<gpi_selector, gpi_mode>>
caller == <<pc, arg, selected_gpi, outcome>>
tvars  == <<fields, xi_status, trigger, gpi, caller, upc, selection, outside>>

-----------------------------------------------------------------------------
TrigModes == {"IntTrig", "IntTrigMult", "ExtTrigSingle", "ExtTrigMult", "ExtGate"}

GpiModes == {"Off", "Trigger", "Event"}

\* SyncCtrlObj::checkTrigMode
Supported == {"IntTrig", "IntTrigMult", "ExtTrigMult"}

UsesGpi(mode) == mode \in {"ExtTrigSingle", "ExtTrigMult"}

SourceOf(mode, polarity) ==
  CASE mode = "IntTrig"     -> "Off"
    [] mode = "IntTrigMult" -> "Software"
    [] mode = "ExtGate"     -> IF polarity = "Falling" THEN "LevelLow" ELSE "LevelHigh"
    [] UsesGpi(mode)        -> IF polarity = "Falling" THEN "EdgeFalling" ELSE "EdgeRising"

SelectorOf(mode) ==
  CASE mode \in {"IntTrig", "ExtTrigSingle"}   -> "BurstStart"
    [] mode = "ExtGate"                        -> "ExposureActive"
    [] mode \in {"IntTrigMult", "ExtTrigMult"} -> "FrameStart"

\* After _startup: setTrigMode(IntTrig) has been overwritten by the user set
\* that setMode loads, of which only the trigger source is known.
Init ==
  /\ m_trigger_mode = "IntTrig" /\ m_trig_polarity = "Rising"
  /\ xi_status = "OK"
  /\ trg_source = "Off" /\ trg_selector \in {"BurstStart", "FrameStart"}
  /\ gpi_selector \in Ports /\ gpi_mode = [p \in Ports |-> "Off"]
  /\ pc = "idle" /\ arg = "IntTrig" /\ selected_gpi = gpi_selector
  /\ outcome = "none" /\ upc = "idle"
  /\ selection = gpi_selector /\ outside = FALSE

-----------------------------------------------------------------------------
\* A parameter call records its result in the one xi_status of the camera.
ParamCall == xi_status' \in {"OK"} \cup (IF ParamsFail THEN {"ERROR"} ELSE {})

\* A parameter after a call that was to write it.
Stored(value, old) == IF xi_status' = "OK" THEN value ELSE old

\* The test of xi_status that a piece of setTrigMode begins with is about the
\* call before it only if nobody has made another call in between.
At(label) == pc = label /\ xi_status = "OK"

Goto(label) == pc' = label /\ UNCHANGED <<arg, outcome>>

WriteSource(mode) ==
  /\ ParamCall
  /\ trg_source' = Stored(SourceOf(mode, m_trig_polarity), trg_source)

\* _setup_gpio_trigger borrows the selector ...
SaveSelector == ParamCall /\ selected_gpi' = Stored(gpi_selector, NoPort)

\* An unsupported mode is refused before it reaches the camera; otherwise the
\* first access is the GPI selector's or the trigger source's.
FirstCall(mode) ==
  /\ outside' = FALSE
  /\ IF UsesGpi(mode)
     THEN SaveSelector /\ pc' = "select" /\ UNCHANGED trg_source
     ELSE WriteSource(mode) /\ pc' = "selector" /\ UNCHANGED selected_gpi

SetTrigMode_Unchecked(mode) ==
  /\ pc = "idle" /\ (upc = "idle" \/ Overlap)
  /\ arg' = mode
  /\ FirstCall(mode)
  /\ UNCHANGED <<fields, trg_selector, gpi, outcome, upc, selection>>

SetTrigMode_SameIsDone(mode) ==
  /\ pc = "idle" /\ (upc = "idle" \/ Overlap)
  /\ arg' = mode
  /\ IF mode \in Supported /\ mode # m_trigger_mode
     THEN FirstCall(mode) /\ UNCHANGED outcome
     ELSE /\ outcome' = IF mode \in Supported THEN "ok" ELSE "error"
          /\ UNCHANGED <<xi_status, trg_source, pc, selected_gpi, outside>>
  /\ UNCHANGED <<fields, trg_selector, gpi, upc, selection>>

SetTrigMode(mode) ==
  /\ pc = "idle" /\ (upc = "idle" \/ Overlap)
  /\ arg' = mode
  /\ IF mode \in Supported
     THEN FirstCall(mode) /\ UNCHANGED outcome
     ELSE /\ outcome' = "error"
          /\ UNCHANGED <<xi_status, trg_source, pc, selected_gpi, outside>>
  /\ UNCHANGED <<fields, trg_selector, gpi, upc, selection>>

SelectPort_Skipped ==
  /\ At("select")
  /\ Goto("arm")
  /\ UNCHANGED <<fields, xi_status, trigger, gpi, selected_gpi, upc, selection,
                 outside>>

SelectPort ==
  /\ At("select")
  /\ ParamCall
  /\ gpi_selector' = Stored(TriggerPort, gpi_selector)
  /\ Goto("arm")
  /\ UNCHANGED <<fields, trigger, gpi_mode, selected_gpi, upc, selection, outside>>

ArmPort ==
  /\ At("arm")
  /\ ParamCall
  /\ gpi_mode' = [gpi_mode EXCEPT ![gpi_selector] = Stored("Trigger", @)]
  /\ Goto("restore")
  /\ UNCHANGED <<fields, trigger, gpi_selector, selected_gpi, upc, selection,
                 outside>>

\* ... and gives it back; the device has no line 0.
RestoreSelector_Skipped ==
  /\ At("restore")
  /\ Goto("source")
  /\ UNCHANGED <<fields, xi_status, trigger, gpi, selected_gpi, upc, selection,
                 outside>>

RestoreSelector ==
  /\ At("restore")
  /\ IF selected_gpi = NoPort THEN xi_status' = "ERROR" ELSE ParamCall
  /\ gpi_selector' = Stored(selected_gpi, gpi_selector)
  /\ Goto("source")
  /\ UNCHANGED <<fields, trigger, gpi_mode, selected_gpi, upc, selection, outside>>

SetSource ==
  /\ At("source")
  /\ WriteSource(arg)
  /\ Goto("selector")
  /\ UNCHANGED <<fields, trg_selector, gpi, selected_gpi, upc, selection, outside>>

WriteSelector_RecordsMode ==
  /\ At("selector")
  /\ ParamCall
  /\ trg_selector' = Stored(SelectorOf(arg), trg_selector)
  /\ m_trigger_mode' = arg
  /\ Goto("record")
  /\ UNCHANGED <<m_trig_polarity, trg_source, gpi, selected_gpi, upc, selection,
                 outside>>

WriteSelector ==
  /\ At("selector")
  /\ ParamCall
  /\ trg_selector' = Stored(SelectorOf(arg), trg_selector)
  /\ Goto("record")
  /\ UNCHANGED <<fields, trg_source, gpi, selected_gpi, upc, selection, outside>>

Record ==
  /\ At("record")
  /\ m_trigger_mode' = arg
  /\ pc' = "idle" /\ outcome' = "ok"
  /\ UNCHANGED <<m_trig_polarity, xi_status, trigger, gpi, arg, selected_gpi, upc,
                 selection, outside>>

\* A call that reads as refused: the exception leaves everything as it is, the
\* selector too, wherever it points at.
Throw ==
  /\ pc # "idle" /\ xi_status # "OK"
  /\ pc' = "idle" /\ outcome' = "error"
  /\ selection' = gpi_selector
  /\ UNCHANGED <<fields, xi_status, trigger, gpi, arg, selected_gpi, upc, outside>>

-----------------------------------------------------------------------------
\* The client: attributes gpi_selector, gpi_mode, trigger_polarity and mode.
ClientMayAct == pc = "idle" \/ Overlap

SelectGpi(p) ==
  /\ ClientMayAct /\ upc = "idle"
  /\ ParamCall
  /\ gpi_selector' = Stored(p, gpi_selector)
  /\ selection' = Stored(p, selection)
  /\ UNCHANGED <<fields, trigger, gpi_mode, caller, upc, outside>>

WriteGpiMode(m) ==
  /\ ClientMayAct /\ upc = "idle"
  /\ ParamCall
  /\ gpi_mode' = [gpi_mode EXCEPT ![gpi_selector] = Stored(m, @)]
  /\ UNCHANGED <<fields, trigger, gpi_selector, caller, upc, selection, outside>>

\* The other attributes of a line, its levels and its debouncing, leave all
\* this as it is but for the status.
AccessGpi ==
  /\ ClientMayAct /\ upc = "idle"
  /\ ParamCall
  /\ UNCHANGED <<fields, trigger, gpi, caller, upc, selection, outside>>

\* Camera::setTriggerPolarity stores the value and leaves the device alone.
SetTriggerPolarity(p) ==
  /\ ClientMayAct /\ upc = "idle"
  /\ m_trig_polarity' = p
  /\ UNCHANGED <<m_trigger_mode, xi_status, trigger, gpi, caller, upc, selection,
                 outside>>

\* Camera::setMode selects a user set ...
SetMode ==
  /\ ClientMayAct /\ upc = "idle"
  /\ ParamCall
  /\ upc' = "load"
  /\ UNCHANGED <<fields, trigger, gpi, caller, selection, outside>>

\* ... and loads it, if the selection reads as accepted.  What the set holds is
\* the device's: no trigger, and lines it may or may not say anything about.
LoadUserSet ==
  /\ ClientMayAct /\ upc = "load"
  /\ upc' = "idle"
  /\ IF xi_status = "OK"
     THEN /\ ParamCall
          /\ trg_source' = Stored("Off", trg_source)
          /\ \E s \in {"BurstStart", "FrameStart"}, modes \in {gpi_mode, [p \in Ports |-> "Off"]} :
               /\ trg_selector' = Stored(s, trg_selector)
               /\ gpi_mode' = Stored(modes, gpi_mode)
          /\ outside' = Stored(TRUE, outside)
     ELSE UNCHANGED <<xi_status, trigger, gpi_mode, outside>>
  /\ UNCHANGED <<fields, gpi_selector, caller, selection>>

CtlNext ==
  \/ \E mode \in TrigModes : SetTrigMode(mode)
  \/ SelectPort \/ ArmPort \/ RestoreSelector
  \/ SetSource \/ WriteSelector \/ Record \/ Throw

ClientNext ==
  \/ \E p \in Ports : SelectGpi(p)
  \/ \E m \in GpiModes : WriteGpiMode(m)
  \/ AccessGpi
  \/ \E p \in Polarities : SetTriggerPolarity(p)
  \/ SetMode \/ LoadUserSet

Next == CtlNext \/ ClientNext

Spec == Init /\ [][Next]_tvars

-----------------------------------------------------------------------------
TypeOK ==
  /\ m_trigger_mode \in Supported
  /\ m_trig_polarity \in {"Falling", "Rising"}
  /\ xi_status \in {"OK", "ERROR"}
  /\ trg_source \in {"Off", "Software", "EdgeFalling", "EdgeRising"}
  /\ trg_selector \in {"BurstStart", "FrameStart"}
  /\ gpi_selector \in Ports /\ selection \in Ports
  /\ selected_gpi \in Ports \cup {NoPort}
  /\ gpi_mode \in [Ports -> GpiModes]
  /\ pc \in {"idle", "select", "arm", "restore", "source", "selector", "record"}
  /\ arg \in TrigModes
  /\ outcome \in {"none", "ok", "error"}
  /\ upc \in {"idle", "load"}
  /\ outside \in BOOLEAN

\* The last setTrigMode has returned and no client has loaded a user set since.
Settled == pc = "idle" /\ outcome = "ok" /\ ~outside

\* Do the device's own two parameters amount to the mode, with either polarity?
InMode(mode) ==
  /\ \E p \in {"Falling", "Rising"} : trg_source = SourceOf(mode, p)
  /\ trg_selector = SelectorOf(mode)

\* When setTrigMode has returned, the device is in the mode getTrigMode
\* reports, whatever an earlier call that failed had left half-written, until a
\* client writes the attribute mode.  With the client inside the call and a
\* device that fails this would be wrong: its good status can hide a refusal.
DeviceFollowsMode ==
  Settled => InMode(m_trigger_mode)

\* After setTrigMode(ExtTrigMult) the line the server is configured with is
\* the trigger input: "GPI port used by default for trigger input".
TriggerPortArmed ==
  [][Record /\ arg = "ExtTrigMult" => gpi_mode'[TriggerPort] = "Trigger"]_tvars

\* setTrigMode leaves every line but the trigger port as the client has
\* configured it, trigger inputs among them.
OtherPortsKept ==
  [][CtlNext => \A p \in Ports \ {TriggerPort} : gpi_mode'[p] = gpi_mode[p]]_tvars

\* What the client selects stays selected until it selects something else or
\* a call fails, also across calls that repair what a failed one has left:
\* the lines it configures are the lines it means ("Select GPI to configure").
SelectionHeld == pc = "idle" => gpi_selector = selection

-----------------------------------------------------------------------------
DeviceMode ==
  IF \E mode \in Supported : InMode(mode)
  THEN CHOOSE mode \in Supported : InMode(mode) ELSE "mixed"

Listens == gpi_mode[TriggerPort] = "Trigger"

BeingSet == IF pc = "idle" THEN "none" ELSE arg

Setting == INSTANCE TriggerSetting WITH
  Modes <- Supported, External <- {"ExtTrigMult"}, reported <- m_trigger_mode,
  device <- DeviceMode, listens <- Listens, setting <- BeingSet

\* Parameter by parameter, with failures and a client that uses the lines and
\* loads user sets between the calls, setTrigMode does what Lima is promised.
ImplementsSetting == Setting!Spec
=============================================================================
