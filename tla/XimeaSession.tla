----------------------------- MODULE XimeaSession -----------------------------
(***************************************************************************)
(* The life of a Camera object: construction by get_control, reset, and    *)
(* the settings that reach the device between them, one access at a time,  *)
(* by two threads: ctl, which is Lima (get_control, reset, image type,     *)
(* trigger mode), and usr, the Ximea Tango device (attributes).            *)
(*                                                                         *)
(* An operation is the sequence of accesses it makes.  The result of each  *)
(* goes to the one xi_status of the camera and is tested after it: a bad   *)
(* one ends the operation, unless the other thread has made a good call    *)
(* in between.  What the acquisition does with the handle is in XimeaAcq,  *)
(* the trigger parameters one by one are in XimeaTrigger.                  *)
(***************************************************************************)
EXTENDS Naturals, Sequences

CONSTANTS
  Modes,        \* the user sets of the device
  StartupMode,  \* m_startup_mode
  Depths,       \* the bit depths Lima has an image type for
  DepthOf,      \* the depth each user set comes with
  CallsFail,    \* may the device fail an access?
  Overlapping   \* the operations of ctl during which usr may act: nothing
                \* in the code keeps it from any of them

ASSUME SessionAssumption ==
  /\ StartupMode \in Modes
  /\ DepthOf \in [Modes -> Depths]
  /\ CallsFail \in BOOLEAN
  /\ Overlapping \subseteq {"construct", "reset", "setTrigMode", "setImageType"}

VARIABLES
  camera,          \* _XimeaCam: "none" or "made"
  xiH,             \* its handle: "null", "open", or "closed" and not yet null
  xi_status,       \* result of the last call, of either thread
  m_trigger_mode,
  device,          \* the parameters the properties are about
  todo,            \* per thread: the accesses still to make
  op,              \* per thread: the operation under way
  untested,        \* the threads that have yet to test the result of a call
  outcome,         \* how the last operation that sets the depths has ended
  hidden           \* while such an operation had yet to test a bad result,
                   \* has the other thread put a good one in its place?

fields == <<camera, xiH, m_trigger_mode, device>>
svars  == <<fields, xi_status, todo, op, untested, outcome, hidden>>

-----------------------------------------------------------------------------
\* The accesses.  Other is one to a parameter nothing here depends on.
Set(param, value) == <<"set", param, value>>
Record(mode)      == <<"record", mode>>
Open   == <<"open">>
Close  == <<"close">>
Forget == <<"forget">>   \* xiH = nullptr
Reboot == <<"reboot">>   \* XI_PRM_DEVICE_RESET
Load   == <<"load">>     \* XI_PRM_USER_SET_LOAD
Other  == <<"other">>

\* Those that go through the handle, and those whose result is stored.
UsesHandle(access) == access[1] \in {"set", "close", "reboot", "load", "other"}
Tested(access)     == access[1] \in {"set", "open", "reboot", "load", "other"}

SourceOf == [IntTrig |-> "Off", IntTrigMult |-> "Software", ExtTrigMult |-> "Edge"]

\* Without the GPI setup, which is in XimeaTrigger.
SetTrigModeCalls(mode) == <<Set("source", SourceOf[mode]), Other, Record(mode)>>

SetModeCalls_NotLoaded(mode) == <<Set("user_set", mode)>>

SetModeCalls(mode) == <<Set("user_set", mode), Load>>

SetImageTypeCalls_NoOutput(depth) == <<Set("sensor", depth), Set("image", depth)>>

SetImageTypeCalls(depth) ==
  <<Set("sensor", depth), Set("output", depth), Set("image", depth)>>

StartupCalls ==
  <<Open, Other, Other, Set("policy", "safe"),
    Set("cooling", "startup"), Set("target", "startup")>>
  \o SetTrigModeCalls("IntTrig")
  \o SetModeCalls(StartupMode)
  \o <<Set("default_set", StartupMode), Other, Other>>

ResetCalls_KeepsHandle == <<Reboot, Close>> \o StartupCalls

ResetCalls == <<Reboot, Close, Forget>> \o StartupCalls

\* A device that has just booted has loaded some user set, with the trigger
\* off; the rest is not what the plugin wants it to be.
Booted ==
  {[policy |-> "unsafe", cooling |-> "default", target |-> "default",
    source |-> "Off", user_set |-> m, loaded |-> m, default_set |-> m,
    sensor |-> DepthOf[m], output |-> DepthOf[m], image |-> DepthOf[m]] : m \in Modes}

Loaded ==
  [device EXCEPT !.loaded = device.user_set, !.source = "Off",
                 !.sensor = DepthOf[device.user_set],
                 !.output = DepthOf[device.user_set],
                 !.image  = DepthOf[device.user_set]]

-----------------------------------------------------------------------------
Threads == {"ctl", "usr"}

Init ==
  /\ camera = "none" /\ xiH = "null" /\ m_trigger_mode = "IntTrig"
  /\ xi_status = "OK" /\ untested = {} /\ hidden = FALSE
  /\ device \in Booted
  /\ todo = [t \in Threads |-> <<>>]
  /\ op = [t \in Threads |-> "none"]
  /\ outcome = "none"

SetsDepths(name) == name \in {"construct", "reset", "setImageType", "setMode"}

\* A thread starts an operation while the other makes none, or beside one of
\* the operations that may overlap.
Begin(t, name, calls) ==
  /\ op[t] = "none"
  /\ \/ \A u \in Threads : op[u] = "none"
     \/ (IF t = "ctl" THEN name ELSE op["ctl"]) \in Overlapping
  /\ op' = [op EXCEPT ![t] = name]
  /\ todo' = [todo EXCEPT ![t] = calls]
  /\ hidden' = (hidden /\ ~SetsDepths(name))
  /\ UNCHANGED <<fields, xi_status, untested, outcome>>

\* get_control: the camera is made once, or again if making it has failed.
GetControl == camera = "none" /\ Begin("ctl", "construct", StartupCalls)

Reset == camera = "made" /\ Begin("ctl", "reset", ResetCalls)

SetTrigMode(mode) ==
  camera = "made" /\ Begin("ctl", "setTrigMode", SetTrigModeCalls(mode))

SetImageType_Unchecked(type) ==
  camera = "made" /\ Begin("ctl", "setImageType", SetImageTypeCalls(type))

\* A type with no bit depth of its own is refused before any access.
SetImageType(type) ==
  /\ camera = "made" /\ type \in Depths
  /\ Begin("ctl", "setImageType", SetImageTypeCalls(type))

SetMode(m) == camera = "made" /\ Begin("usr", "setMode", SetModeCalls(m))

\* The other attributes: each is one access, most to parameters that nothing
\* in the plugin depends on, and needs the handle like any other.
Attributes == {Set("cooling", "client"), Set("target", "client"), Other}

AccessAttribute(access) ==
  camera = "made" /\ Begin("usr", "attribute", <<access>>)

\* The result of thread t's last call, if it has made one, reads as good.
Passed(t) == t \in untested => xi_status = "OK"

\* Thread t has made the access, with this result.
Made(t, access, result) ==
  /\ todo' = [todo EXCEPT ![t] = Tail(@)]
  /\ xi_status' = IF Tested(access) THEN result ELSE xi_status
  /\ untested'  = IF Tested(access) THEN untested \cup {t} ELSE untested \ {t}
  /\ hidden'    = \/ hidden
                  \/ /\ xi_status = "ERROR" /\ xi_status' = "OK"
                     /\ \E u \in untested : SetsDepths(op[u])
  /\ UNCHANGED <<camera, op, outcome>>

\* Thread t makes its next access, and the device does what it says.
Access(t) ==
  /\ todo[t] # <<>> /\ Passed(t)
  /\ LET access == Head(todo[t])
     IN  /\ UsesHandle(access) => xiH = "open"
         /\ xiH' = CASE access = Open   -> "open"
                     [] access = Close  -> "closed"
                     [] access = Forget -> "null"
                     [] OTHER           -> xiH
         /\ CASE access[1] = "set" -> device' = [device EXCEPT ![access[2]] = access[3]]
              [] access = Load     -> device' = Loaded
              [] access = Reboot   -> device' \in Booted
              [] access = Open     -> device' = [device EXCEPT !.policy = "unsafe"]
              [] OTHER             -> UNCHANGED device
         /\ m_trigger_mode' = IF access[1] = "record" THEN access[2] ELSE m_trigger_mode
         /\ Made(t, access, "OK")

\* The next access is refused, always through a handle that is not open.
Refuse(t) ==
  /\ todo[t] # <<>> /\ Passed(t)
  /\ LET access == Head(todo[t])
     IN  /\ \/ CallsFail /\ Tested(access)
            \/ UsesHandle(access) /\ xiH # "open"
         /\ Made(t, access, "ERROR")
  /\ UNCHANGED <<xiH, m_trigger_mode, device>>

Ends(t, result) ==
  /\ op' = [op EXCEPT ![t] = "none"]
  /\ todo' = [todo EXCEPT ![t] = <<>>]
  /\ untested' = untested \ {t}
  /\ outcome' = IF SetsDepths(op[t]) THEN result ELSE outcome
  /\ UNCHANGED <<xi_status, m_trigger_mode, device, hidden>>

\* The last test has passed.
Return(t) ==
  /\ op[t] # "none" /\ todo[t] = <<>> /\ Passed(t)
  /\ Ends(t, "ok")
  /\ camera' = IF op[t] = "construct" THEN "made" ELSE camera
  /\ UNCHANGED xiH

\* A test has not, and the exception ends the operation.  A Camera whose
\* construction fails is gone, with its handle; the device stays open.
Throw(t) ==
  /\ ~Passed(t)
  /\ Ends(t, "error")
  /\ xiH' = IF op[t] = "construct" THEN "null" ELSE xiH
  /\ UNCHANGED camera

Next ==
  \/ GetControl \/ Reset
  \/ \E mode \in DOMAIN SourceOf : SetTrigMode(mode)
  \/ \E type \in Depths \cup {"Bpp1"} : SetImageType(type)
  \/ \E m \in Modes : SetMode(m)
  \/ \E access \in Attributes : AccessAttribute(access)
  \/ \E t \in Threads : Access(t) \/ Refuse(t) \/ Return(t) \/ Throw(t)

Spec == Init /\ [][Next]_svars

-----------------------------------------------------------------------------
TypeOK ==
  /\ camera \in {"none", "made"}
  /\ xiH \in {"null", "open", "closed"}
  /\ m_trigger_mode \in DOMAIN SourceOf
  /\ device \in
       [policy : {"unsafe", "safe"}, cooling : {"default", "startup", "client"},
        target : {"default", "startup", "client"}, source : {"Off", "Software", "Edge"},
        user_set : Modes, loaded : Modes, default_set : Modes,
        sensor : Depths, output : Depths, image : Depths]
  /\ op \in [Threads -> {"none", "construct", "reset", "setTrigMode",
                         "setImageType", "setMode", "attribute"}]
  /\ \A t \in Threads : op[t] = "none" => todo[t] = <<>> /\ t \notin untested
  /\ xi_status \in {"OK", "ERROR"} /\ untested \subseteq Threads
  /\ outcome \in {"none", "ok", "error"} /\ hidden \in BOOLEAN

\* A construction or a reset that returns leaves the device as the server's
\* properties want it, however many that failed half-way, or what client
\* settings, came before; and what is remembered of it is true.
Configured ==
  /\ xiH = "open" /\ m_trigger_mode = "IntTrig"
  /\ device.policy = "safe" /\ device.source = "Off"
  /\ device.cooling = "startup" /\ device.target = "startup"
  /\ device.user_set = StartupMode /\ device.loaded = StartupMode
  /\ device.default_set = StartupMode

ConfiguredOnReturn ==
  [][op["ctl"] \in {"construct", "reset"} /\ op'["ctl"] = "none" /\ outcome' = "ok"
       => Configured']_svars

\* A closed handle is never left behind: whatever fails in a reset, when it is
\* over the member is null, which the device refuses, or a handle that is open.
\* Within the reset there is a moment between the close and the assignment in
\* which an attribute of the Tango device would use the closed one.
ClosedOnlyInReset == xiH = "closed" => op["ctl"] = "reset"

\* When the last operation that sets the depths has succeeded, sensor, output
\* and image have the same one: getImageType, which reads one of them, is
\* right about all three, whatever a failed operation left before.  The only
\* way round it is a refusal that a call of the other thread has hidden.
DepthsAgree ==
  outcome = "ok" /\ ~hidden /\ (\A t \in Threads : ~SetsDepths(op[t])) =>
    device.sensor = device.image /\ device.output = device.image
=============================================================================
