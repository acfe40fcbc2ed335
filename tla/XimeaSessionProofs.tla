------------------------- MODULE XimeaSessionProofs -------------------------
(***************************************************************************)
(* Theorems about XimeaSession, for every choice of user sets and depths   *)
(* and whichever accesses the device refuses: the types and the handle     *)
(* whoever acts beside whom, the settings while the Tango device keeps out *)
(* of resets.  A setMode beside a change of the trigger mode may have its  *)
(* refusal hidden in the shared status: the invariant says that it is      *)
(* known as hidden then.                                                   *)
(***************************************************************************)
EXTENDS XimeaSession, AccessLists

-----------------------------------------------------------------------------
\* The accesses an operation may be made of.
Settings ==
  {Set("policy", "safe"),
   Set("cooling", "startup"), Set("cooling", "client"),
   Set("target", "startup"),  Set("target", "client")}
  \cup {Set("source", s) : s \in {"Off", "Software", "Edge"}}
  \cup {Set("user_set", m) : m \in Modes} \cup {Set("default_set", m) : m \in Modes}
  \cup {Set("sensor", d) : d \in Depths} \cup {Set("output", d) : d \in Depths}
  \cup {Set("image", d) : d \in Depths}

Accesses ==
  Settings \cup {Record(mode) : mode \in DOMAIN SourceOf}
           \cup {Open, Close, Forget, Reboot, Load, Other}

Devices ==
  [policy : {"unsafe", "safe"}, cooling : {"default", "startup", "client"},
   target : {"default", "startup", "client"}, source : {"Off", "Software", "Edge"},
   user_set : Modes, loaded : Modes, default_set : Modes,
   sensor : Depths, output : Depths, image : Depths]

Operations ==
  {"construct", "reset", "setTrigMode", "setImageType", "setMode", "attribute"}

Typed ==
  /\ camera \in {"none", "made"}
  /\ xiH \in {"null", "open", "closed"}
  /\ m_trigger_mode \in DOMAIN SourceOf
  /\ device \in Devices
  /\ op \in [Threads -> Operations \cup {"none"}]
  /\ todo \in [Threads -> Seq(Accesses)]
  /\ \A t \in Threads : op[t] = "none" => todo[t] = <<>> /\ t \notin untested
  /\ xi_status \in {"OK", "ERROR"} /\ untested \subseteq Threads
  /\ outcome \in {"none", "ok", "error"} /\ hidden \in BOOLEAN

\* Accesses of different kinds differ.
LEMMA Kinds ==
  /\ \A p, v : Set(p, v)[1] = "set" /\ Set(p, v)[2] = p /\ Set(p, v)[3] = v
  /\ \A v : Record(v)[1] = "record" /\ Record(v)[2] = v
  /\ Open[1] = "open" /\ Close[1] = "close" /\ Forget[1] = "forget"
  /\ Reboot[1] = "reboot" /\ Load[1] = "load" /\ Other[1] = "other"
BY DEF Set, Record, Open, Close, Forget, Reboot, Load, Other

\* The operations as lists of accesses: that of a change of the trigger mode.
LEMMA TriggerCalls ==
  ASSUME NEW mode \in DOMAIN SourceOf
  PROVE  /\ SetTrigModeCalls(mode) \in Seq(Accesses)
         /\ Len(SetTrigModeCalls(mode)) = 3 /\ SetTrigModeCalls(mode) # <<>>
<1>1. SourceOf[mode] \in {"Off", "Software", "Edge"}
  BY DEF SourceOf
<1>2. /\ Set("source", SourceOf[mode]) \in Accesses
      /\ Other \in Accesses /\ Record(mode) \in Accesses
  BY <1>1 DEF Accesses, Settings
<1> QED
  BY <1>2 DEF SetTrigModeCalls

\* That of a change of the image type.
LEMMA ImageCalls ==
  ASSUME NEW depth \in Depths
  PROVE  /\ SetImageTypeCalls(depth) \in Seq(Accesses)
         /\ Len(SetImageTypeCalls(depth)) = 3 /\ SetImageTypeCalls(depth) # <<>>
<1>1. /\ Set("sensor", depth) \in Accesses /\ Set("output", depth) \in Accesses
      /\ Set("image", depth) \in Accesses
  BY DEF Accesses, Settings
<1> QED
  BY <1>1 DEF SetImageTypeCalls

\* That of a change of the user set.
LEMMA ModeCalls ==
  ASSUME NEW m \in Modes
  PROVE  /\ SetModeCalls(m) \in Seq(Accesses)
         /\ Len(SetModeCalls(m)) = 2 /\ SetModeCalls(m) # <<>>
<1>1. Set("user_set", m) \in Accesses /\ Load \in Accesses
  BY DEF Accesses, Settings
<1> QED
  BY <1>1 DEF SetModeCalls

\* That of an attribute.
LEMMA AttributeCalls ==
  ASSUME NEW access \in Attributes
  PROVE  <<access>> \in Seq(Accesses) /\ Len(<<access>>) = 1 /\ <<access>> # <<>>
<1>1. access \in Accesses
  BY DEF Attributes, Accesses, Settings
<1> QED
  BY <1>1

\* The accesses of a startup, place by place.
LEMMA StartupPlaces ==
  /\ StartupCalls \in Seq(Accesses) /\ Len(StartupCalls) = 14
  /\ StartupCalls[1] = Open /\ StartupCalls[2] = Other /\ StartupCalls[3] = Other
  /\ StartupCalls[4] = Set("policy", "safe")
  /\ StartupCalls[5] = Set("cooling", "startup")
  /\ StartupCalls[6] = Set("target", "startup")
  /\ StartupCalls[7] = Set("source", "Off")
  /\ StartupCalls[8] = Other /\ StartupCalls[9] = Record("IntTrig")
  /\ StartupCalls[10] = Set("user_set", StartupMode) /\ StartupCalls[11] = Load
  /\ StartupCalls[12] = Set("default_set", StartupMode)
  /\ StartupCalls[13] = Other /\ StartupCalls[14] = Other
<1> DEFINE A == <<Open, Other, Other, Set("policy", "safe"),
                  Set("cooling", "startup"), Set("target", "startup")>>
           B == SetTrigModeCalls("IntTrig")
           C == SetModeCalls(StartupMode)
           D == <<Set("default_set", StartupMode), Other, Other>>
<1>1. StartupCalls = ((A \o B) \o C) \o D
  BY DEF StartupCalls
<1>2. /\ A \in Seq(Accesses) /\ Len(A) = 6
      /\ A[1] = Open /\ A[2] = Other /\ A[3] = Other
      /\ A[4] = Set("policy", "safe")
      /\ A[5] = Set("cooling", "startup") /\ A[6] = Set("target", "startup")
  <2>1. {Open, Other, Set("policy", "safe"), Set("cooling", "startup"),
         Set("target", "startup")} \in SUBSET Accesses
    BY DEF Accesses, Settings
  <2> QED
    BY <2>1
<1>3. /\ B \in Seq(Accesses) /\ Len(B) = 3
      /\ B[1] = Set("source", "Off") /\ B[2] = Other /\ B[3] = Record("IntTrig")
  <2>1. "IntTrig" \in DOMAIN SourceOf /\ SourceOf["IntTrig"] = "Off"
    BY DEF SourceOf
  <2> QED
    BY <2>1, TriggerCalls DEF SetTrigModeCalls
<1>4. /\ C \in Seq(Accesses) /\ Len(C) = 2
      /\ C[1] = Set("user_set", StartupMode) /\ C[2] = Load
  BY SessionAssumption, ModeCalls DEF SetModeCalls
<1>5. /\ D \in Seq(Accesses) /\ Len(D) = 3
      /\ D[1] = Set("default_set", StartupMode) /\ D[2] = Other /\ D[3] = Other
  <2>1. {Set("default_set", StartupMode), Other} \in SUBSET Accesses
    BY SessionAssumption DEF Accesses, Settings
  <2> QED
    BY <2>1
<1> HIDE DEF A, B, C, D
<1> DEFINE AB == A \o B
           ABC == AB \o C
<1>6. AB \in Seq(Accesses) /\ Joins(AB, A, 6, B, 3)
  BY <1>2, <1>3, Joined
<1> HIDE DEF AB
<1>7. Len(AB) = 9
  BY <1>6 DEF Joins
<1>8. ABC \in Seq(Accesses) /\ Joins(ABC, AB, 9, C, 2)
  BY <1>4, <1>6, <1>7, Joined
<1> HIDE DEF ABC
<1>9. Len(ABC) = 11
  BY <1>8 DEF Joins
<1>10. ABC \o D \in Seq(Accesses) /\ Joins(ABC \o D, ABC, 11, D, 3)
  BY <1>5, <1>8, <1>9, Joined
<1>11. StartupCalls = ABC \o D
  BY <1>1 DEF AB, ABC
<1>12. /\ \A i \in 1 .. 6 : AB[i] = A[i]
       /\ AB[7] = B[1] /\ AB[8] = B[2] /\ AB[9] = B[3]
  BY <1>6 DEF Joins
<1>13. /\ \A i \in 1 .. 9 : ABC[i] = AB[i]
       /\ ABC[10] = C[1] /\ ABC[11] = C[2]
  BY <1>8 DEF Joins
<1>14. /\ Len(StartupCalls) = 14 /\ \A i \in 1 .. 11 : StartupCalls[i] = ABC[i]
       /\ StartupCalls[12] = D[1] /\ StartupCalls[13] = D[2] /\ StartupCalls[14] = D[3]
  <2>1. Joins(StartupCalls, ABC, 11, D, 3)
    BY <1>10, <1>11, Zenon
  <2> QED
    BY <2>1 DEF Joins
<1>15. /\ \A i \in 1 .. 9 : StartupCalls[i] = AB[i]
       /\ StartupCalls[10] = C[1] /\ StartupCalls[11] = C[2]
  BY <1>13, <1>14
<1>16. /\ StartupCalls[1] = A[1] /\ StartupCalls[2] = A[2] /\ StartupCalls[3] = A[3]
       /\ StartupCalls[4] = A[4] /\ StartupCalls[5] = A[5] /\ StartupCalls[6] = A[6]
       /\ StartupCalls[7] = B[1] /\ StartupCalls[8] = B[2] /\ StartupCalls[9] = B[3]
  BY <1>12, <1>15
<1>17. /\ StartupCalls[1] = Open /\ StartupCalls[2] = Other /\ StartupCalls[3] = Other
       /\ StartupCalls[4] = Set("policy", "safe")
       /\ StartupCalls[5] = Set("cooling", "startup")
       /\ StartupCalls[6] = Set("target", "startup")
  BY <1>2, <1>16, Zenon
<1> QED
  <2>1. StartupCalls \in Seq(Accesses) /\ Len(StartupCalls) = 14
    BY <1>10, <1>11, <1>14
  <2>2. /\ StartupCalls[7] = Set("source", "Off")
        /\ StartupCalls[8] = Other /\ StartupCalls[9] = Record("IntTrig")
    BY <1>3, <1>16, Zenon
  <2>3. StartupCalls[10] = Set("user_set", StartupMode) /\ StartupCalls[11] = Load
    BY <1>4, <1>15, Zenon
  <2>4. /\ StartupCalls[12] = Set("default_set", StartupMode)
        /\ StartupCalls[13] = Other /\ StartupCalls[14] = Other
    BY <1>5, <1>14, Zenon
  <2> QED
    BY <1>17, <2>1, <2>2, <2>3, <2>4, Zenon

\* Those of a reset, which is a startup behind three accesses of its own.
LEMMA ResetPlaces ==
  /\ ResetCalls \in Seq(Accesses) /\ Len(ResetCalls) = 17
  /\ From(ResetCalls, 4) = StartupCalls
  /\ ResetCalls[1] = Reboot /\ ResetCalls[2] = Close /\ ResetCalls[3] = Forget
  /\ \A k \in 1 .. 14 : ResetCalls[3 + k] = StartupCalls[k]
<1> DEFINE R == <<Reboot, Close, Forget>>
<1>1. /\ R \in Seq(Accesses) /\ Len(R) = 3
      /\ R[1] = Reboot /\ R[2] = Close /\ R[3] = Forget
  <2>1. Reboot \in Accesses /\ Close \in Accesses /\ Forget \in Accesses
    BY DEF Accesses
  <2> QED
    BY <2>1
<1>2. ResetCalls = R \o StartupCalls
  BY DEF ResetCalls
<1> HIDE DEF R
<1>3. ResetCalls \in Seq(Accesses) /\ Joins(ResetCalls, R, 3, StartupCalls, 14)
  BY <1>1, <1>2, StartupPlaces, Joined
<1> QED
  BY <1>1, <1>3 DEF Joins

-----------------------------------------------------------------------------
\* What of the state an operation under way has brought about.

\* Who does what.
Users ==
  /\ op["ctl"] \in {"none", "construct", "reset", "setTrigMode", "setImageType"}
  /\ op["usr"] \in {"none", "setMode", "attribute"}

\* The accesses that leave the handle as it is, and those that concern no
\* depth either.
Plain == Accesses \ {Open, Close, Forget}

Quiet ==
  Attributes \cup {Set("source", s) : s \in {"Off", "Software", "Edge"}}
             \cup {Record(mode) : mode \in DOMAIN SourceOf}

PlainOnes == \A t \in Threads : op[t] \notin {"construct", "reset"} => todo[t] \in Seq(Plain)

QuietOnes == \A t \in Threads : op[t] \in {"setTrigMode", "attribute"} => todo[t] \in Seq(Quiet)

\* A construction is the end of a reset.  The handle is a closed one before
\* the third access only, when there is nothing to be tested.
Placed(k) ==
  /\ todo["ctl"] = From(ResetCalls, k)
  /\ op["ctl"] = "construct" => k > 3
  /\ xiH = "closed" => k = 3 /\ "ctl" \notin untested

AtReset ==
  IF op["ctl"] \in {"construct", "reset"}
  THEN \E k \in 1 .. 18 : Placed(k)
  ELSE xiH # "closed"

HandleInv == Typed /\ Users /\ PlainOnes /\ AtReset

\* Who acts beside whom.
Together ==
  /\ op["ctl"] \notin Overlapping \cup {"none"} => op["usr"] = "none"
  /\ op["ctl"] = "construct" => camera = "none"
  /\ camera = "none" => op["usr"] = "none"

\* What a reset has done before its access k.
Started(k) ==
  /\ k > 4  => xiH = "open"
  /\ k > 7  => device.policy = "safe"
  /\ k > 8  => device.cooling = "startup"
  /\ k > 9  => device.target = "startup"
  /\ k > 10 => device.source = "Off"
  /\ k > 12 => m_trigger_mode = "IntTrig"
  /\ k > 13 => device.user_set = StartupMode
  /\ k > 14 => /\ device.loaded = StartupMode
               /\ device.sensor = device.image /\ device.output = device.image
  /\ k > 15 => device.default_set = StartupMode

\* Each test that has passed has been of the reset's own call.
AtStartup ==
  op["ctl"] \in {"construct", "reset"} =>
    \E k \in 1 .. 18 : todo["ctl"] = From(ResetCalls, k) /\ (Passed("ctl") => Started(k))

OneDepth == device.sensor = device.image /\ device.output = device.image

\* A good status that nobody has put in the place of a bad one means that the
\* user set has been loaded.
AtSetMode ==
  op["usr"] = "setMode" =>
    \E m \in Modes : \E k \in 1 .. 3 :
      /\ todo["usr"] = From(SetModeCalls(m), k)
      /\ k = 3 => /\ "usr" \in untested
                  /\ "setImageType" \notin Overlapping =>
                       (xi_status = "OK" /\ ~hidden => OneDepth)

\* Without the Tango device beside it, an image type is set place by place.
AtSetImageType ==
  op["ctl"] = "setImageType" =>
    \E type \in Depths : \E k \in 1 .. 4 :
      /\ todo["ctl"] = From(SetImageTypeCalls(type), k)
      /\ "setImageType" \notin Overlapping /\ Passed("ctl") =>
           /\ k > 1 => device.sensor = type
           /\ k > 2 => device.output = type
           /\ k > 3 => device.image = type

SessionInv ==
  /\ HandleInv /\ Together /\ QuietOnes /\ AtStartup /\ AtSetMode /\ AtSetImageType
  /\ "setImageType" \notin Overlapping => DepthsAgree

-----------------------------------------------------------------------------
\* What an access does, by its kind.

\* No two of the accesses without a value are the same, and none of them is a
\* setting or a record.
LEMMA Distinct ==
  ASSUME NEW a \in {Open, Close, Forget, Reboot, Load, Other}
  PROVE  /\ a[1] # "set" /\ a[1] # "record"
         /\ a = Open   <=> a[1] = "open"
         /\ a = Close  <=> a[1] = "close"
         /\ a = Forget <=> a[1] = "forget"
         /\ a = Reboot <=> a[1] = "reboot"
         /\ a = Load   <=> a[1] = "load"
         /\ a = Other  <=> a[1] = "other"
BY DEF Open, Close, Forget, Reboot, Load, Other

\* A setting goes through the handle to the device.
LEMMA SetEffect ==
  ASSUME NEW t \in Threads, Access(t), NEW p, NEW v, Head(todo[t]) = Set(p, v)
  PROVE  /\ xiH = "open" /\ xiH' = "open" /\ m_trigger_mode' = m_trigger_mode
         /\ device' = [device EXCEPT ![p] = v]
<1>1. Set(p, v)[1] = "set" /\ Set(p, v)[2] = p /\ Set(p, v)[3] = v
  BY Kinds
<1>2. /\ Set(p, v) # Open /\ Set(p, v) # Close /\ Set(p, v) # Forget
      /\ Set(p, v) # Load /\ Set(p, v) # Reboot
  BY <1>1, Kinds
<1> QED
  BY <1>1, <1>2 DEF Access, UsesHandle

\* A record changes the member.
LEMMA RecordEffect ==
  ASSUME NEW t \in Threads, Access(t), NEW v, Head(todo[t]) = Record(v)
  PROVE  xiH' = xiH /\ m_trigger_mode' = v /\ device' = device
<1>1. Record(v)[1] = "record" /\ Record(v)[2] = v
  BY Kinds
<1>2. /\ Record(v) # Open /\ Record(v) # Close /\ Record(v) # Forget
      /\ Record(v) # Load /\ Record(v) # Reboot
  BY <1>1, Kinds
<1> QED
  BY <1>1, <1>2 DEF Access

\* The handle is opened, closed and forgotten.
LEMMA HandleEffect ==
  ASSUME NEW t \in Threads, Access(t), Head(todo[t]) \in {Open, Close, Forget}
  PROVE  /\ m_trigger_mode' = m_trigger_mode
         /\ Head(todo[t]) = Open =>
              xiH' = "open" /\ device' = [device EXCEPT !.policy = "unsafe"]
         /\ Head(todo[t]) = Close => xiH' = "closed" /\ device' = device
         /\ Head(todo[t]) = Forget => xiH' = "null" /\ device' = device
<1> DEFINE a == Head(todo[t])
<1>1. /\ a[1] # "set" /\ a[1] # "record" /\ a # Load /\ a # Reboot
      /\ a = Open => a # Close /\ a # Forget
      /\ a = Close => a # Forget /\ a # Open
      /\ a = Forget => a # Close /\ a # Open
  BY Kinds
<1> QED
  BY <1>1 DEF Access

\* The device boots, loads a user set, or does what nothing here depends on.
LEMMA DeviceEffect ==
  ASSUME NEW t \in Threads, Access(t), Head(todo[t]) \in {Reboot, Load, Other}
  PROVE  /\ xiH = "open" /\ xiH' = "open" /\ m_trigger_mode' = m_trigger_mode
         /\ Head(todo[t]) = Reboot => device' \in Booted
         /\ Head(todo[t]) = Load => device' = Loaded
         /\ Head(todo[t]) = Other => device' = device
<1> DEFINE a == Head(todo[t])
<1>1. /\ a[1] \in {"reboot", "load", "other"}
      /\ a # Open /\ a # Close /\ a # Forget
      /\ a = Reboot => a # Load
      /\ a = Load => a # Reboot
      /\ a = Other => a # Load /\ a # Reboot
  BY Kinds
<1> QED
  BY <1>1 DEF Access, UsesHandle

\* The operation goes on behind the access, whatever its result.
LEMMA Moves ==
  ASSUME NEW t \in Threads, Access(t) \/ Refuse(t), Typed
  PROVE  /\ todo[t] # <<>> /\ op[t] # "none" /\ todo[t] \in Seq(Accesses)
         /\ Head(todo[t]) \in Accesses
         /\ todo' \in [Threads -> Seq(Accesses)] /\ todo'[t] = Tail(todo[t])
         /\ \A u \in Threads : u # t => todo'[u] = todo[u]
         /\ UNCHANGED <<op, outcome, camera>>
<1>1. todo[t] # <<>> /\ op[t] # "none" /\ todo[t] \in Seq(Accesses)
  BY DEF Access, Refuse, Typed
<1>2. /\ todo' = [todo EXCEPT ![t] = Tail(@)] /\ Tail(todo[t]) \in Seq(Accesses)
      /\ Head(todo[t]) \in Accesses /\ UNCHANGED <<op, outcome, camera>>
  <2>1. Head(todo[t]) \in Accesses /\ Tail(todo[t]) \in Seq(Accesses)
    BY <1>1, Shorter
  <2> QED
    BY <2>1 DEF Access, Refuse, Made
<1>3. /\ todo' \in [Threads -> Seq(Accesses)] /\ todo'[t] = Tail(todo[t])
      /\ \A u \in Threads : u # t => todo'[u] = todo[u]
  BY <1>2 DEF Typed
<1> QED
  BY <1>1, <1>2, <1>3

\* What becomes of the status, and who has yet to test it.
LEMMA Statuses ==
  ASSUME NEW t \in Threads, Access(t) \/ Refuse(t), Typed
  PROVE  /\ xi_status' \in {"OK", "ERROR"} /\ untested' \subseteq Threads
         /\ hidden' \in BOOLEAN /\ (hidden => hidden')
         /\ \A u \in Threads : u # t => (u \in untested' <=> u \in untested)
         /\ t \in untested' <=> Tested(Head(todo[t]))
         /\ Passed(t)
         /\ Refuse(t) /\ Tested(Head(todo[t])) => xi_status' = "ERROR"
         /\ ~hidden' /\ xi_status' = "OK" =>
              xi_status = "OK" \/ \A u \in untested : ~SetsDepths(op[u])
BY DEF Access, Refuse, Made, Typed

\* An operation ends.
LEMMA EndsAt ==
  ASSUME NEW t \in Threads, Return(t) \/ Throw(t), Typed
  PROVE  /\ op[t] # "none" /\ op'[t] = "none" /\ todo'[t] = <<>> /\ t \notin untested'
         /\ \A u \in Threads : u # t => op'[u] = op[u] /\ todo'[u] = todo[u]
         /\ \A u \in Threads : u # t => (u \in untested' <=> u \in untested)
         /\ UNCHANGED <<xi_status, m_trigger_mode, device, hidden>>
         /\ xiH' = xiH \/ (op[t] = "construct" /\ xiH' = "null")
         /\ camera' = camera \/ (op[t] = "construct" /\ camera' = "made")
         /\ ~SetsDepths(op[t]) => outcome' = outcome
         /\ SetsDepths(op[t]) => outcome' = IF Return(t) THEN "ok" ELSE "error"
<1>1. Return(t) => Passed(t)
  BY DEF Return
<1>2. Throw(t) => ~Passed(t)
  BY DEF Throw
<1>3. op[t] # "none"
  BY DEF Return, Throw, Passed, Typed
<1>4. /\ op'[t] = "none" /\ todo'[t] = <<>> /\ t \notin untested'
      /\ \A u \in Threads : u # t => op'[u] = op[u] /\ todo'[u] = todo[u]
      /\ \A u \in Threads : u # t => (u \in untested' <=> u \in untested)
      /\ UNCHANGED <<xi_status, m_trigger_mode, device, hidden>>
      /\ ~SetsDepths(op[t]) => outcome' = outcome
  BY DEF Return, Throw, Ends, Typed
<1>5. SetsDepths(op[t]) => outcome' = IF Return(t) THEN "ok" ELSE "error"
  <2>1. CASE Return(t)
    BY <2>1 DEF Return, Ends
  <2>2. CASE Throw(t)
    BY <1>1, <1>2, <2>2 DEF Throw, Ends
  <2> QED BY <2>1, <2>2
<1>6. /\ xiH' = xiH \/ (op[t] = "construct" /\ xiH' = "null")
      /\ camera' = camera \/ (op[t] = "construct" /\ camera' = "made")
  BY DEF Return, Throw
<1> QED
  BY <1>3, <1>4, <1>5, <1>6

-----------------------------------------------------------------------------
\* The types.

\* A device that has booted, or has loaded a user set, is one.
LEMMA DeviceTypes ==
  ASSUME device \in Devices
  PROVE  Booted \subseteq Devices /\ Loaded \in Devices
<1>1. \A m \in Modes : DepthOf[m] \in Depths
  BY SessionAssumption
<1>2. ASSUME NEW m \in Modes
      PROVE  [policy |-> "unsafe", cooling |-> "default", target |-> "default",
              source |-> "Off", user_set |-> m, loaded |-> m, default_set |-> m,
              sensor |-> DepthOf[m], output |-> DepthOf[m],
              image |-> DepthOf[m]] \in Devices
  BY <1>1 DEF Devices
<1>3. DepthOf[device.user_set] \in Depths /\ device.user_set \in Modes
  BY <1>1 DEF Devices
<1>4. Booted \subseteq Devices
  BY <1>2, Zenon DEF Booted
<1>5. Loaded \in Devices
  BY <1>3 DEF Loaded, Devices
<1> QED
  BY <1>4, <1>5

\* A setting leaves a device that is one.
LEMMA SettingTypes ==
  ASSUME device \in Devices, NEW p, NEW v, Set(p, v) \in Settings
  PROVE  [device EXCEPT ![p] = v] \in Devices
<1>1. /\ Set(p, v)[2] = p /\ Set(p, v)[3] = v
      /\ \A q, w : Set(q, w)[2] = q /\ Set(q, w)[3] = w
  BY Kinds
<1>2. \/ p = "policy" /\ v \in {"unsafe", "safe"}
      \/ p \in {"cooling", "target"} /\ v \in {"default", "startup", "client"}
      \/ p = "source" /\ v \in {"Off", "Software", "Edge"}
      \/ p \in {"user_set", "default_set"} /\ v \in Modes
      \/ p \in {"sensor", "output", "image"} /\ v \in Depths
  BY <1>1 DEF Settings
<1> QED
  BY <1>2 DEF Devices

\* To begin, to make an access, to have it refused and to end keep the types.
LEMMA BeginTyped ==
  ASSUME Typed, NEW t \in Threads, NEW name \in Operations,
         NEW calls \in Seq(Accesses), Begin(t, name, calls)
  PROVE  Typed'
<1>1. name # "none"
  BY DEF Operations
<1> QED
  BY <1>1 DEF Typed, Begin, fields

\* An access keeps the types: what it writes is a value of the parameter.
LEMMA AccessTyped ==
  ASSUME Typed, NEW t \in Threads, Access(t)
  PROVE  Typed'
<1> DEFINE a == Head(todo[t])
<1>1. a \in Accesses
  BY Moves
<1>2. device' \in Devices /\ m_trigger_mode' \in DOMAIN SourceOf
      /\ xiH' \in {"null", "open", "closed"}
  <2>1. CASE a \in Settings
    <3>1. PICK p, v : a = Set(p, v)
      BY <2>1 DEF Settings
    <3> QED
      <4>1. /\ xiH' = "open" /\ m_trigger_mode' = m_trigger_mode
            /\ device' = [device EXCEPT ![p] = v]
        BY <3>1, SetEffect, Zenon
      <4>2. device \in Devices /\ Set(p, v) \in Settings
        BY <2>1, <3>1 DEF Typed
      <4>3. [device EXCEPT ![p] = v] \in Devices
        BY <4>2, SettingTypes, Zenon
      <4> QED
        BY <4>1, <4>3 DEF Typed
  <2>2. CASE a \in {Record(mode) : mode \in DOMAIN SourceOf}
    BY <2>2, RecordEffect DEF Typed
  <2>3. CASE a \in {Open, Close, Forget}
    <3>1. device \in Devices /\ [device EXCEPT !.policy = "unsafe"] \in Devices
      BY DEF Typed, Devices
    <3> QED
      BY <2>3, <3>1, HandleEffect DEF Typed
  <2>4. CASE a \in {Reboot, Load, Other}
    BY <2>4, DeviceEffect, DeviceTypes DEF Typed
  <2> QED
    BY <1>1, <2>1, <2>2, <2>3, <2>4 DEF Accesses
<1>3. op[t] # "none"
  BY Moves
<1> HIDE DEF a
<1> QED
  BY <1>2, <1>3, Moves, Statuses DEF Typed

\* A refusal changes no more than the status.
LEMMA RefuseTyped ==
  ASSUME Typed, NEW t \in Threads, Refuse(t)
  PROVE  Typed'
<1>1. UNCHANGED <<xiH, m_trigger_mode, device>>
  BY DEF Refuse
<1> QED
  BY <1>1, Moves, Statuses DEF Typed

\* The end of an operation keeps the types.
LEMMA EndTyped ==
  ASSUME Typed, NEW t \in Threads, Return(t) \/ Throw(t)
  PROVE  Typed'
<1>1. /\ op' = [op EXCEPT ![t] = "none"] /\ todo' = [todo EXCEPT ![t] = <<>>]
      /\ untested' = untested \ {t} /\ outcome' \in {"none", "ok", "error"}
  BY DEF Return, Throw, Ends, Typed
<1>2. /\ UNCHANGED <<xi_status, m_trigger_mode, device, hidden>>
      /\ xiH' \in {xiH, "null"} /\ camera' \in {camera, "made"}
  BY EndsAt
<1>3. <<>> \in Seq(Accesses)
  OBVIOUS
<1> QED
  BY <1>1, <1>2, <1>3 DEF Typed

\* Before the first construction the state has its types.
LEMMA InitTyped ==
  ASSUME Init
  PROVE  Typed
<1>1. device \in Devices
  <2>1. PICK m \in Modes :
          device = [policy |-> "unsafe", cooling |-> "default", target |-> "default",
                    source |-> "Off", user_set |-> m, loaded |-> m, default_set |-> m,
                    sensor |-> DepthOf[m], output |-> DepthOf[m], image |-> DepthOf[m]]
    BY DEF Init, Booted
  <2> QED
    BY <2>1, SessionAssumption DEF Devices
<1>2. <<>> \in Seq(Accesses)
  OBVIOUS
<1>3. todo \in [Threads -> Seq(Accesses)] /\ op \in [Threads -> Operations \cup {"none"}]
  BY <1>2 DEF Init
<1> QED
  BY <1>1, <1>3 DEF Init, Typed, SourceOf

\* Every step keeps the types.
LEMMA StepTyped ==
  ASSUME Typed, [Next]_svars
  PROVE  Typed'
<1>1. CASE GetControl
  BY <1>1, BeginTyped, StartupPlaces DEF GetControl, Threads, Operations
<1>2. CASE Reset
  BY <1>2, BeginTyped, ResetPlaces DEF Reset, Threads, Operations
<1>3. ASSUME NEW mode \in DOMAIN SourceOf, SetTrigMode(mode)
      PROVE  Typed'
  BY <1>3, BeginTyped, TriggerCalls DEF SetTrigMode, Threads, Operations
<1>4. ASSUME NEW type, SetImageType(type)
      PROVE  Typed'
  BY <1>4, BeginTyped, ImageCalls DEF SetImageType, Threads, Operations
<1>5. ASSUME NEW m \in Modes, SetMode(m)
      PROVE  Typed'
  BY <1>5, BeginTyped, ModeCalls DEF SetMode, Threads, Operations
<1>6. ASSUME NEW access \in Attributes, AccessAttribute(access)
      PROVE  Typed'
  BY <1>6, BeginTyped, AttributeCalls DEF AccessAttribute, Threads, Operations
<1>7. ASSUME NEW t \in Threads, Access(t) \/ Refuse(t) \/ Return(t) \/ Throw(t)
      PROVE  Typed'
  BY <1>7, AccessTyped, RefuseTyped, EndTyped
<1>8. CASE UNCHANGED svars
  BY <1>8 DEF Typed, svars, fields
<1> QED
  BY <1>1, <1>2, <1>3, <1>4, <1>5, <1>6, <1>7, <1>8 DEF Next

\* The state has its types, whatever the device refuses and whoever overlaps.
THEOREM TypeCorrect == Spec => []TypeOK
<1>1. Typed => TypeOK
  BY DEF Typed, TypeOK, Devices, Operations
<1> QED
  BY <1>1, InitTyped, StepTyped, PTL DEF Spec

-----------------------------------------------------------------------------
\* Where the operations are, and what they have done by then.

\* The next access of a reset at place k, and where it goes on.
LEMMA ResetFrom ==
  /\ From(ResetCalls, 1) = ResetCalls /\ From(ResetCalls, 18) = <<>>
  /\ \A k \in 1 .. 17 :
       /\ From(ResetCalls, k) # <<>>
       /\ Head(From(ResetCalls, k)) = ResetCalls[k]
       /\ Tail(From(ResetCalls, k)) = From(ResetCalls, k + 1)
<1>1. ResetCalls \in Seq(Accesses) /\ Len(ResetCalls) = 17 /\ 17 \in Nat
  BY ResetPlaces
<1>2. Places(ResetCalls, 17)
  BY <1>1, ListFrom, Zenon
<1>3. 17 + 1 = 18
  OBVIOUS
<1>4. From(ResetCalls, 18) = <<>>
  BY <1>2, <1>3 DEF Places
<1> QED
  BY <1>2, <1>4 DEF Places

\* Nothing is left to do behind the last access only.
LEMMA ResetEnd ==
  ASSUME NEW k \in 1 .. 18, From(ResetCalls, k) = <<>>
  PROVE  k = 18
<1>1. k \in 1 .. 17 \/ k = 18
  OBVIOUS
<1> QED
  BY <1>1, ResetFrom

\* What a reset does at each place, in the order of the list.
LEMMA ResetOrder ==
  /\ ResetCalls[1] = Reboot /\ ResetCalls[2] = Close /\ ResetCalls[3] = Forget
  /\ ResetCalls[4] = Open
  /\ \A k \in {5, 6, 11, 16, 17} : ResetCalls[k] = Other
  /\ ResetCalls[7] = Set("policy", "safe") /\ ResetCalls[8] = Set("cooling", "startup")
  /\ ResetCalls[9] = Set("target", "startup") /\ ResetCalls[10] = Set("source", "Off")
  /\ ResetCalls[12] = Record("IntTrig")
  /\ ResetCalls[13] = Set("user_set", StartupMode) /\ ResetCalls[14] = Load
  /\ ResetCalls[15] = Set("default_set", StartupMode)
<1>1. \A k \in 1 .. 14 : ResetCalls[3 + k] = StartupCalls[k]
  BY ResetPlaces
<1>2. /\ ResetCalls[4] = StartupCalls[1] /\ ResetCalls[5] = StartupCalls[2]
      /\ ResetCalls[6] = StartupCalls[3] /\ ResetCalls[7] = StartupCalls[4]
      /\ ResetCalls[8] = StartupCalls[5] /\ ResetCalls[9] = StartupCalls[6]
      /\ ResetCalls[10] = StartupCalls[7] /\ ResetCalls[11] = StartupCalls[8]
  BY <1>1
<1>3. /\ ResetCalls[12] = StartupCalls[9] /\ ResetCalls[13] = StartupCalls[10]
      /\ ResetCalls[14] = StartupCalls[11] /\ ResetCalls[15] = StartupCalls[12]
      /\ ResetCalls[16] = StartupCalls[13] /\ ResetCalls[17] = StartupCalls[14]
  BY <1>1
<1>4. \A k \in {5, 6, 11, 16, 17} : k = 5 \/ k = 6 \/ k = 11 \/ k = 16 \/ k = 17
  OBVIOUS
<1> QED
  BY <1>2, <1>3, <1>4, ResetPlaces, StartupPlaces, Zenon

\* Each access of a reset does its part, and none undoes what is done.
LEMMA StartupStep ==
  ASSUME Typed, Access("ctl"), NEW k \in 1 .. 17,
         todo["ctl"] = From(ResetCalls, k), Started(k)
  PROVE  Started(k + 1)'
<1> DEFINE a == Head(todo["ctl"])
<1>1. a = ResetCalls[k] /\ "ctl" \in Threads
  BY ResetFrom DEF Threads
<1>2. device \in Devices
  BY DEF Typed
<1> HIDE DEF a
<1>3. CASE k = 1
  <2>1. a = Reboot
    BY <1>1, <1>3, ResetOrder
  <2>2. xiH' = "open"
    BY <1>1, <2>1, DeviceEffect DEF a
  <2> QED
    BY <1>3, <2>2 DEF Started
<1>4. CASE k = 2
  BY <1>4 DEF Started
<1>5. CASE k \in {3, 4}
  <2>1. a = IF k = 3 THEN Forget ELSE Open
    BY <1>1, <1>5, ResetOrder
  <2>2. xiH' = IF k = 3 THEN "null" ELSE "open"
    BY <1>1, <2>1, HandleEffect, Kinds DEF a
  <2> QED
    BY <1>5, <2>2 DEF Started
<1>6. CASE k \in {5, 6, 11, 16, 17}
  <2>1. a = Other
    BY <1>1, <1>6, ResetOrder
  <2>2. xiH' = "open" /\ m_trigger_mode' = m_trigger_mode /\ device' = device
    BY <1>1, <2>1, DeviceEffect DEF a
  <2> QED
    BY <1>6, <2>2 DEF Started
<1>7. CASE k \in {7, 8, 9, 10, 13, 15}
  <2> DEFINE p == CASE k = 7 -> "policy" [] k = 8 -> "cooling" [] k = 9 -> "target"
                    [] k = 10 -> "source" [] k = 13 -> "user_set"
                    [] OTHER -> "default_set"
             v == CASE k = 7 -> "safe" [] k \in {8, 9} -> "startup"
                    [] k = 10 -> "Off" [] OTHER -> StartupMode
  <2>1. a = Set(p, v)
    BY <1>1, <1>7, ResetOrder
  <2>2. /\ xiH' = "open" /\ m_trigger_mode' = m_trigger_mode
        /\ device' = [device EXCEPT ![p] = v]
    <3> HIDE DEF p, v
    <3> QED
      BY <1>1, <2>1, SetEffect DEF a
  <2> QED
    BY <1>2, <1>7, <2>2 DEF Started, Devices
<1>8. CASE k = 12
  <2>1. a = Record("IntTrig")
    BY <1>1, <1>8, ResetOrder
  <2>2. xiH' = xiH /\ m_trigger_mode' = "IntTrig" /\ device' = device
    BY <1>1, <2>1, RecordEffect DEF a
  <2> QED
    BY <1>8, <2>2 DEF Started
<1>9. CASE k = 14
  <2>1. a = Load
    BY <1>1, <1>9, ResetOrder
  <2>2. xiH' = "open" /\ m_trigger_mode' = m_trigger_mode /\ device' = Loaded
    BY <1>1, <2>1, DeviceEffect DEF a
  <2> QED
    BY <1>2, <1>9, <2>2 DEF Started, Devices, Loaded
<1>10. k \in {1, 2} \cup {3, 4} \cup {5, 6, 11, 16, 17} \cup {7, 8, 9, 10, 13, 15}
             \cup {12, 14}
  OBVIOUS
<1> QED
  BY <1>3, <1>4, <1>5, <1>6, <1>7, <1>8, <1>9, <1>10

\* A quiet access leaves the depths, and the handle, as they are.
LEMMA QuietEffect ==
  ASSUME Typed, NEW t \in Threads, Access(t), Head(todo[t]) \in Quiet
  PROVE  /\ xiH' = xiH /\ device'.sensor = device.sensor
         /\ device'.output = device.output /\ device'.image = device.image
<1> DEFINE a == Head(todo[t])
<1>1. device \in Devices
  BY DEF Typed
<1>2. CASE a = Other
  BY <1>2, DeviceEffect
<1>3. CASE \E mode \in DOMAIN SourceOf : a = Record(mode)
  BY <1>3, RecordEffect
<1>4. CASE \E p \in {"cooling", "target", "source"} : \E v : a = Set(p, v)
  <2>1. PICK p \in {"cooling", "target", "source"} : \E v : a = Set(p, v)
    BY <1>4
  <2>2. PICK v : a = Set(p, v)
    BY <2>1
  <2>3. xiH = "open" /\ xiH' = "open" /\ device' = [device EXCEPT ![p] = v]
    BY <2>2, SetEffect, Zenon
  <2> QED
    BY <1>1, <2>3 DEF Devices
<1> QED
  BY <1>2, <1>3, <1>4, Zenon DEF Quiet, Attributes

\* The lists of the operations, at their places.
LEMMA QuietCalls ==
  /\ \A mode \in DOMAIN SourceOf : SetTrigModeCalls(mode) \in Seq(Quiet)
  /\ \A access \in Attributes : <<access>> \in Seq(Quiet)
<1>1. ASSUME NEW mode \in DOMAIN SourceOf
      PROVE  SetTrigModeCalls(mode) \in Seq(Quiet)
  <2>1. SourceOf[mode] \in {"Off", "Software", "Edge"}
    BY DEF SourceOf
  <2>2. /\ Set("source", SourceOf[mode]) \in Quiet
        /\ Other \in Quiet /\ Record(mode) \in Quiet
    BY <2>1 DEF Quiet, Attributes
  <2> QED
    BY <2>2 DEF SetTrigModeCalls
<1>2. ASSUME NEW access \in Attributes
      PROVE  <<access>> \in Seq(Quiet)
  <2>1. access \in Quiet
    BY DEF Quiet
  <2> QED
    BY <2>1
<1> QED
  BY <1>1, <1>2

\* The lists of the other operations leave the handle alone.
LEMMA PlainCalls ==
  /\ Quiet \subseteq Plain
  /\ \A m \in Modes : SetModeCalls(m) \in Seq(Plain)
  /\ \A type \in Depths : SetImageTypeCalls(type) \in Seq(Plain)
<1>1. ASSUME NEW p, NEW v, Set(p, v) \in Accesses PROVE Set(p, v) \in Plain
  BY <1>1, Kinds DEF Plain
<1>2. Other \in Plain /\ Load \in Plain
  BY Kinds DEF Plain, Accesses
<1>3. ASSUME NEW mode \in DOMAIN SourceOf PROVE Record(mode) \in Plain
  BY Kinds DEF Plain, Accesses
<1>4. Quiet \subseteq Plain
  <2>1. /\ Set("cooling", "client") \in Accesses /\ Set("target", "client") \in Accesses
        /\ \A s \in {"Off", "Software", "Edge"} : Set("source", s) \in Accesses
    BY DEF Accesses, Settings
  <2> QED
    BY <1>1, <1>2, <1>3, <2>1 DEF Quiet, Attributes
<1>5. ASSUME NEW m \in Modes PROVE SetModeCalls(m) \in Seq(Plain)
  <2>1. Set("user_set", m) \in Plain
    BY <1>1 DEF Accesses, Settings
  <2> QED
    BY <1>2, <2>1 DEF SetModeCalls
<1>6. ASSUME NEW type \in Depths PROVE SetImageTypeCalls(type) \in Seq(Plain)
  <2>1. /\ Set("sensor", type) \in Plain /\ Set("output", type) \in Plain
        /\ Set("image", type) \in Plain
    BY <1>1 DEF Accesses, Settings
  <2> QED
    BY <2>1 DEF SetImageTypeCalls
<1> QED
  BY <1>4, <1>5, <1>6

\* A plain access leaves the handle as it is.
LEMMA PlainEffect ==
  ASSUME NEW t \in Threads, Access(t), Head(todo[t]) \in Plain
  PROVE  xiH' = xiH
BY DEF Access, Plain

-----------------------------------------------------------------------------
\* The handle, whoever overlaps.

\* It is null before the first construction.
LEMMA InitHandle ==
  ASSUME Init
  PROVE  HandleInv
<1>1. Typed
  BY InitTyped
<1>2. <<>> \in Seq(Plain)
  OBVIOUS
<1> QED
  BY <1>1, <1>2 DEF Init, HandleInv, Users, PlainOnes, AtReset, Threads

\* A thread begins.
LEMMA BeginHandle ==
  ASSUME HandleInv, Typed', NEW t \in Threads, NEW name, NEW calls,
         Begin(t, name, calls),
         \/ t = "ctl" /\ name = "construct" /\ calls = From(ResetCalls, 4)
         \/ t = "ctl" /\ name = "reset" /\ calls = From(ResetCalls, 1)
         \/ /\ t = "ctl" /\ name \in {"setTrigMode", "setImageType"}
            /\ calls \in Seq(Plain)
         \/ t = "usr" /\ name \in {"setMode", "attribute"} /\ calls \in Seq(Plain)
  PROVE  HandleInv'
<1>1. /\ UNCHANGED <<camera, xiH, m_trigger_mode, device, outcome, xi_status, untested>>
      /\ op[t] = "none" /\ op'[t] = name /\ todo'[t] = calls
      /\ \A u \in Threads : u # t => op'[u] = op[u] /\ todo'[u] = todo[u]
  BY DEF Begin, fields, HandleInv, Typed
<1>2. Users' /\ PlainOnes'
  BY <1>1 DEF HandleInv, Users, PlainOnes, Threads
<1>3. AtReset'
  <2>1. CASE t = "usr"
    BY <1>1, <2>1 DEF HandleInv, AtReset, Placed, Threads
  <2>2. CASE t = "ctl"
    <3>1. xiH # "closed"
      BY <1>1, <2>2 DEF HandleInv, AtReset
    <3>2. CASE name \in {"construct", "reset"}
      <4>1. PICK k \in {1, 4} : calls = From(ResetCalls, k) /\ (name = "construct" => k > 3)
        BY <2>2, <3>2
      <4>2. Placed(k)' /\ k \in 1 .. 18
        BY <1>1, <2>2, <3>1, <4>1 DEF Placed
      <4> QED
        BY <1>1, <2>2, <3>2, <4>2 DEF AtReset
    <3>3. CASE name \notin {"construct", "reset"}
      BY <1>1, <2>2, <3>1, <3>3 DEF AtReset
    <3> QED
      BY <3>2, <3>3
  <2> QED
    BY <2>1, <2>2 DEF Threads
<1> QED
  BY <1>2, <1>3 DEF HandleInv

\* An access of a reset at its place: only the close leaves a closed handle.
LEMMA ResetHandle ==
  ASSUME Typed, Access("ctl") \/ Refuse("ctl"), NEW k \in 1 .. 17, Placed(k)
  PROVE  xiH' = "closed" => k + 1 = 3 /\ "ctl" \notin untested'
<1> DEFINE a == Head(todo["ctl"])
<1>0. "ctl" \in Threads /\ a = ResetCalls[k]
  BY ResetFrom DEF Threads, Placed
<1>1. CASE k = 2
  <2>1. a = Close
    BY <1>0, <1>1, ResetOrder
  <2>2. ~Tested(a)
    BY <2>1, Kinds DEF Tested
  <2> HIDE DEF a
  <2> QED
    BY <1>0, <1>1, <2>2, Statuses DEF a
<1>2. CASE k = 3
  <2>1. a = Forget
    BY <1>0, <1>2, ResetOrder
  <2>2. ~Tested(a) /\ ~UsesHandle(a)
    BY <2>1, Kinds DEF Tested, UsesHandle
  <2>3. Access("ctl")
    BY <2>2 DEF Refuse
  <2> QED
    BY <1>0, <2>1, <2>3, HandleEffect
<1>3. CASE k \notin {2, 3}
  <2>1. xiH # "closed"
    BY <1>3 DEF Placed
  <2>2. a # Close
    <3>1. CASE k \in {1, 4, 5, 6, 11, 16, 17, 14}
      BY <1>0, <3>1, ResetOrder, Kinds
    <3>2. CASE k \in {7, 8, 9, 10, 12, 13, 15}
      BY <1>0, <3>2, ResetOrder, Kinds
    <3> QED
      BY <1>3, <3>1, <3>2
  <2>3. CASE Access("ctl")
    <3> HIDE DEF a
    <3> QED
      BY <2>1, <2>2, <2>3 DEF Access, a
  <2>4. CASE Refuse("ctl")
    BY <2>1, <2>4 DEF Refuse
  <2> QED
    BY <2>3, <2>4
<1> QED
  BY <1>1, <1>2, <1>3

\* An access is made or refused.
LEMMA AccessHandle ==
  ASSUME HandleInv, Typed', NEW t \in Threads, Access(t) \/ Refuse(t)
  PROVE  HandleInv'
<1>1. /\ todo[t] # <<>> /\ op[t] # "none" /\ todo[t] \in Seq(Accesses)
      /\ todo'[t] = Tail(todo[t])
      /\ \A u \in Threads : u # t => todo'[u] = todo[u]
      /\ UNCHANGED <<op, outcome, camera>>
  BY Moves DEF HandleInv
<1>2. Users'
  BY <1>1 DEF HandleInv, Users
<1>3. PlainOnes'
  <2>1. op[t] \notin {"construct", "reset"} => todo'[t] \in Seq(Plain)
    <3>1. op[t] \notin {"construct", "reset"} => todo[t] \in Seq(Plain)
      BY DEF HandleInv, PlainOnes
    <3> QED
      BY <1>1, <3>1, Shorter
  <2> QED
    BY <1>1, <2>1 DEF HandleInv, PlainOnes
<1>4. op[t] \notin {"construct", "reset"} => xiH' = xiH
  <2>1. ASSUME op[t] \notin {"construct", "reset"} PROVE Head(todo[t]) \in Plain
    <3>1. todo[t] \in Seq(Plain)
      BY <2>1 DEF HandleInv, PlainOnes
    <3> QED
      BY <1>1, <3>1, Shorter
  <2> QED
    BY <2>1, PlainEffect DEF Refuse
<1>5. AtReset'
  <2>1. CASE t = "usr"
    <3>1. xiH' = xiH /\ todo'["ctl"] = todo["ctl"]
      BY <1>1, <1>4, <2>1 DEF HandleInv, Users, Threads
    <3>2. "ctl" \in untested' <=> "ctl" \in untested
      BY <2>1, Statuses DEF HandleInv, Threads
    <3> QED
      BY <1>1, <3>1, <3>2 DEF HandleInv, AtReset, Placed
  <2>2. CASE t = "ctl" /\ op["ctl"] \in {"construct", "reset"}
    <3>1. PICK k \in 1 .. 18 : Placed(k)
      BY <2>2 DEF HandleInv, AtReset
    <3>2. k # 18
      BY <1>1, <2>2, <3>1, ResetFrom DEF Placed
    <3>3. k \in 1 .. 17
      BY <3>2
    <3>4. todo'["ctl"] = From(ResetCalls, k + 1)
      BY <1>1, <2>2, <3>1, <3>3, ResetFrom DEF Placed
    <3>5. xiH' = "closed" => k + 1 = 3 /\ "ctl" \notin untested'
      BY <2>2, <3>1, <3>3, ResetHandle DEF HandleInv
    <3>6. Placed(k + 1)' /\ k + 1 \in 1 .. 18
      BY <1>1, <3>1, <3>3, <3>4, <3>5 DEF Placed
    <3> QED
      BY <1>1, <2>2, <3>6 DEF AtReset
  <2>3. CASE t = "ctl" /\ op["ctl"] \notin {"construct", "reset"}
    BY <1>1, <1>4, <2>3 DEF HandleInv, AtReset
  <2> QED
    BY <2>1, <2>2, <2>3 DEF Threads
<1> QED
  BY <1>2, <1>3, <1>5 DEF HandleInv

\* An operation ends: not between the close and what follows it.
LEMMA EndHandle ==
  ASSUME HandleInv, Typed', NEW t \in Threads, Return(t) \/ Throw(t)
  PROVE  HandleInv'
<1>1. /\ op[t] # "none" /\ op'[t] = "none" /\ todo'[t] = <<>>
      /\ \A u \in Threads : u # t => op'[u] = op[u] /\ todo'[u] = todo[u]
      /\ \A u \in Threads : u # t => (u \in untested' <=> u \in untested)
      /\ xiH' = xiH \/ (op[t] = "construct" /\ xiH' = "null")
  BY EndsAt DEF HandleInv
<1>2. Users' /\ PlainOnes'
  <2>1. <<>> \in Seq(Plain)
    OBVIOUS
  <2> QED
    BY <1>1, <2>1 DEF HandleInv, Users, PlainOnes, Threads
<1>3. AtReset'
  <2>1. CASE t = "usr"
    <3>1. xiH' = xiH
      BY <1>1, <2>1 DEF HandleInv, Users
    <3> QED
      BY <1>1, <2>1, <3>1 DEF HandleInv, AtReset, Placed, Threads
  <2>2. CASE t = "ctl"
    <3>1. ASSUME xiH = "closed" PROVE FALSE
      <4>1. PICK k \in 1 .. 18 : Placed(k)
        BY <3>1 DEF HandleInv, AtReset
      <4>2. todo["ctl"] # <<>> /\ "ctl" \notin untested
        BY <3>1, <4>1, ResetFrom DEF Placed
      <4> QED
        BY <2>2, <4>2 DEF Return, Throw, Passed
    <3>2. xiH' # "closed"
      BY <1>1, <3>1
    <3> QED
      BY <1>1, <2>2, <3>2 DEF AtReset
  <2> QED
    BY <2>1, <2>2 DEF Threads
<1> QED
  BY <1>2, <1>3 DEF HandleInv

\* Every step keeps the invariant of the handle.
LEMMA StepHandle ==
  ASSUME HandleInv, [Next]_svars
  PROVE  HandleInv'
<1>0. Typed' /\ "ctl" \in Threads /\ "usr" \in Threads
  BY StepTyped DEF HandleInv, Threads
<1>1. CASE GetControl
  <2>1. Begin("ctl", "construct", From(ResetCalls, 4))
    BY <1>1, ResetPlaces DEF GetControl
  <2> QED
    BY <1>0, <2>1, BeginHandle, Zenon
<1>2. CASE Reset
  <2>1. Begin("ctl", "reset", From(ResetCalls, 1))
    BY <1>2, ResetFrom DEF Reset
  <2> QED
    BY <1>0, <2>1, BeginHandle, Zenon
<1>3. ASSUME NEW mode \in DOMAIN SourceOf, SetTrigMode(mode)
      PROVE  HandleInv'
  <2>1. SetTrigModeCalls(mode) \in Seq(Plain)
    <3>1. SetTrigModeCalls(mode) \in Seq(Quiet)
      BY QuietCalls
    <3> QED
      BY <3>1, PlainCalls
  <2>2. Begin("ctl", "setTrigMode", SetTrigModeCalls(mode))
    BY <1>3 DEF SetTrigMode
  <2> QED
    BY <1>0, <2>1, <2>2, BeginHandle
<1>4. ASSUME NEW type, SetImageType(type)
      PROVE  HandleInv'
  <2>1. Begin("ctl", "setImageType", SetImageTypeCalls(type)) /\ type \in Depths
    BY <1>4 DEF SetImageType
  <2> QED
    BY <1>0, <2>1, PlainCalls, BeginHandle
<1>5. ASSUME NEW m \in Modes, SetMode(m)
      PROVE  HandleInv'
  <2>1. Begin("usr", "setMode", SetModeCalls(m))
    BY <1>5 DEF SetMode
  <2> QED
    BY <1>0, <2>1, PlainCalls, BeginHandle
<1>6. ASSUME NEW access \in Attributes, AccessAttribute(access)
      PROVE  HandleInv'
  <2>1. <<access>> \in Seq(Plain)
    <3>1. <<access>> \in Seq(Quiet)
      BY QuietCalls
    <3> QED
      BY <3>1, PlainCalls
  <2>2. Begin("usr", "attribute", <<access>>)
    BY <1>6 DEF AccessAttribute
  <2> QED
    BY <1>0, <2>1, <2>2, BeginHandle
<1>7. ASSUME NEW t \in Threads, Access(t) \/ Refuse(t) \/ Return(t) \/ Throw(t)
      PROVE  HandleInv'
  BY <1>0, <1>7, AccessHandle, EndHandle
<1>8. CASE UNCHANGED svars
  BY <1>0, <1>8 DEF svars, fields, HandleInv, Users, PlainOnes, AtReset, Placed
<1> QED
  BY <1>1, <1>2, <1>3, <1>4, <1>5, <1>6, <1>7, <1>8 DEF Next

\* A closed handle does not outlive the reset, whichever access is refused and
\* whoever acts beside it.
THEOREM HandleIsForgotten == Spec => []ClosedOnlyInReset
<1>1. HandleInv => ClosedOnlyInReset
  <2> SUFFICES ASSUME HandleInv, xiH = "closed" PROVE op["ctl"] = "reset"
      BY DEF ClosedOnlyInReset
  <2>1. op["ctl"] \in {"construct", "reset"} /\ \E k \in 1 .. 18 : Placed(k)
    BY DEF HandleInv, AtReset
  <2> QED
    BY <2>1 DEF Placed
<1> QED
  BY <1>1, InitHandle, StepHandle, PTL DEF Spec

-----------------------------------------------------------------------------
\* The places of the other operations.

\* The two places of a change of the user set, and its end.
LEMMA ModeFrom ==
  ASSUME NEW m \in Modes
  PROVE  /\ From(SetModeCalls(m), 1) = SetModeCalls(m)
         /\ From(SetModeCalls(m), 3) = <<>>
         /\ \A k \in 1 .. 2 :
              /\ Head(From(SetModeCalls(m), k)) = IF k = 1 THEN Set("user_set", m) ELSE Load
              /\ Tail(From(SetModeCalls(m), k)) = From(SetModeCalls(m), k + 1)
<1>1. SetModeCalls(m) \in Seq(Accesses) /\ Len(SetModeCalls(m)) = 2 /\ 2 \in Nat
  BY ModeCalls
<1>2. Places(SetModeCalls(m), 2)
  BY <1>1, ListFrom, Zenon
<1>3. SetModeCalls(m)[1] = Set("user_set", m) /\ SetModeCalls(m)[2] = Load
  BY DEF SetModeCalls
<1>4. 2 + 1 = 3
  OBVIOUS
<1>5. From(SetModeCalls(m), 3) = <<>>
  BY <1>2, <1>4 DEF Places
<1> QED
  BY <1>2, <1>3, <1>5 DEF Places

\* The three places of a change of the image type, and its end.
LEMMA ImageFrom ==
  ASSUME NEW type \in Depths
  PROVE  /\ From(SetImageTypeCalls(type), 1) = SetImageTypeCalls(type)
         /\ From(SetImageTypeCalls(type), 4) = <<>>
         /\ \A k \in 1 .. 3 :
              /\ Head(From(SetImageTypeCalls(type), k)) =
                   Set(CASE k = 1 -> "sensor" [] k = 2 -> "output" [] OTHER -> "image", type)
              /\ Tail(From(SetImageTypeCalls(type), k)) = From(SetImageTypeCalls(type), k + 1)
<1>1. /\ SetImageTypeCalls(type) \in Seq(Accesses)
      /\ Len(SetImageTypeCalls(type)) = 3 /\ 3 \in Nat
  BY ImageCalls
<1>2. Places(SetImageTypeCalls(type), 3)
  BY <1>1, ListFrom, Zenon
<1>3. /\ SetImageTypeCalls(type)[1] = Set("sensor", type)
      /\ SetImageTypeCalls(type)[2] = Set("output", type)
      /\ SetImageTypeCalls(type)[3] = Set("image", type)
  BY DEF SetImageTypeCalls
<1>4. 3 + 1 = 4
  OBVIOUS
<1>5. From(SetImageTypeCalls(type), 4) = <<>>
  BY <1>2, <1>4 DEF Places
<1> QED
  BY <1>2, <1>3, <1>5 DEF Places

-----------------------------------------------------------------------------
\* The settings, while the Tango device keeps out of resets.

\* The invariant holds before the first construction.
LEMMA InitSession ==
  ASSUME Init
  PROVE  SessionInv
<1>1. HandleInv
  BY InitHandle
<1>2. /\ camera = "none" /\ outcome = "none"
      /\ op["ctl"] = "none" /\ op["usr"] = "none" /\ \A t \in Threads : op[t] = "none"
  BY DEF Init, Threads
<1> QED
  BY <1>1, <1>2 DEF SessionInv, Together, QuietOnes, AtSetMode, AtSetImageType,
                    AtStartup, DepthsAgree

\* The Tango device begins.
LEMMA UsrBegins ==
  ASSUME SessionInv, HandleInv', camera = "made", NEW name, NEW calls,
         Begin("usr", name, calls),
         \/ name = "attribute" /\ calls \in Seq(Quiet)
         \/ name = "setMode" /\ \E m \in Modes : calls = From(SetModeCalls(m), 1)
  PROVE  SessionInv'
<1>1. /\ UNCHANGED <<camera, xiH, m_trigger_mode, device, outcome, xi_status, untested>>
      /\ op["usr"] = "none" /\ op'["usr"] = name /\ todo'["usr"] = calls
      /\ op'["ctl"] = op["ctl"] /\ todo'["ctl"] = todo["ctl"]
      /\ op["ctl"] = "none" \/ op["ctl"] \in Overlapping
      /\ hidden' = (hidden /\ ~SetsDepths(name))
  BY DEF Begin, fields, SessionInv, HandleInv, Typed, Threads
<1>2. Together'
  BY <1>1 DEF SessionInv, Together
<1>3. QuietOnes'
  BY <1>1 DEF SessionInv, QuietOnes, Threads
<1>4. AtSetMode'
  <2>1. 1 \in 1 .. 3 /\ ~ (1 = 3)
    OBVIOUS
  <2> QED
    BY <1>1, <2>1, Zenon DEF AtSetMode
<1>5. AtSetImageType' /\ AtStartup'
  BY <1>1 DEF SessionInv, AtSetImageType, AtStartup, Started, Passed
<1>6. ("setImageType" \notin Overlapping => DepthsAgree)'
  BY <1>1 DEF SessionInv, DepthsAgree, SetsDepths, Threads
<1> QED
  BY <1>2, <1>3, <1>4, <1>5, <1>6 DEF SessionInv

\* Lima begins.
LEMMA CtlBegins ==
  ASSUME "reset" \notin Overlapping, SessionInv, HandleInv', NEW name, NEW calls,
         Begin("ctl", name, calls),
         \/ name = "construct" /\ camera = "none" /\ calls = From(ResetCalls, 4)
         \/ /\ camera = "made"
            /\ \/ name = "reset" /\ calls = From(ResetCalls, 1)
               \/ name = "setTrigMode" /\ calls \in Seq(Quiet)
               \/ /\ name = "setImageType"
                  /\ \E type \in Depths : calls = From(SetImageTypeCalls(type), 1)
  PROVE  SessionInv'
<1>1. /\ UNCHANGED <<camera, xiH, m_trigger_mode, device, outcome, xi_status, untested>>
      /\ op["ctl"] = "none" /\ op'["ctl"] = name /\ todo'["ctl"] = calls
      /\ op'["usr"] = op["usr"] /\ todo'["usr"] = todo["usr"]
      /\ op["usr"] = "none" \/ name \in Overlapping
      /\ hidden' = (hidden /\ ~SetsDepths(name))
  BY DEF Begin, fields, SessionInv, HandleInv, Typed, Threads
<1>2. Together'
  BY <1>1 DEF SessionInv, Together
<1>3. QuietOnes'
  BY <1>1 DEF SessionInv, QuietOnes, Threads
<1>4. AtSetMode'
  <2>1. CASE op["usr"] = "none"
    BY <1>1, <2>1 DEF AtSetMode
  <2>2. CASE op["usr"] # "none" /\ "setImageType" \in Overlapping
    BY <1>1, <2>2 DEF SessionInv, AtSetMode
  <2>3. CASE op["usr"] # "none" /\ "setImageType" \notin Overlapping
    <3>1. name = "setTrigMode" /\ (hidden => hidden')
      BY <1>1, <2>3 DEF SessionInv, Together, SetsDepths
    <3> QED
      BY <1>1, <3>1 DEF SessionInv, AtSetMode, OneDepth
  <2> QED
    BY <2>1, <2>2, <2>3
<1>5. AtSetImageType'
  <2>1. 1 \in 1 .. 4 /\ ~ (1 > 1) /\ ~ (1 > 2) /\ ~ (1 > 3)
    OBVIOUS
  <2> QED
    BY <1>1, <2>1, Zenon DEF AtSetImageType
<1>6. AtStartup'
  <2>1. \A k \in {1, 4} : Started(k)' /\ k \in 1 .. 18
    BY DEF Started
  <2> QED
    BY <1>1, <2>1 DEF AtStartup
<1>7. ("setImageType" \notin Overlapping => DepthsAgree)'
  BY <1>1 DEF SessionInv, DepthsAgree, SetsDepths, Threads
<1> QED
  BY <1>2, <1>3, <1>4, <1>5, <1>6, <1>7 DEF SessionInv

\* What the parts about the threads need of an access: a quiet operation stays
\* one, and leaves the depths as they are.
LEMMA AccessTogether ==
  ASSUME SessionInv, HandleInv', NEW t \in Threads, Access(t) \/ Refuse(t)
  PROVE  /\ Together' /\ QuietOnes'
         /\ op[t] \in {"setTrigMode", "attribute"} =>
              /\ device'.sensor = device.sensor
              /\ device'.output = device.output /\ device'.image = device.image
<1>1. /\ todo[t] # <<>> /\ op[t] # "none" /\ todo[t] \in Seq(Accesses)
      /\ todo'[t] = Tail(todo[t])
      /\ \A u \in Threads : u # t => todo'[u] = todo[u]
      /\ UNCHANGED <<op, outcome, camera>>
  BY Moves DEF SessionInv, HandleInv
<1>2. Together'
  BY <1>1 DEF SessionInv, Together
<1>3. op[t] \in {"setTrigMode", "attribute"} =>
        Head(todo[t]) \in Quiet /\ Tail(todo[t]) \in Seq(Quiet)
  <2>1. op[t] \in {"setTrigMode", "attribute"} => todo[t] \in Seq(Quiet)
    BY DEF SessionInv, QuietOnes
  <2> QED
    BY <1>1, <2>1, Shorter
<1>4. QuietOnes'
  BY <1>1, <1>3 DEF SessionInv, QuietOnes
<1>5. Refuse(t) => device' = device
  BY DEF Refuse
<1> QED
  BY <1>2, <1>3, <1>4, <1>5, QuietEffect DEF SessionInv, HandleInv

\* While one thread makes accesses the other is where it was.  If it is setting
\* the user set, a status that turns good on it is a hidden one.
LEMMA OtherKept ==
  ASSUME "reset" \notin Overlapping, SessionInv, HandleInv', Access("ctl") \/ Refuse("ctl"),
         op["usr"] = "setMode"
  PROVE  AtSetMode'
<1>1. /\ "ctl" \in Threads /\ "usr" \in Threads /\ "usr" # "ctl"
  BY DEF Threads
<1>2. op["ctl"] \in {"setTrigMode", "setImageType"} /\ op["ctl"] \in Overlapping
  <2>1. op["ctl"] # "none"
    BY <1>1, Moves DEF SessionInv, HandleInv
  <2> QED
    BY <2>1 DEF SessionInv, HandleInv, Users, Together
<1>3. /\ op' = op /\ todo'["usr"] = todo["usr"]
      /\ "usr" \in untested' <=> "usr" \in untested
      /\ hidden => hidden'
      /\ ~hidden' /\ xi_status' = "OK" /\ "usr" \in untested => xi_status = "OK"
  <2>1. SetsDepths(op["usr"])
    BY DEF SetsDepths
  <2>2. op' = op /\ todo'["usr"] = todo["usr"]
    BY <1>1, Moves DEF SessionInv, HandleInv
  <2> QED
    BY <1>1, <2>1, <2>2, Statuses DEF SessionInv, HandleInv
<1>4. "setImageType" \notin Overlapping => (OneDepth => OneDepth')
  <2>1. "setImageType" \notin Overlapping => op["ctl"] = "setTrigMode"
    BY <1>2
  <2> QED
    BY <1>1, <2>1, AccessTogether DEF OneDepth
<1> QED
  <2>1. PICK m \in Modes, k \in 1 .. 3 :
          /\ todo["usr"] = From(SetModeCalls(m), k)
          /\ k = 3 => /\ "usr" \in untested
                      /\ "setImageType" \notin Overlapping =>
                           (xi_status = "OK" /\ ~hidden => OneDepth)
    BY DEF SessionInv, AtSetMode
  <2>2. k = 3 => /\ "usr" \in untested'
                 /\ "setImageType" \notin Overlapping =>
                      (xi_status' = "OK" /\ ~hidden' => OneDepth')
    BY <1>3, <1>4, <2>1
  <2>3. hidden \in BOOLEAN /\ hidden' \in BOOLEAN
    BY DEF SessionInv, HandleInv, Typed
  <2> QED
    BY <1>3, <2>1, <2>2 DEF AtSetMode

\* The Tango device makes an access, or has it refused.
LEMMA UsrAccess ==
  ASSUME "reset" \notin Overlapping, SessionInv, HandleInv', Access("usr") \/ Refuse("usr")
  PROVE  SessionInv'
<1> DEFINE a == Head(todo["usr"])
<1>1. /\ todo["usr"] # <<>> /\ todo["usr"] \in Seq(Accesses)
      /\ todo'["usr"] = Tail(todo["usr"]) /\ todo'["ctl"] = todo["ctl"]
      /\ UNCHANGED <<op, outcome, camera>>
      /\ op["usr"] \in {"setMode", "attribute"}
      /\ "usr" \in Threads /\ "ctl" \in Threads /\ "ctl" # "usr"
  <2>1. "usr" \in Threads /\ "ctl" \in Threads /\ "ctl" # "usr"
    BY DEF Threads
  <2> QED
    BY <2>1, Moves DEF SessionInv, HandleInv, Users
<1>2. op["ctl"] \notin {"construct", "reset"} /\ op["ctl"] \in Overlapping \cup {"none"}
  BY <1>1 DEF SessionInv, Together
<1>3. Together' /\ QuietOnes' /\ AtStartup'
  BY <1>1, <1>2, AccessTogether DEF AtStartup
<1>4. AtSetImageType'
  BY <1>1, <1>2 DEF SessionInv, AtSetImageType
<1>5. AtSetMode'
  <2>1. CASE op["usr"] = "attribute"
    BY <1>1, <2>1 DEF AtSetMode
  <2>2. CASE op["usr"] = "setMode"
    <3>1. PICK m \in Modes, k \in 1 .. 3 : todo["usr"] = From(SetModeCalls(m), k)
      BY <2>2 DEF SessionInv, AtSetMode
    <3>2. k \in 1 .. 2
      BY <1>1, <3>1, ModeFrom
    <3>3. /\ a = IF k = 1 THEN Set("user_set", m) ELSE Load
          /\ todo'["usr"] = From(SetModeCalls(m), k + 1)
      BY <1>1, <3>1, <3>2, ModeFrom
    <3>4. CASE k = 1
      BY <3>3, <3>4 DEF AtSetMode
    <3>5. CASE k = 2
      <4>1. a = Load /\ Tested(a)
        BY <3>3, <3>5, Kinds DEF Tested
      <4>2. "usr" \in untested' /\ (Refuse("usr") => xi_status' # "OK")
        BY <1>1, <4>1, Statuses DEF SessionInv, HandleInv
      <4>3. Access("usr") => OneDepth'
        <5> SUFFICES ASSUME Access("usr") PROVE OneDepth'
            OBVIOUS
        <5>1. device' = Loaded
          BY <1>1, <4>1, DeviceEffect
        <5>2. device \in Devices
          BY DEF SessionInv, HandleInv, Typed
        <5> QED
          BY <5>1, <5>2 DEF OneDepth, Loaded, Devices
      <4>4. xi_status' = "OK" => OneDepth'
        BY <4>2, <4>3
      <4>5. todo'["usr"] = From(SetModeCalls(m), 3) /\ 3 \in 1 .. 3
        BY <3>3, <3>5
      <4> QED
        BY <4>2, <4>4, <4>5 DEF AtSetMode
    <3> QED
      BY <3>2, <3>4, <3>5
  <2> QED
    BY <1>1, <2>1, <2>2
<1>6. ("setImageType" \notin Overlapping => DepthsAgree)'
  <2>1. CASE op["usr"] = "attribute"
    <3>1. hidden => hidden'
      BY <1>1, Statuses DEF SessionInv, HandleInv
    <3> QED
      BY <1>1, <2>1, <3>1, AccessTogether DEF SessionInv, DepthsAgree
  <2>2. CASE op["usr"] = "setMode"
    BY <1>1, <2>2 DEF DepthsAgree, SetsDepths
  <2> QED
    BY <1>1, <2>1, <2>2
<1> QED
  BY <1>3, <1>4, <1>5, <1>6 DEF SessionInv

\* Lima makes an access, or has it refused.
LEMMA CtlAccess ==
  ASSUME "reset" \notin Overlapping, SessionInv, HandleInv', Access("ctl") \/ Refuse("ctl")
  PROVE  SessionInv'
<1> DEFINE a == Head(todo["ctl"])
<1>1. /\ todo["ctl"] # <<>> /\ todo["ctl"] \in Seq(Accesses)
      /\ todo'["ctl"] = Tail(todo["ctl"]) /\ todo'["usr"] = todo["usr"]
      /\ UNCHANGED <<op, outcome, camera>>
      /\ op["ctl"] \in {"construct", "reset", "setTrigMode", "setImageType"}
      /\ "usr" \in Threads /\ "ctl" \in Threads /\ "ctl" # "usr"
  <2>1. "usr" \in Threads /\ "ctl" \in Threads /\ "ctl" # "usr"
    BY DEF Threads
  <2> QED
    BY <2>1, Moves DEF SessionInv, HandleInv, Users
<1>2. Together' /\ QuietOnes'
  BY <1>1, AccessTogether
<1>3. AtSetMode'
  <2>1. CASE op["usr"] = "setMode"
    BY <2>1, OtherKept
  <2>2. CASE op["usr"] # "setMode"
    BY <1>1, <2>2 DEF AtSetMode
  <2> QED
    BY <2>1, <2>2
<1>4. Refuse("ctl") /\ Tested(a) => ~Passed("ctl")'
  BY <1>1, Statuses DEF SessionInv, HandleInv, Passed
<1>5. Passed("ctl")
  BY DEF Access, Refuse
<1>6. AtStartup'
  <2>1. CASE op["ctl"] \notin {"construct", "reset"}
    BY <1>1, <2>1 DEF AtStartup
  <2>2. CASE op["ctl"] \in {"construct", "reset"}
    <3>1. PICK k \in 1 .. 18 : todo["ctl"] = From(ResetCalls, k) /\ Started(k)
      BY <1>5, <2>2 DEF SessionInv, AtStartup
    <3> HIDE DEF a
    <3>2. k \in 1 .. 17
      <4>1. From(ResetCalls, k) # <<>>
        BY <1>1, <3>1
      <4>2. k # 18
        BY <4>1, ResetFrom
      <4> QED
        BY <4>2
    <3>3. todo'["ctl"] = From(ResetCalls, k + 1) /\ k + 1 \in 1 .. 18
      <4>1. todo["ctl"] = From(ResetCalls, k) /\ todo'["ctl"] = Tail(todo["ctl"])
        BY <1>1, <3>1, Zenon
      <4>2. Tail(From(ResetCalls, k)) = From(ResetCalls, k + 1)
        BY <3>2, ResetFrom, Zenon
      <4>3. k + 1 \in 1 .. 18
        BY <3>2
      <4> QED
        BY <4>1, <4>2, <4>3, Zenon
    <3>4. Passed("ctl")' => Started(k + 1)'
      <4>1. CASE Access("ctl")
        BY <3>1, <3>2, <4>1, StartupStep DEF SessionInv, HandleInv
      <4>2. CASE Refuse("ctl") /\ Tested(a)
        BY <1>4, <4>2
      <4>3. CASE Refuse("ctl") /\ ~Tested(a)
        <5>1. a = ResetCalls[k] /\ UsesHandle(a)
          BY <3>1, <3>2, <4>3, ResetFrom DEF Refuse, a
        <5>2. k = 2
          <6>1. CASE k \in {1, 4, 5, 6, 11, 16, 17, 14, 3}
            BY <4>3, <5>1, <6>1, ResetOrder, Kinds DEF Tested, UsesHandle
          <6>2. CASE k \in {7, 8, 9, 10, 12, 13, 15}
            BY <4>3, <5>1, <6>2, ResetOrder, Kinds DEF Tested, UsesHandle
          <6> QED
            BY <3>2, <6>1, <6>2
        <5> QED
          BY <5>2 DEF Started
      <4> QED
        BY <4>1, <4>2, <4>3
    <3> QED
      BY <3>3, <3>4 DEF AtStartup
  <2> QED
    BY <2>1, <2>2
<1>7. AtSetImageType'
  <2>1. CASE op["ctl"] # "setImageType"
    BY <1>1, <2>1 DEF AtSetImageType
  <2>2. CASE op["ctl"] = "setImageType"
    <3>1. PICK type \in Depths, k \in 1 .. 4 :
            /\ todo["ctl"] = From(SetImageTypeCalls(type), k)
            /\ "setImageType" \notin Overlapping =>
                 /\ k > 1 => device.sensor = type
                 /\ k > 2 => device.output = type
                 /\ k > 3 => device.image = type
      BY <1>5, <2>2 DEF SessionInv, AtSetImageType
    <3>2. k \in 1 .. 3
      BY <1>1, <3>1, ImageFrom
    <3> DEFINE p == CASE k = 1 -> "sensor" [] k = 2 -> "output" [] OTHER -> "image"
    <3>3. /\ a = Set(p, type) /\ k + 1 \in 1 .. 4
          /\ todo'["ctl"] = From(SetImageTypeCalls(type), k + 1)
      BY <1>1, <3>1, <3>2, ImageFrom
    <3>4. Tested(a)
      <4> HIDE DEF p
      <4> QED
        BY <3>3, Kinds DEF Tested
    <3>5. CASE Refuse("ctl")
      BY <1>4, <3>3, <3>4, <3>5 DEF AtSetImageType
    <3>6. CASE Access("ctl")
      <4>1. device' = [device EXCEPT ![p] = type]
        <5> HIDE DEF p
        <5> QED
          BY <1>1, <3>3, <3>6, SetEffect
      <4>2. device \in Devices
        BY DEF SessionInv, HandleInv, Typed
      <4>3. "setImageType" \notin Overlapping =>
              /\ k + 1 > 1 => device'.sensor = type
              /\ k + 1 > 2 => device'.output = type
              /\ k + 1 > 3 => device'.image = type
        <5>1. CASE k = 1
          BY <4>1, <4>2, <5>1 DEF Devices
        <5>2. CASE k = 2
          BY <3>1, <4>1, <4>2, <5>2 DEF Devices
        <5>3. CASE k = 3
          BY <3>1, <4>1, <4>2, <5>3 DEF Devices
        <5> QED
          BY <3>2, <5>1, <5>2, <5>3
      <4> QED
        BY <3>3, <4>3 DEF AtSetImageType
    <3> QED
      BY <3>5, <3>6
  <2> QED
    BY <2>1, <2>2
<1>8. ("setImageType" \notin Overlapping => DepthsAgree)'
  <2>1. CASE op["ctl"] = "setTrigMode"
    <3>1. hidden => hidden'
      BY <1>1, Statuses DEF SessionInv, HandleInv
    <3> QED
      BY <1>1, <2>1, <3>1, AccessTogether DEF SessionInv, DepthsAgree
  <2>2. CASE op["ctl"] # "setTrigMode"
    BY <1>1, <2>2 DEF DepthsAgree, SetsDepths
  <2> QED
    BY <2>1, <2>2
<1> QED
  BY <1>2, <1>3, <1>6, <1>7, <1>8 DEF SessionInv

\* An operation on the depths that returns has made them one.
LEMMA ReturnsOne ==
  ASSUME SessionInv, NEW t \in Threads, Return(t), "setImageType" \notin Overlapping,
         SetsDepths(op[t]), ~hidden
  PROVE  OneDepth
<1>1. todo[t] = <<>> /\ Passed(t)
  BY DEF Return
<1>2. CASE t = "ctl" /\ op["ctl"] \in {"construct", "reset"}
  <2>1. PICK k \in 1 .. 18 : todo["ctl"] = From(ResetCalls, k) /\ Started(k)
    BY <1>1, <1>2 DEF SessionInv, AtStartup
  <2>2. k > 14
    BY <1>1, <1>2, <2>1, ResetEnd
  <2> QED
    BY <2>1, <2>2 DEF Started, OneDepth
<1>3. CASE t = "ctl" /\ op["ctl"] = "setImageType"
  <2>1. PICK type \in Depths, k \in 1 .. 4 :
          /\ todo["ctl"] = From(SetImageTypeCalls(type), k)
          /\ k > 1 => device.sensor = type
          /\ k > 2 => device.output = type
          /\ k > 3 => device.image = type
    BY <1>1, <1>3 DEF SessionInv, AtSetImageType
  <2>2. SetImageTypeCalls(type) \in Seq(Accesses) /\ Len(SetImageTypeCalls(type)) = 3
    BY ImageCalls
  <2>3. Places(SetImageTypeCalls(type), 3)
    BY <2>2, ListFrom
  <2>4. k = 4
    BY <1>1, <1>3, <2>1, <2>3 DEF Places
  <2> QED
    BY <2>1, <2>4 DEF OneDepth
<1>4. CASE t = "usr" /\ op["usr"] = "setMode"
  <2>1. PICK m \in Modes, k \in 1 .. 3 :
          /\ todo["usr"] = From(SetModeCalls(m), k)
          /\ k = 3 => /\ "usr" \in untested
                      /\ xi_status = "OK" /\ ~hidden => OneDepth
    BY <1>4 DEF SessionInv, AtSetMode
  <2>2. SetModeCalls(m) \in Seq(Accesses) /\ Len(SetModeCalls(m)) = 2
    BY ModeCalls
  <2>3. Places(SetModeCalls(m), 2)
    BY <2>2, ListFrom
  <2>4. k = 3
    BY <1>1, <1>4, <2>1, <2>3 DEF Places
  <2> QED
    BY <1>1, <1>4, <2>1, <2>4 DEF Passed
<1> QED
  BY <1>2, <1>3, <1>4 DEF SessionInv, HandleInv, Users, SetsDepths, Threads

\* An operation ends.
LEMMA EndSession ==
  ASSUME SessionInv, HandleInv', NEW t \in Threads, Return(t) \/ Throw(t)
  PROVE  SessionInv'
<1>1. /\ op[t] # "none" /\ op'[t] = "none" /\ todo'[t] = <<>> /\ t \notin untested'
      /\ \A u \in Threads : u # t => op'[u] = op[u] /\ todo'[u] = todo[u]
      /\ \A u \in Threads : u # t => (u \in untested' <=> u \in untested)
      /\ UNCHANGED <<xi_status, m_trigger_mode, device, hidden>>
      /\ xiH' = xiH \/ (op[t] = "construct" /\ xiH' = "null")
      /\ camera' = camera \/ (op[t] = "construct" /\ camera' = "made")
      /\ ~SetsDepths(op[t]) => outcome' = outcome
      /\ SetsDepths(op[t]) => outcome' = IF Return(t) THEN "ok" ELSE "error"
  BY EndsAt DEF SessionInv, HandleInv
<1>2. Together' /\ QuietOnes'
  BY <1>1 DEF SessionInv, Together, QuietOnes, HandleInv, Users, Threads
<1>3. AtSetMode'
  BY <1>1 DEF SessionInv, AtSetMode, OneDepth, Threads
<1>4. AtSetImageType'
  BY <1>1 DEF SessionInv, AtSetImageType, Passed, Threads
<1>5. AtStartup'
  <2>1. CASE t = "ctl"
    BY <1>1, <2>1 DEF AtStartup
  <2>2. CASE t = "usr"
    <3>1. xiH' = xiH
      BY <1>1, <2>2 DEF SessionInv, HandleInv, Users
    <3> QED
      BY <1>1, <2>2, <3>1 DEF SessionInv, AtStartup, Started, Passed, Threads
  <2> QED
    BY <2>1, <2>2 DEF Threads
<1>6. ("setImageType" \notin Overlapping => DepthsAgree)'
  <2>1. CASE SetsDepths(op[t]) /\ Return(t)
    <3>1. "setImageType" \notin Overlapping /\ ~hidden => OneDepth
      BY <2>1, ReturnsOne
    <3> QED
      BY <1>1, <3>1 DEF DepthsAgree, OneDepth
  <2>2. CASE SetsDepths(op[t]) /\ ~Return(t)
    <3>1. outcome' = "error" /\ "error" # "ok"
      BY <1>1, <2>2
    <3> QED
      BY <3>1 DEF DepthsAgree
  <2>3. CASE ~SetsDepths(op[t])
    BY <1>1, <2>3 DEF SessionInv, DepthsAgree
  <2> QED
    BY <2>1, <2>2, <2>3
<1> QED
  BY <1>2, <1>3, <1>4, <1>5, <1>6 DEF SessionInv

\* Every step keeps the invariant.
LEMMA StepSession ==
  ASSUME "reset" \notin Overlapping, SessionInv, [Next]_svars
  PROVE  SessionInv'
<1>0. HandleInv' /\ "ctl" \in Threads /\ "usr" \in Threads
  BY StepHandle DEF SessionInv, Threads
<1>1. ASSUME GetControl PROVE SessionInv'
  <2>1. camera = "none" /\ Begin("ctl", "construct", From(ResetCalls, 4))
    BY <1>1, ResetPlaces DEF GetControl
  <2> QED
    BY <1>0, <2>1, CtlBegins, Zenon
<1>2. ASSUME Reset PROVE SessionInv'
  <2>1. camera = "made" /\ Begin("ctl", "reset", From(ResetCalls, 1))
    BY <1>2, ResetFrom DEF Reset
  <2> QED
    BY <1>0, <2>1, CtlBegins, Zenon
<1>3. ASSUME NEW mode \in DOMAIN SourceOf, SetTrigMode(mode)
      PROVE  SessionInv'
  <2>1. camera = "made" /\ Begin("ctl", "setTrigMode", SetTrigModeCalls(mode))
    BY <1>3 DEF SetTrigMode
  <2> QED
    BY <1>0, <2>1, QuietCalls, CtlBegins, Zenon
<1>4. ASSUME NEW type, SetImageType(type)
      PROVE  SessionInv'
  <2>1. /\ camera = "made" /\ type \in Depths
        /\ Begin("ctl", "setImageType", SetImageTypeCalls(type))
    BY <1>4 DEF SetImageType
  <2>2. From(SetImageTypeCalls(type), 1) = SetImageTypeCalls(type)
    BY <2>1, ImageFrom, Zenon
  <2> QED
    BY <1>0, <2>1, <2>2, CtlBegins, Zenon
<1>5. ASSUME NEW m \in Modes, SetMode(m)
      PROVE  SessionInv'
  <2>1. camera = "made" /\ Begin("usr", "setMode", SetModeCalls(m))
    BY <1>5 DEF SetMode
  <2>2. From(SetModeCalls(m), 1) = SetModeCalls(m)
    BY ModeFrom, Zenon
  <2> QED
    BY <1>0, <2>1, <2>2, UsrBegins, Zenon
<1>6. ASSUME NEW access \in Attributes, AccessAttribute(access)
      PROVE  SessionInv'
  <2>1. camera = "made" /\ Begin("usr", "attribute", <<access>>)
    BY <1>6 DEF AccessAttribute
  <2> QED
    BY <1>0, <2>1, QuietCalls, UsrBegins, Zenon
<1>7. ASSUME NEW t \in Threads, Access(t) \/ Refuse(t)
      PROVE  SessionInv'
  BY <1>0, <1>7, UsrAccess, CtlAccess DEF Threads
<1>8. ASSUME NEW t \in Threads, Return(t) \/ Throw(t)
      PROVE  SessionInv'
  BY <1>0, <1>8, EndSession
<1>9. CASE UNCHANGED svars
  BY <1>0, <1>9
     DEF svars, fields, SessionInv, Together, QuietOnes, AtStartup, Started, Passed,
         AtSetMode, OneDepth, AtSetImageType, DepthsAgree
<1> QED
  BY <1>1, <1>2, <1>3, <1>4, <1>5, <1>6, <1>7, <1>8, <1>9 DEF Next

\* While the Tango device keeps out of resets, the invariant holds.
LEMMA SessionHolds ==
  ASSUME "reset" \notin Overlapping
  PROVE  Spec => []SessionInv
BY InitSession, StepSession, PTL DEF Spec

-----------------------------------------------------------------------------
\* The results.

\* A construction or a reset that returns has left the device as the server
\* wants it, from whatever a client or a failed operation had made of it.
THEOREM ReturnsConfigured ==
  ASSUME "reset" \notin Overlapping
  PROVE  Spec => ConfiguredOnReturn
<1>1. ASSUME SessionInv, [Next]_svars, op["ctl"] \in {"construct", "reset"},
             op'["ctl"] = "none", outcome' = "ok"
      PROVE  Configured'
  <2>1. Return("ctl")
    <3>1. op["ctl"] # "none" /\ "ctl" \in Threads
      BY <1>1 DEF Threads
    <3>2. ASSUME NEW t \in Threads, NEW name, NEW calls, Begin(t, name, calls)
          PROVE  op'["ctl"] = op["ctl"]
      BY <3>1, <3>2 DEF Begin, SessionInv, HandleInv, Typed, Threads
    <3>3. ASSUME NEW t \in Threads, Access(t) \/ Refuse(t)
          PROVE  op'["ctl"] = op["ctl"]
      BY <1>1, <3>3, Moves DEF SessionInv, HandleInv
    <3>4. ASSUME Return("usr") \/ Throw("usr")
          PROVE  op'["ctl"] = op["ctl"]
      BY <1>1, <3>4, EndsAt DEF SessionInv, HandleInv, Threads
    <3>5. ~Throw("ctl")
      <4>1. SetsDepths(op["ctl"])
        BY <1>1 DEF SetsDepths
      <4> QED
        BY <1>1, <4>1 DEF Throw, Ends
    <3> QED
      BY <1>1, <3>1, <3>2, <3>3, <3>4, <3>5 DEF Next, svars, GetControl, Reset,
           SetTrigMode, SetImageType, SetMode, AccessAttribute, Threads
  <2>2. PICK k \in 1 .. 18 : todo["ctl"] = From(ResetCalls, k) /\ Started(k)
    BY <1>1, <2>1 DEF SessionInv, AtStartup, Return
  <2>3. k = 18
    BY <2>1, <2>2, ResetEnd DEF Return
  <2>4. UNCHANGED <<xiH, m_trigger_mode, device>>
    BY <2>1 DEF Return, Ends
  <2> QED
    BY <2>2, <2>3, <2>4 DEF Started, Configured
<1>2. SessionInv /\ [Next]_svars =>
        [op["ctl"] \in {"construct", "reset"} /\ op'["ctl"] = "none" /\ outcome' = "ok"
           => Configured']_svars
  BY <1>1
<1> QED
  BY <1>2, SessionHolds, PTL DEF Spec, ConfiguredOnReturn

\* After an operation on the depths that has succeeded the three depths are
\* one, unless a call of the other thread has hidden a refusal in it.
THEOREM DepthsAreOne ==
  ASSUME "reset" \notin Overlapping, "setImageType" \notin Overlapping
  PROVE  Spec => []DepthsAgree
<1>1. SessionInv => DepthsAgree
  BY DEF SessionInv
<1> QED
  BY <1>1, SessionHolds, PTL
=============================================================================
