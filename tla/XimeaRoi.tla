------------------------------ MODULE XimeaRoi ------------------------------
(***************************************************************************)
(* The hardware region of interest: Camera::checkRoi, setRoi and getRoi as *)
(* Lima reaches them through RoiCtrlObj.  The device keeps a size and an   *)
(* offset register per axis; checkRoi already writes the sizes, because    *)
(* the device reports its offset limits for the current size only.         *)
(*                                                                         *)
(* An operation is a list of register writes, done one by one; each may    *)
(* fail, and what is written stays written.  A client of the Tango device  *)
(* uses the same camera at any time: it may load a user set under an       *)
(* operation, and its calls may hide that one of the operation failed.     *)
(* When Lima calls them is in XimeaFrame, which this module is a part of.  *)
(***************************************************************************)
EXTENDS Integers, Sequences

CONSTANTS
  Sensor,      \* per axis: the full frame, read once by _startup
  MinSize,     \* per axis: the limits and increments the device reports
  SizeInc,
  OffsetInc,
  Requests,    \* the regions Lima may ask for
  CallsFail    \* may a call of the device fail for no fault of its value?

Axis == {"x", "y"}

Regions == [Axis -> [offset : Nat, size : Nat]]

\* The increments nest, as those of image sensors do.
ASSUME RoiAssumption ==
  /\ {Sensor, MinSize, SizeInc, OffsetInc} \subseteq [Axis -> Nat \ {0}]
  /\ \A a \in Axis :
       /\ Sensor[a] % SizeInc[a] = 0 /\ MinSize[a] % SizeInc[a] = 0
       /\ SizeInc[a] % OffsetInc[a] = 0
       /\ MinSize[a] <= Sensor[a] /\ 32 <= Sensor[a]
  /\ Requests \subseteq Regions
  /\ CallsFail \in BOOLEAN

VARIABLES
  size, offset,  \* the registers of the device, per axis
  phase,         \* where the operation is
  todo,          \* the register writes left to do in this phase
  call,          \* "check" or "set"
  asked,         \* the argument
  real,          \* hw_roi, the region checkRoi returns
  announced,     \* the last region a checkRoi of Lima's returned
  outcome,       \* how the last operation ended
  changes        \* history: what has been done to the device besides

\* The kinds of changes: by Lima since it last began to set a region, by a
\* user set since an operation last began, and a failure hidden at any time.
Kinds == {"lima", "userset", "masked"}

registers == <<size, offset>>
progress  == <<phase, todo, call, asked, real, announced, outcome>>
rvars     == <<registers, progress, changes>>

-----------------------------------------------------------------------------
Floor(n, inc)    == (n \div inc) * inc
Ceiling(n, inc)  == Floor(n + inc - 1, inc)
Clamp(n, lo, hi) == IF n > hi THEN hi ELSE IF n < lo THEN lo ELSE n

Zero == [a \in Axis |-> [offset |-> 0, size |-> 0]]
Full == [a \in Axis |-> [offset |-> 0, size |-> Sensor[a]]]

Device == [a \in Axis |-> [offset |-> offset[a], size |-> size[a]]]

\* The largest offset the device reports for a size.
OffsetMax(a, s) == Floor(Sensor[a] - s, OffsetInc[a])

\* "ROI must be at least 32x32"
TooSmall(r) == \E a \in Axis : r[a].size < 32

\* The offset rounded down, then the size rounded up from there.
FitSize_OffsetIgnored(r, a) ==
  Clamp(Ceiling(r[a].size, SizeInc[a]), MinSize[a], Sensor[a])

FitSize_Unaligned(r, a) ==
  LET moved == r[a].offset - Floor(r[a].offset, OffsetInc[a])
  IN  Clamp(r[a].size + moved, MinSize[a], Sensor[a])

FitSize(r, a) ==
  LET moved == r[a].offset - Floor(r[a].offset, OffsetInc[a])
  IN  Clamp(Ceiling(r[a].size + moved, SizeInc[a]), MinSize[a], Sensor[a])

FitOffset_Below(r, a) ==
  LET below == Floor(r[a].offset - 1, OffsetInc[a])
  IN  IF below > OffsetMax(a, size[a]) THEN OffsetMax(a, size[a]) ELSE below

FitOffset(r, a) ==
  Clamp(Floor(r[a].offset, OffsetInc[a]), 0, OffsetMax(a, size[a]))

-----------------------------------------------------------------------------
SetSize(a, v)   == [register |-> "size", axis |-> a, value |-> v]
SetOffset(a, v) == [register |-> "offset", axis |-> a, value |-> v]

\* The device accepts an aligned value within the limits it reports ...
Accepts(w) ==
  LET a == w.axis
  IN  IF w.register = "size"
      THEN w.value \in MinSize[a] .. Sensor[a] /\ w.value % SizeInc[a] = 0
      ELSE w.value \in 0 .. OffsetMax(a, size[a]) /\ w.value % OffsetInc[a] = 0

\* ... and moves a region that has grown over the edge back on the sensor.
Store(w) ==
  LET a == w.axis
  IN  IF w.register = "size"
      THEN /\ size' = [size EXCEPT ![a] = w.value]
           /\ offset' = [offset EXCEPT ![a] = Clamp(@, 0, OffsetMax(a, w.value))]
      ELSE /\ offset' = [offset EXCEPT ![a] = w.value]
           /\ UNCHANGED size

\* After _startup: the user set has set the full frame.
RoiInit ==
  /\ size = Sensor /\ offset = [a \in Axis |-> 0]
  /\ phase = "idle" /\ todo = <<>> /\ call = "check"
  /\ asked = Zero /\ real = Full /\ announced = Full
  /\ outcome = "none" /\ changes = {}

Returns(how) == phase' = "idle" /\ todo' = <<>> /\ outcome' = how

\* Both operations begin with checkRoi, and that with W/H set to the maximum.
Begin(c, r) ==
  /\ phase = "idle"
  /\ call' = c /\ asked' = r
  /\ phase' = "widen"
  /\ todo' = <<SetSize("x", Sensor["x"]), SetSize("y", Sensor["y"])>>
  /\ changes' = (changes \cap {"masked"}) \cup (IF c = "check" THEN {"lima"} ELSE {})
  /\ UNCHANGED <<registers, real, announced, outcome>>

CheckRoi(r) == r \in Requests \cup {Zero} /\ Begin("check", r)

\* Lima sets what a check has returned, or no region at all.
SetRoi(r) == r \in {announced, Zero} /\ Begin("set", r)

Write ==
  /\ todo # <<>> /\ Accepts(Head(todo))
  /\ Store(Head(todo))
  /\ todo' = Tail(todo)
  /\ UNCHANGED <<phase, call, asked, real, announced, outcome, changes>>

\* Any read or write of a parameter may throw; nothing is undone.
CallFails ==
  /\ CallsFail \/ (todo # <<>> /\ ~Accepts(Head(todo)))
  /\ phase # "idle" /\ ~(phase = "apply" /\ todo = <<>>)
  /\ Returns("error")
  /\ UNCHANGED <<registers, call, asked, real, announced, changes>>

\* A write fails, but _set_param_int tests the xi_status of another thread's
\* call, and the operation goes on as if it had been done.
Masked ==
  /\ todo # <<>> /\ (CallsFail \/ ~Accepts(Head(todo)))
  /\ todo' = Tail(todo)
  /\ changes' = changes \cup {"masked"}
  /\ UNCHANGED <<registers, phase, call, asked, real, announced, outcome>>

\* Camera::setMode, called by a client of the Tango device, or by a reset:
\* the user set brings the full frame, whatever is under way.
LoadsUserSet ==
  /\ size' = Sensor /\ offset' = [a \in Axis |-> 0]
  /\ changes' = changes \cup {"userset"}
  /\ UNCHANGED progress

Checked(r) ==
  /\ real' = r
  /\ IF call = "check"
     THEN announced' = r /\ Returns("ok")
     ELSE phase' = "compare" /\ UNCHANGED <<todo, announced, outcome>>

\* "zero means infinity in Lima language"
Widened ==
  /\ phase = "widen" /\ todo = <<>> /\ asked = Zero
  /\ Checked(Full)
  /\ UNCHANGED <<registers, call, asked, changes>>

Reject ==
  /\ phase = "widen" /\ todo = <<>> /\ asked # Zero
  /\ TooSmall(asked)
  /\ Returns("error")
  /\ UNCHANGED <<registers, call, asked, real, announced, changes>>

Fit ==
  /\ phase = "widen" /\ todo = <<>> /\ asked # Zero
  /\ ~TooSmall(asked)
  /\ phase' = "fit"
  /\ todo' = <<SetSize("y", FitSize(asked, "y")), SetSize("x", FitSize(asked, "x"))>>
  /\ UNCHANGED <<registers, call, asked, real, announced, outcome, changes>>

Limits ==
  /\ phase = "fit" /\ todo = <<>>
  /\ Checked([a \in Axis |-> [offset |-> FitOffset(asked, a),
                              size   |-> FitSize(asked, a)]])
  /\ UNCHANGED <<registers, call, asked, changes>>

\* Camera::setRoi: nothing to do when the device has the region already.
Compare_SizesOnly ==
  /\ phase = "compare"
  /\ \A a \in Axis : size[a] = real[a].size
  /\ Returns("ok")
  /\ UNCHANGED <<registers, call, asked, real, announced, changes>>

Compare ==
  /\ phase = "compare" /\ Device = real
  /\ Returns("ok")
  /\ UNCHANGED <<registers, call, asked, real, announced, changes>>

\* "order is important, first we need to set w/h and only then the offsets"
ApplyOrder ==
  <<SetOffset("x", 0),                SetOffset("y", 0),
    SetSize("x", real["x"].size),     SetSize("y", real["y"].size),
    SetOffset("x", real["x"].offset), SetOffset("y", real["y"].offset)>>

Apply ==
  /\ phase = "compare" /\ Device # real
  /\ phase' = "apply" /\ todo' = ApplyOrder
  /\ UNCHANGED <<registers, call, asked, real, announced, outcome, changes>>

Applied ==
  /\ phase = "apply" /\ todo = <<>>
  /\ Returns("ok")
  /\ UNCHANGED <<registers, call, asked, real, announced, changes>>

\* The operation under way goes on by one access.
Continue ==
  \/ Write \/ CallFails \/ Masked \/ Widened \/ Reject \/ Fit \/ Limits
  \/ Compare \/ Apply \/ Applied

-----------------------------------------------------------------------------
RoiTypeOK ==
  /\ size \in [Axis -> Nat] /\ offset \in [Axis -> Nat]
  /\ phase \in {"idle", "widen", "fit", "compare", "apply"}
  /\ Len(todo) <= 6
  /\ call \in {"check", "set"}
  /\ asked \in Regions /\ real \in Regions /\ announced \in Regions
  /\ outcome \in {"none", "ok", "error"}
  /\ changes \subseteq Kinds

Completed(c) == phase = "idle" /\ call = c /\ outcome = "ok"

\* No user set has been loaded since the operation began, and no failed
\* write has ever passed for a good one.
Alone == changes \cap {"userset", "masked"} = {}

\* checkRoi and setRoi order their writes so that the device has no reason
\* to refuse one, whatever region an earlier operation left behind, unless
\* a user set is loaded in between.
WritesAccepted == Alone /\ todo # <<>> => Accepts(Head(todo))

\* checkRoi grows a region to what the device can do, it never cuts it: the
\* client gets every pixel it asked for, provided they are on the sensor
\* and nobody loads a user set while their limits are read.
CheckCovers ==
  Alone /\ Completed("check") /\ asked # Zero =>
    \A a \in Axis :
      asked[a].offset + asked[a].size <= Sensor[a] =>
        /\ real[a].offset <= asked[a].offset
        /\ real[a].offset + real[a].size >= asked[a].offset + asked[a].size

\* The region Lima announces is the region the device gets: setRoi checks
\* once more, and must come to the same result as the check did, from
\* whatever registers failed operations have left behind; no region at all
\* is the full frame.  It has it until somebody loads a user set.
SetIsExact ==
  Alone /\ Completed("set") => Device = (IF asked = Zero THEN Full ELSE asked)
=============================================================================
