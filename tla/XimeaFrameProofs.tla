-------------------------- MODULE XimeaFrameProofs --------------------------
(***************************************************************************)
(* Theorems about XimeaFrame, for every sensor, every set of requests and  *)
(* depths: whatever the clients ask for, in whatever order, and whichever  *)
(* calls of the device fail.                                               *)
(***************************************************************************)
EXTENDS XimeaFrame, XimeaRoiProofs

-----------------------------------------------------------------------------
Frames == [width : Nat, height : Nat, bytes : Nat]

DimsOK ==
  /\ depth \in (Depths \cap LimaDepths) \cup UserSets
  /\ lima \in {"open", "applying", "prepared"}
  /\ frame_dim \in Frames /\ m_buffer_size \in Nat

\* While Lima applies a region, the set under way is that of the region it
\* announces, under its name or as no region at all.
ApplyingOK ==
  lima = "applying" =>
    /\ call = "set"
    /\ asked = announced \/ (asked = Zero /\ announced = Full)

\* Frames are taken of what has been prepared, and what has been prepared
\* fits as long as nothing is changed.
PreparedOK ==
  /\ acq = "running" => lima = "prepared"
  /\ lima = "prepared" /\ changes = {} =>
       /\ phase = "idle"
       /\ frame_dim = DeviceDim /\ m_buffer_size = MemSize(frame_dim)

FrameInv == RoiInv /\ DimsOK /\ ApplyingOK /\ PreparedOK

\* The size of a frame is a number.
LEMMA FrameSize ==
  ASSUME NEW r \in Regions, NEW d \in Nat
  PROVE  /\ Dim(r, d) \in Frames
         /\ MemSize(Dim(r, d)) \in Nat
<1>1. (d + 7) \div 8 \in Nat
  OBVIOUS
<1>2. r["x"].size \in Nat /\ r["y"].size \in Nat
  BY DEF Regions, Axis
<1>3. Dim(r, d) \in Frames
  BY <1>1, <1>2 DEF Dim, Frames
<1>4. r["x"].size * r["y"].size \in Nat
  BY <1>2
<1>5. MemSize(Dim(r, d)) = (r["x"].size * r["y"].size) * ((d + 7) \div 8)
  BY DEF MemSize, Dim
<1> QED
  BY <1>1, <1>3, <1>4, <1>5

\* A set that has succeeded for a preparation has left in the registers the
\* region that is announced.
LEMMA AppliedIsAnnounced ==
  ASSUME FrameInv, lima = "applying", phase = "idle", outcome = "ok", Alone
  PROVE  Device = announced
<1>1. Device = Target /\ GoodRegion(announced)
  BY DEF FrameInv, ApplyingOK, RoiInv, RegionInv, Resting, Widening, Fitting, Comparing,
         Applies, Completed, Arguments, Alone
<1>2. announced # Zero
  BY <1>1, GoodIsFitted
<1> QED
  BY <1>1, <1>2 DEF FrameInv, ApplyingOK, Target

\* The initial states.
LEMMA InitialFrame == Init => FrameInv
<1> SUFFICES ASSUME Init PROVE FrameInv
  OBVIOUS
<1>1. RoiInv
  BY RoiStarts DEF Init
<1>2. DimsOK
  <2>1. frame_dim \in Frames
    BY FullIsGood, FrameSize DEF Init, GoodRegion
  <2> QED
    BY <2>1 DEF Init, DimsOK
<1>3. ApplyingOK /\ PreparedOK
  BY DEF Init, ApplyingOK, PreparedOK, Source!Init
<1> QED
  BY <1>1, <1>2, <1>3 DEF FrameInv

\* A check of a region: what is prepared no longer fits.
LEMMA AskRegionKeeps ==
  ASSUME FrameInv, NEW r \in Requests \cup {Zero}, AskRegion(r)
  PROVE  FrameInv'
<1>1. RoiInv' /\ changes' # {}
  BY RoiBegins DEF AskRegion, CheckRoi, FrameInv, Begin
<1>2. DimsOK' /\ PreparedOK' /\ lima' # "applying"
  BY <1>1 DEF AskRegion, Free, FrameInv, DimsOK, PreparedOK, dims, source
<1> QED
  BY <1>1, <1>2 DEF FrameInv, ApplyingOK

\* A change of the image type, complete or not.
LEMMA SetImageTypeKeeps ==
  ASSUME FrameInv, NEW d \in Depths, SetImageType(d)
  PROVE  FrameInv'
<1>1. RoiInv' /\ changes' # {}
  BY RoiRests DEF SetImageType, FrameInv
<1>2. lima' # "applying" /\ PreparedOK'
  BY <1>1 DEF SetImageType, Free, FrameInv, PreparedOK, source
<1>3. DimsOK'
  BY DEF SetImageType, FrameInv, DimsOK
<1> QED
  BY <1>1, <1>2, <1>3 DEF FrameInv, ApplyingOK

\* A user set: the full frame, and a depth of its own, at any time.
LEMMA LoadUserSetKeeps ==
  ASSUME FrameInv, NEW d \in UserSets, LoadUserSet(d)
  PROVE  FrameInv'
<1>1. RoiInv' /\ changes' # {} /\ UNCHANGED progress
  BY RoiReloads DEF LoadUserSet, LoadsUserSet, FrameInv
<1>2. DimsOK' /\ PreparedOK'
  BY <1>1 DEF LoadUserSet, FrameInv, DimsOK, PreparedOK, source
<1>3. ApplyingOK'
  BY <1>1 DEF LoadUserSet, FrameInv, ApplyingOK, Full, progress
<1> QED
  BY <1>1, <1>2, <1>3 DEF FrameInv

\* A preparation begins with the region that is announced.
LEMMA ApplyRegionKeeps ==
  ASSUME FrameInv, ApplyRegion
  PROVE  FrameInv'
<1>1. PICK r \in {announced} \cup (IF announced = Full THEN {Zero} ELSE {}) : SetRoi(r)
  BY DEF ApplyRegion
<1>2. /\ RoiInv' /\ call' = "set" /\ asked' = r /\ announced' = announced
      /\ phase' = "widen"
  BY <1>1, RoiBegins DEF SetRoi, Begin, FrameInv
<1>3. ApplyingOK'
  BY <1>1, <1>2 DEF ApplyingOK, Full
<1>4. DimsOK' /\ PreparedOK'
  BY DEF ApplyRegion, Free, FrameInv, DimsOK, PreparedOK, dims, source
<1> QED
  BY <1>2, <1>3, <1>4 DEF FrameInv

\* While a prepared acquisition waits or runs no operation is under way, and
\* the set of a preparation keeps its argument.
LEMMA RegionStepKeeps ==
  ASSUME FrameInv, RegionStep
  PROVE  FrameInv'
<1>1. RoiInv'
  BY RoiContinues DEF RegionStep, FrameInv
<1>2. changes' = {} => changes = {} /\ phase # "idle"
  <2>1. changes' = {} => changes = {}
    BY DEF RegionStep, Continue, Write, CallFails, Masked, Widened, Reject, Fit, Limits,
       Compare, Apply, Applied
  <2>2. "masked" \notin changes => phase # "idle"
    BY DEF RegionStep, FrameInv, RoiInv, RegionInv, Resting, Widening, Fitting, Comparing,
           Applies, Continue, Write, CallFails, Masked, Widened, Reject, Fit, Limits,
           Compare, Apply, Applied
  <2> QED
    BY <2>1, <2>2
<1>3. UNCHANGED <<call, asked>> /\ (call = "set" => announced' = announced)
  BY DEF RegionStep, Continue, Write, CallFails, Masked, Widened, Reject, Fit, Limits,
         Compare, Apply, Applied, Checked
<1>4. ApplyingOK'
  BY <1>3 DEF RegionStep, FrameInv, ApplyingOK, Full
<1>5. DimsOK' /\ PreparedOK'
  BY <1>2 DEF RegionStep, FrameInv, DimsOK, PreparedOK, dims, source
<1> QED
  BY <1>1, <1>4, <1>5 DEF FrameInv

\* The preparation allocates for what the set has left in the registers.
LEMMA Allocated ==
  ASSUME FrameInv, Applying, outcome = "ok", depth \in LimaDepths,
         Allocate, TakeBufferSize, UNCHANGED <<rvars, depth>>
  PROVE  /\ RoiInv' /\ phase' = "idle"
         /\ frame_dim' \in Frames /\ m_buffer_size' \in Nat
         /\ changes = {} =>
              frame_dim' = DeviceDim' /\ m_buffer_size' = MemSize(frame_dim)'
<1>1. announced \in Regions /\ (changes = {} => Device = announced)
  BY AppliedIsAnnounced DEF Applying, Alone, FrameInv, RoiInv, Loose, RoiTypeOK
<1>2. depth \in Nat
  BY FrameAssumption DEF FrameInv, DimsOK
<1>3. frame_dim' = Dim(announced, depth) /\ m_buffer_size' = MemSize(frame_dim')
  BY DEF Allocate, TakeBufferSize
<1>4. Device' = Device /\ depth' = depth /\ phase' = phase
  BY DEF Device, rvars, registers, progress
<1>5. RoiInv'
  BY RoiRests DEF FrameInv, rvars
<1>6. frame_dim' \in Frames /\ m_buffer_size' \in Nat
  BY <1>1, <1>2, <1>3, FrameSize
<1>7. changes = {} => frame_dim' = DeviceDim' /\ m_buffer_size' = MemSize(frame_dim)'
  BY <1>1, <1>3, <1>4 DEF DeviceDim, Dim, MemSize
<1> QED
  BY <1>4, <1>5, <1>6, <1>7 DEF Applying

\* A preparation that succeeds.
LEMMA PrepareAcqKeeps ==
  ASSUME FrameInv, PrepareAcq
  PROVE  FrameInv'
<1>1. /\ RoiInv' /\ phase' = "idle"
      /\ frame_dim' \in Frames /\ m_buffer_size' \in Nat
      /\ changes = {} =>
           frame_dim' = DeviceDim' /\ m_buffer_size' = MemSize(frame_dim)'
  BY Allocated DEF PrepareAcq
<1>2. depth' = depth /\ lima' = "prepared" /\ changes' = changes
  BY DEF PrepareAcq, rvars
<1> QED
  BY <1>1, <1>2 DEF FrameInv, DimsOK, ApplyingOK, PreparedOK

\* A preparation that fails when all is allocated.
LEMMA PrepareFailsKeeps ==
  ASSUME FrameInv, PrepareFails
  PROVE  FrameInv'
<1>1. RoiInv' /\ frame_dim' \in Frames /\ m_buffer_size' \in Nat
  BY Allocated DEF PrepareFails
<1>2. depth' = depth /\ lima' = "open" /\ acq' # "running"
  BY DEF PrepareFails, source
<1> QED
  BY <1>1, <1>2 DEF FrameInv, DimsOK, ApplyingOK, PreparedOK

\* The rest leaves the settings as they are.
LEMMA OthersKeep ==
  ASSUME FrameInv, UNCHANGED <<rvars, dims>>,
         \/ lima' = "open" /\ acq' # "running"
         \/ lima' = lima /\ (acq' = "running" => acq = "running" \/ lima = "prepared")
  PROVE  FrameInv'
<1>1. RoiInv'
  BY RoiRests DEF FrameInv, rvars
<1>2. DimsOK' /\ ApplyingOK'
  BY DEF FrameInv, DimsOK, ApplyingOK, Full, dims, rvars, progress
<1>3. PreparedOK'
  BY DEF FrameInv, PreparedOK, DeviceDim, Dim, Device, MemSize, dims, rvars, registers, progress
<1> QED
  BY <1>1, <1>2, <1>3 DEF FrameInv

-----------------------------------------------------------------------------
\* The invariant, step by step.
LEMMA FrameInductive == FrameInv /\ [Next]_ivars => FrameInv'
<1> SUFFICES ASSUME FrameInv, [Next]_ivars PROVE FrameInv'
  OBVIOUS
<1>1. ASSUME NEW r \in Requests \cup {Zero}, AskRegion(r) PROVE FrameInv'
  BY <1>1, AskRegionKeeps
<1>2. ASSUME NEW d \in Depths, SetImageType(d) PROVE FrameInv'
  BY <1>2, SetImageTypeKeeps
<1>3. ASSUME NEW d \in UserSets, LoadUserSet(d) PROVE FrameInv'
  BY <1>3, LoadUserSetKeeps
<1>4. CASE ApplyRegion
  BY <1>4, ApplyRegionKeeps
<1>5. CASE RegionStep
  BY <1>5, RegionStepKeeps
<1>6. CASE PrepareAcq
  BY <1>6, PrepareAcqKeeps
<1>7. CASE PrepareFails
  BY <1>7, PrepareFailsKeeps
<1>8. CASE Abort
  BY <1>8, OthersKeep DEF Abort, Applying, FrameInv, PreparedOK, source
<1>9. CASE StartAcq
  BY <1>9, OthersKeep DEF StartAcq
<1>10. CASE Acquire
  BY <1>10, OthersKeep DEF Acquire, Source!Frame, Source!Finish, Source!RequestStop
<1>11. CASE Release
  BY <1>11, OthersKeep DEF Release, Source!Release, FrameInv, DimsOK
<1>12. CASE UNCHANGED ivars
  BY <1>12, OthersKeep DEF ivars, source
<1> QED
  BY <1>1, <1>2, <1>3, <1>4, <1>5, <1>6, <1>7, <1>8, <1>9, <1>10, <1>11, <1>12 DEF Next

\* So it holds in every state.
LEMMA FrameAlways == Spec => []FrameInv
BY InitialFrame, FrameInductive, PTL DEF Spec

\* The variables keep their types.
THEOREM TypeCorrect == Spec => []TypeOK
<1>1. FrameInv => TypeOK
  BY DEF FrameInv, RoiInv, Loose, DimsOK, TypeOK, Frames
<1> QED
  BY <1>1, FrameAlways, PTL

\* The device has no reason to refuse a write of checkRoi or setRoi: sizes
\* and offsets are written in an order, and rounded to values, that it
\* accepts whatever region an operation before, failed or not, has left, as
\* long as no user set comes in between.
THEOREM WritesAreAccepted == Spec => []WritesAccepted
<1>1. FrameInv => WritesAccepted
  BY RegionAccepted DEF FrameInv, RoiInv, WritesAccepted, Alone
<1> QED
  BY <1>1, FrameAlways, PTL

\* checkRoi cuts nothing that is on the sensor.
THEOREM ChecksCover == Spec => []CheckCovers
<1>1. FrameInv => CheckCovers
  BY RegionResults DEF FrameInv, RoiInv, CheckCovers, Alone
<1> QED
  BY <1>1, FrameAlways, PTL

\* setRoi leaves in the registers exactly the region that was announced:
\* checking it again changes nothing.
THEOREM SetsAreExact == Spec => []SetIsExact
<1>1. FrameInv => SetIsExact
  BY RegionResults DEF FrameInv, RoiInv, SetIsExact, Alone
<1> QED
  BY <1>1, FrameAlways, PTL

\* While frames are taken, the frame the camera sends is the one the buffers
\* are allocated for, and m_buffer_size its size, from the moment on that the
\* preparation sets its region until somebody changes a setting.
THEOREM FramesFit == Spec => []FrameFits
<1>1. FrameInv => FrameFits
  BY DEF FrameInv, PreparedOK, FrameFits
<1> QED
  BY <1>1, FrameAlways, PTL
=============================================================================
