----------------------------- MODULE XimeaFrame -----------------------------
(***************************************************************************)
(* The size of a frame: what the camera sends against what Lima has        *)
(* allocated.  Lima checks a region when a client asks for it, applies it  *)
(* when an acquisition is prepared, reads the image type, allocates its    *)
(* buffers, and calls prepareAcq, which takes down the size of a buffer.   *)
(* The thread hands that size to xiGetImage for every frame, with the      *)
(* buffer policy under which the driver writes into Lima's memory.         *)
(*                                                                         *)
(* Composes the region registers (XimeaRoi), the image depth, and the      *)
(* acquisition as the frame source it implements (FrameSource).            *)
(***************************************************************************)
EXTENDS XimeaRoi

CONSTANTS
  Depths,        \* the image depths a client may ask for
  UserSets       \* the depths the user sets of the device come with

ASSUME FrameAssumption ==
  /\ Depths \subseteq Nat /\ UserSets \subseteq Nat /\ UserSets # {}

VARIABLES
  depth,          \* XI_PRM_IMAGE_DATA_BIT_DEPTH
  lima,           \* "open", "applying" a preparation, or "prepared"
  frame_dim,      \* the frame Lima's buffers are allocated for
  m_buffer_size,  \* Camera
  acq, count, quota, stopping, grace   \* the frame source

Source == INSTANCE FrameSource WITH phase <- acq, Quotas <- {1}

dims   == <<depth, frame_dim, m_buffer_size>>
source == <<acq, count, quota, stopping, grace>>
ivars  == <<rvars, dims, lima, source>>

-----------------------------------------------------------------------------
\* The depths getImageType has a type for; 9 and 11 are not among them.
LimaDepths == {8, 10, 12, 14, 16, 24, 32}

\* A frame as far as its size in memory goes, and that size.
Dim(region, d)  == [width  |-> region["x"].size, height |-> region["y"].size,
                    bytes  |-> (d + 7) \div 8]
MemSize(dim) == dim.width * dim.height * dim.bytes

\* What the camera sends.
DeviceDim == Dim(Device, depth)

Init ==
  /\ RoiInit /\ Source!Init
  /\ depth \in UserSets
  /\ lima = "open"
  /\ frame_dim = Dim(Full, 8) /\ m_buffer_size = 0

-----------------------------------------------------------------------------
\* Lima's threads and the clients behind it take turns; none of them changes
\* a setting while frames are being taken or a preparation is under way.
Free == phase = "idle" /\ lima # "applying" /\ acq # "running"

\* A change does not undo a preparation: Lima may start what it prepared
\* before.
AskRegion(r) ==
  /\ Free /\ CheckRoi(r)
  /\ UNCHANGED <<dims, lima, source>>

\* DetInfoCtrlObj::setCurrImageType; the depth of the image is written last.
SetImageType(d) ==
  /\ Free /\ d \in LimaDepths
  /\ depth' \in {d} \cup (IF CallsFail THEN {depth} ELSE {})
  /\ changes' = changes \cup {"lima"}
  /\ UNCHANGED <<registers, progress, frame_dim, m_buffer_size, lima, source>>

\* Lima does not know of a user set, nor is it asked for leave: the depth and
\* the region change under a preparation and under a running acquisition.
LoadUserSet(d) ==
  /\ LoadsUserSet
  /\ depth' = d
  /\ UNCHANGED <<frame_dim, m_buffer_size, lima, source>>

\* The preparation: the region announced last, or none if that is all ...
ApplyRegion ==
  /\ Free
  /\ \E r \in {announced} \cup (IF announced = Full THEN {Zero} ELSE {}) : SetRoi(r)
  /\ lima' = "applying"
  /\ UNCHANGED <<dims, source>>

Applying == lima = "applying" /\ phase = "idle"

\* ... the image type, the buffers, and Camera::prepareAcq.
Allocate == frame_dim' = Dim(announced, depth)

TakeBufferSize_Once ==
  m_buffer_size' = IF m_buffer_size = 0 THEN MemSize(frame_dim') ELSE m_buffer_size

TakeBufferSize == m_buffer_size' = MemSize(frame_dim')

PrepareAcq ==
  /\ Applying /\ outcome = "ok" /\ depth \in LimaDepths
  /\ Allocate /\ TakeBufferSize
  /\ Source!Prepare
  /\ lima' = "prepared"
  /\ UNCHANGED <<rvars, depth>>

\* getExpTime throws when everything else is done.
PrepareFails ==
  /\ CallsFail
  /\ Applying /\ outcome = "ok" /\ depth \in LimaDepths /\ acq = "idle"
  /\ Allocate /\ TakeBufferSize
  /\ lima' = "open"
  /\ UNCHANGED <<rvars, depth, source>>

\* setRoi or getImageType throws.
Abort ==
  /\ Applying /\ (outcome = "error" \/ depth \notin LimaDepths)
  /\ lima' = "open"
  /\ UNCHANGED <<rvars, dims, source>>

StartAcq ==
  /\ lima = "prepared" /\ phase = "idle"
  /\ Source!Start
  /\ UNCHANGED <<rvars, dims, lima>>

\* stopAcq, and the stop prepareAcq begins with.
Release ==
  /\ Source!Release
  /\ lima' = IF lima = "prepared" THEN "open" ELSE lima
  /\ UNCHANGED <<rvars, dims>>

Acquire ==
  /\ Source!Frame \/ Source!Finish \/ Source!RequestStop
  /\ UNCHANGED <<rvars, dims, lima>>

RegionStep == Continue /\ UNCHANGED <<dims, lima, source>>

Next ==
  \/ \E r \in Requests \cup {Zero} : AskRegion(r)
  \/ \E d \in Depths : SetImageType(d)
  \/ \E d \in UserSets : LoadUserSet(d)
  \/ ApplyRegion \/ RegionStep
  \/ PrepareAcq \/ PrepareFails \/ Abort
  \/ StartAcq \/ Acquire \/ Release

Spec == Init /\ [][Next]_ivars

-----------------------------------------------------------------------------
TypeOK ==
  /\ RoiTypeOK
  /\ depth \in (Depths \cap LimaDepths) \cup UserSets
  /\ lima \in {"open", "applying", "prepared"}
  /\ DOMAIN frame_dim = {"width", "height", "bytes"}
  /\ m_buffer_size \in Nat

\* While an acquisition runs the camera sends the frame Lima has allocated,
\* and the thread tells the driver the size of that one: whatever regions,
\* depths, user sets and failed preparations came before, no frame is cut,
\* none leaves part of its buffer unwritten and none is written beyond it;
\* until, since the preparation began to set the region, a setting has been
\* changed through Lima or a user set been loaded behind its back.
FrameFits ==
  acq = "running" /\ changes = {} => /\ frame_dim = DeviceDim
                     /\ m_buffer_size = MemSize(DeviceDim)
=============================================================================
