# A formal model of the LImA Ximea plugin

This directory specifies the Ximea camera plugin of LImA in TLA+, checks the
specification with TLC and proves the safety properties it checks with TLAPS.  Source lines
below are relative to the repository (`src/XimeaCamera.cpp:130` is a line of the
C++ file of that name).

- [1. The system](#1-the-system)
- [2. The modules](#2-the-modules)
- [3. What the environment is assumed to do](#3-what-the-environment-is-assumed-to-do)
- [4. The runs](#4-the-runs)
- [5. What is proved](#5-what-is-proved)
- [6. Disagreements with the code](#6-disagreements-with-the-code)
- [7. What is not modelled](#7-what-is-not-modelled)
- [8. Plan](#8-plan)

## 1. The system

The plugin drives one XIMEA camera through the vendor's SDK (`xiApi`) for LImA.
Three threads of control meet on one `Camera` object, and no lock is taken
anywhere:

| thread | what it does |
| --- | --- |
| **ctl** | Lima's control thread: calls `Interface` (`prepareAcq`, `startAcq`, `stopAcq`, `reset`, `getStatus`) and the control objects (trigger mode, region, binning, image type) |
| **acq** | the `AcqThread` that every `prepareAcq` creates anew: waits for a trigger, reads images, hands them to Lima's buffers |
| **usr** | a client of the Ximea Tango device: reads and writes more than sixty camera attributes, among them `software_trigger`, `gpi_*`, `trigger_polarity`, `mode`, `timeout` |

### Components

| component | state | operations | what makes it correct |
| --- | --- | --- | --- |
| `Camera`, acquisition control | `xiH`, `xi_status`, `m_status`, `m_image_number`, `m_nb_frames`, `m_trigger_mode`, `m_latency_time`, `m_soft_trigger_issued`, `m_acq_thread` | `prepareAcq`, `startAcq`, `stopAcq`, `reset`, `~Camera`, software trigger | frames are numbered without gaps and never exceed the quota; a start finds a thread; every stop returns; what `getStatus` says agrees with what is going on |
| `AcqThread` | `m_quit`, `m_thread_started`, locals of `threadFunction` | the acquisition loop | a timeout is not a frame; a failure ends as Fault; the device is stopped on every way out; a software trigger is taken once |
| `SyncCtrlObj`, trigger configuration | `m_trigger_mode`, `m_trig_polarity`, the device's trigger source and selector, GPI selector and mode per line | `checkTrigMode`, `setTrigMode`, `_setup_gpio_trigger` | what `getTrigMode` says is what the device does; the configured line, and no other, becomes the trigger input |
| wait timeout | `m_timeout`, the device's exposure time and automatic exposure | `setTimeout`, `setExpTime`, `setHwAutoExposureMode`, `_get_trigger_timeout` | a wait covers the exposure and ends |
| `RoiCtrlObj` | four registers of the device, `m_max_width`, `m_max_height` | `checkRoi`, `setRoi`, `getRoi` | no write is refused, no requested pixel is lost, the region set is the region announced |
| buffer size | `m_buffer_size`, Lima's frame dimension, the image depth | `prepareAcq`, `getCurrImageType`, `setCurrImageType`, `setMode` | what the camera sends is what fits the buffers Lima has allocated |
| `BinCtrlObj` | two factors and two modes per engine, and the engine selected | `checkBin`, `setBin`, `getBin`, `setBinningEngine` | the binning divides the request, what is set is what was checked, and no pixel is averaged |
| construction, `reset`, user sets, image type | `_XimeaCam`, `xiH`, the device's configuration | `get_control`, `_startup`, `reset`, `setMode`, `setImageType` | what returns has configured the device; no closed handle is left behind |
| `DetInfoCtrlObj` | none | image type, sizes | the type Lima is told is the one the camera sends |
| `EventCtrlObj`, `reportException` | none | forwards messages | no state |
| Ximea Tango device, bindings | dictionaries of names | attribute access | a second thread on the same object |

### How they interact

`prepareAcq` ends the previous thread (`m_quit`, then `delete`, which waits),
zeroes the counter and creates an `AcqThread`.  `startAcq` calls
`xiStartAcquisition` and starts the thread; in `IntTrigMult` it also fires a
software trigger, and a later `startAcq` only fires one.  The thread and the
camera share the status word, the counter, the trigger flag and `xi_status`, the
result of *the last* SDK call of *any* thread.  `_set_status` reads that field:
whatever status is asked for becomes `Fault` while it is not `XI_OK`.  So does
every parameter access, which stores its result there and tests the field
afterwards (`src/XimeaCamera.cpp:732`): a good call of another thread in between
hides a failure, a bad one makes a success throw.

What is hard here is nearly all of one of four kinds: a field read by one thread
and overwritten by another (`xi_status`, `m_soft_trigger_issued`, the GPI
selector); a field that outlives what it describes (`xi_status`,
`m_thread_started`, `m_soft_trigger_issued`, `m_trigger_mode`); an operation of
several SDK calls of which one fails; and arithmetic at a boundary.
`PROJECT.json` lists every such hazard with its line and with the properties
that watch it.

## 2. The modules

The acquisition path is one state machine in four modules; the other parts of
the plugin, which share no state with it but parameters of the device, are
machines of their own.  `XimeaFrame` composes three of them: the region
registers, the image depth, and the acquisition as the `FrameSource` that the
acquisition path is shown to implement.

| module | models | state and actions |
| --- | --- | --- |
| `XimeaState` | the fields, the device and the program counters the acquisition path shares; `_set_status`, a parameter call, the two halves of a software trigger | variables carry the source's names; `tpc`, `cpc`, `upc` are the program counters of the threads |
| `AcqThread` | `AcqThread::threadFunction`, `_read_image`, `_soft_trigger_issued` | one action per access another thread can observe: `LoopTest`, `PollTrigger`, `PollQuit`, `ClearTrigger`, `Expose`, `ReadImage`, `CheckRead`, `Readout`, `Deliver`, `LatencyWait`, `AfterFrame`, `Leave`, `Exit` |
| `Camera` | `prepareAcq`, `startAcq`, `stopAcq`, `reset`, `~Camera`, `setTrigMode`, and an attribute access | an operation is cut where another thread can act; the test of `xi_status` after an SDK call is a step of its own, as the field may change before it |
| `XimeaAcq` | the composition, its fairness and its properties | `Next == AcqNext \/ CtlCall \/ CtlStep \/ UsrNext \/ Terminated` |
| `FrameSource` | the abstract specification: what Lima is promised about one acquisition | phases, a frame counter, a quota, a pending stop and the one frame it may still let through |
| `XimeaTrigger` | `SyncCtrlObj::setTrigMode`, `Camera::setTrigMode`, `_setup_gpio_trigger` | one action per parameter, which tests `xi_status` for the access before it (`At`, `Throw`), against a client that uses the GPI attributes, the polarity and the attribute `mode` |
| `TriggerSetting` | the abstract specification of `setTrigMode` | the mode reported, the mode of the device, the trigger line, the mode being set: no parameter and no selector |
| `XimeaTimeout` | `setTimeout`, exposure time, automatic exposure, `_get_trigger_timeout` | machine arithmetic in `w` bits; seconds as doubles are a choice of the two integers truncation can give |
| `XimeaRoi` | `RoiCtrlObj`, `checkRoi`, `setRoi`, `getRoi` | registers per axis, an operation is the list of writes it makes; the steps of `XimeaFrame` within an operation (`Continue`); a failed write may pass for a good one (`Masked`) |
| `XimeaFrame` | when Lima asks for, checks and applies regions; `setCurrImageType`, `setMode`, the allocation, `prepareAcq`, `startAcq`, `stopAcq`, a frame | an action per call of the plugin; the acquisition is `FrameSource`, whose actions are conjoined |
| `XimeaBin` | `checkBin`, `setBin`, `setBinningEngine` | the exponent loop as the set of exponents it tries; factors and modes per engine |
| `XimeaSession` | `get_control`, `_startup`, `reset`, `setMode`, `setImageType`, attribute access | an operation is the sequence of accesses it makes, by two threads; any may be refused (`Refuse`), and whether that ends the operation (`Throw`) is decided by a later look at `xi_status` |
| `XimeaAcqProofs`, `XimeaTriggerProofs`, `XimeaTimeoutProofs`, `XimeaFrameProofs`, `XimeaBinProofs`, `XimeaSessionProofs` | | the theorems of the machine each is named for |
| `XimeaRoiProofs` | | lemmas about the region registers that `XimeaFrameProofs` rests on |
| `AccessLists` | | lemmas about operations kept as the list of the accesses still to make |
| `MCFrame`, `MCBin`, `MCTimeout`, `MCSession` | | values of the constants for TLC |

Definitions named `X_Y`, with `X` a definition of the same module (for instance
`Leave_KeepsAcquiring`), are wrong versions of `X`.  No specification uses them: putting one in the
place of its `X` must break a property, which shows that the property depends on
that piece of the code (`PROJECT.json`, "mutants").

A few variables are not in the code and only record what happened.  In the
acquisition path: `delivered` (frames handed to Lima by this thread object),
`credit` (software triggers issued minus triggers taken), `carried` (a flag the
thread object found raised), `got` (the true result of the last `xiGetImage`) and
`stray` (a stop was refused, or a start threw when it had restarted the device).
In `XimeaTrigger`: `selection` (the line the client last selected) and `outside`
(a user set has been loaded since `setTrigMode` was called).  In `XimeaRoi`:
`announced` (the region Lima was last told) and `changes` (what has been done to
the device besides).  In `XimeaTimeout`: `taken`.  In `XimeaSession`: `hidden` (a
call of the other thread has hidden a refusal).  And `outcome` (how the last
operation ended) in several modules.

**Abstractions.**  A frame is an event; a latency time is positive or not; an
exception is the end of an operation with nothing undone; `xi_status` is OK,
TIMEOUT or ERROR.  Timestamps, tracing and messages are left out.  Who writes
`xi_status` between a call and its test is a step of a thread in `Camera`,
`AcqThread`, `XimeaTrigger` and `XimeaSession`; in `XimeaRoi`, which has no second
thread's calls, a failed write may pass for a good one at any time.  `XimeaBin` has
neither: a failed write of `setBin` ends it.

## 3. What the environment is assumed to do

The SDK, the device, Lima and Tango are not in this repository.  They are
modelled from how the code uses them.

- **Lima's `Thread`.**  `start` throws if the thread is running and starts anew
  if it has finished; the destructor waits for the thread to end.
- **Lima's `CtControl`.**  It calls `startAcq` only after a successful
  `prepareAcq`; in `IntTrigMult` again while the status is Ready
  (`StartAccepted`).  It runs one control operation at a time.  To prepare it
  sets the region it was last told, reads the image type, allocates its buffers
  and calls `prepareAcq` (`XimeaFrame`).  A change of region or depth does not take
  a preparation back: Lima may start what it prepared before, and `FrameFits` says
  what that costs.  Lima does not change them while frames are taken.  It applies
  settings before it prepares: with
  `LateConfig = TRUE` this may happen while the thread of the last acquisition,
  already Ready, is still on its way out (`Configurable`).
- **The Ximea Tango device.**  Its client acts at any time: between any two
  accesses of an operation, under a running acquisition, and without Lima knowing.
  In `XimeaAcq` and `XimeaFrame` nothing keeps it from the attribute `mode`, that is
  from loading a user set.  Where a property needs it to stay out of an operation
  this is a constant that says so: `UsrActive`, `Overlap`, `Overlapping`.
  `setGpiMode` takes every mode, Trigger too, on any line; `setTimeout` takes every
  int, negative ones too.
- **xiStopAcquisition, xiStartAcquisition** may be refused, which nothing looks at.
- **xiGetImage** returns an image only while the device acquires, and under the
  software trigger only for a pending trigger; it may time out at any time, and
  fails when nothing is acquiring or when the run lets it fail.
- **Shared plain fields.**  A data race on `m_quit` or `m_soft_trigger_issued`
  is undefined behaviour in C++.  Every loop that waits for one calls a function
  of another translation unit, so the build reads the field on every turn; each
  access is modelled as one atomic access.
- **Device, regions.**  A write is refused when its value is misaligned, out of
  range, or puts the region over the edge; growing a size shifts the offset back
  onto the sensor, as `tests/test_ximea.py` `test_roi_boundaries` relies on.
  The ranges of the registers do not depend on the binning.
- **Device, binning.**  Each engine keeps factors and modes of its own, begins
  without binning, and refuses a factor above its limit.  The increment of the
  binning value may be any: the loop of `src/XimeaCamera.cpp:651` steps its exponent
  by it.
- **Device, exposure.**  Lima refuses an exposure time above `max_exp_time`.  With
  automatic exposure the device moves the exposure at any time.
- **Device, user sets.**  A user set comes with a depth of its own, which may be
  one Lima has no type for, with the full frame, and with the trigger off.  A device that has booted has some user set loaded, and a handle
  just opened has not got the plugin's buffer policy.
- A null handle is refused by every SDK call but `xiOpenDevice`.

**Fairness.**  `FairSpec` has weak fairness of `AcqNext`, as the operating
system runs every thread that can run, and of `CtlStep`, as an operation that
was called is carried on.  Nobody is obliged to call one, and the client is
obliged to nothing.  `StopReturns` and `ImplementsFrameSource` need no more: the
device may time out for ever.  `AcqCompletes` and `TriggerTaken` name their
additional hypothesis, `DeviceAnswers`: a device that again and again has an
image to give, or can only refuse, does not answer every call with a timeout.

## 4. The runs

### Passing

| run | instance | states | shows |
| --- | --- | --- | --- |
| `single` | internal and external trigger, up to 2 frames and endless, every external call may fail, no client | 221 000 | `FrameNumbering`, `FrameQuota`, `NoPhantomFrame`, `FailuresReported`, `RefusalIsFinal`, `TypeOK` |
| `shared` | software trigger, two frames and two triggers per thread, a client, stops and openings may fail, settings may change while the thread ends | 2 033 000 | `StartHasThread`, `OneExposurePerTrigger`, `DeviceQuiet` |
| `live` | internal and software trigger, 1 and 2 frames, all but parameter calls may fail | 577 000 | `BusyMeansRunning`, `PreparedIsReady`, refinement of `FrameSource` with its liveness, `StopReturns`, `AcqCompletes`, `TriggerTaken` |
| `session` | two user sets of different depth, any access may fail, the client may act during `setTrigMode` and hide a failure there, or have one hidden | 4 041 000 | `ConfiguredOnReturn`, `ClosedOnlyInReset`, `DepthsAgree`, `TypeOK` |
| `trigger_faults` | three lines, any parameter may fail, all GPI modes, both polarities, user sets | 543 000 | `DeviceFollowsMode`, `OtherPortsKept`, `SelectionHeld`, `TriggerPortArmed`, refinement of `TriggerSetting`, `TypeOK` |
| `frame` | a 96 x 64 sensor with different increments on its axes, 6 regions at every kind of edge, two depths and two user sets (two of the depths unknown to Lima) loaded at any time, any call may fail | 2 307 000 | `WritesAccepted`, `CheckCovers`, `SetIsExact`, `FrameFits`, `TypeOK` |
| `bin` | two engines, one that bins up to 6 and 4 and one up to 2, an axis with increment one and one with two, requests to 10 | 146 000 | `BinDivides`, `SetBinIsExact`, `SumModeOnly`, `TypeOK` |
| `timeout` | seven-bit integers, a millisecond of 4 us, timeouts at both ends of the range, around zero and between, all exposure times | 154 000 | `WaitOnTop`, `WaitIsBounded`, `TypeOK` |

### Violations

| run | property | where it comes from |
| --- | --- | --- |
| `stop_ready` | `StopLeavesReady` | `src/XimeaCamera.cpp:151`, with which `stopAcq` ends: `_set_status(Camera::Ready)` |
| `phantom` | `NoPhantomFrame` | the comment at `src/XimeaCamera.cpp:786` relies on the thread's test of `xi_status` |
| `stale_trigger` | `TriggerBeforeExposure` | the comment at `src/XimeaAcqThread.cpp:61` |
| `trigger_overlap` | `TriggerPortArmed` | `tango/Ximea.py:378`: the port used for trigger input |

Section 6 tells what each of them is.

### Bounds

- `MaxFrames` (1 or 2): `xiGetImage` gives no image beyond it.  An endless
  acquisition then waits for ever, which it may do anyway.  Two frames are enough
  for the first, a middle and the last one, for the loop to be entered again
  after a frame, and for a frame of one acquisition to meet the counter of the
  next.
- `MaxTriggers` (1 or 2): the counts of triggers saturate there.  Two is one
  more than a flag can tell apart.
- `FrameCounts` has no 0 in the runs with liveness, where an endless acquisition
  would say nothing, and 0 in `single`.
- The number of acquisitions, stops, resets and failures is not bounded in any
  run.
- `MCFrame`, `MCBin`, `MCTimeout`: the instances are small, the requests and
  timeouts cover every residue and both ends of a range.  Registers are not
  bounded by the number of operations: a set, a refused set and a check may
  follow each other in any order.  `MCFrame` acquires with a quota of one frame:
  `FrameFits` compares what is fixed before the first.  Two engines are one more
  than setBin touches.
- `NotMasked` (`CONSTRAINT` of `MCFrame`): a failure that has passed for a success
  is never forgotten (`"masked" \in changes`), and every property of the run but
  the type invariant is about states without it; so such a state is checked, and
  what follows it is not explored.  The theorems, `TypeOK` among them, have no such
  bound.
- `shared` has one trigger mode, IntTrigMult, which is the one in which a second
  start, a stale flag and a client's trigger meet; the other two are in `single`.

Deadlock is checked in every run; `Terminated` lets a closed camera rest.

## 5. What is proved

The theorems hold for every value of the constants that their assumptions allow;
the assumptions are named (`ConstantsAssumption`, `TriggerAssumption`,
`TimeoutAssumption`, `RoiAssumption`, `FrameAssumption`, `BinAssumption`,
`SessionAssumption`) and TLC evaluates them in the runs of their modules.  What
a theorem assumes beyond them is in its statement and named below.  Every
inductive invariant was checked by TLC on the instance of the component's run
before it was proved.

Every safety invariant and action property of the passing runs is a theorem:

| machine | with no further hypothesis | with one |
| --- | --- | --- |
| acquisition | `TypeOK`, `FrameNumbering`, `StartHasThread`, `OneExposurePerTrigger`, `RefusalIsFinal`, `DeviceQuiet` | `FrameQuota`, safety of `ImplementsFrameSource` (no late settings); `NoPhantomFrame`, `FailuresReported` (undisturbed thread); `BusyMeansRunning`, `PreparedIsReady` (parameter calls accepted) |
| trigger | `TypeOK` | `DeviceFollowsMode` (no overlap, or no failures); `TriggerPortArmed`, `OtherPortsKept`, `SelectionHeld`, `ImplementsSetting` (no overlap) |
| wait | `TypeOK`, `WaitOnTop`, `WaitIsBounded` | |
| frame | `TypeOK`, `WritesAccepted`, `CheckCovers`, `SetIsExact`, `FrameFits` | |
| binning | `TypeOK`, `BinDivides` | `SetBinIsExact`, `SumModeOnly` (no overlap) |
| session | `TypeOK`, `ClosedOnlyInReset` | `ConfiguredOnReturn` (no overlap with a reset); `DepthsAgree` (nor with a change of the image type) |

Some of the properties in the first column name, in their own statement, what
makes them false: `changes` in the four about regions and frames, the automatic
exposure in `WaitOnTop`, the step of the exponent in `BinDivides`, `stray` in
`DeviceQuiet`.  Each is a state the code reaches and does not guard against, and
each is recorded as narrowly as it could be: it says which step has spoilt it and
until when.

### The acquisition path (`XimeaAcqProofs`)

The invariants of `XimeaAcq` are not inductive: `m_image_number = delivered`
says nothing of the moment when `prepareAcq` has zeroed one and not yet created
the object that resets the other.  `IInv` adds what is needed:

- `OpAndPc`: which pieces belong to which operation;
- `ThreadAlive`: the object is running exactly while its program counter is
  somewhere, and a control thread waiting in `delete` has raised `m_quit`;
- `NoStrayThread`: where in the operations the object does and does not exist,
  and that a new one starts from zero;
- `Numbering` and `Triggers`: the inductive forms of `FrameNumbering` and
  `OneExposurePerTrigger`.

`InvHolds` is proved by four lemmas, one for each of `AcqNext`, `CtlStep`,
`UsrNext` and `CtlCall`, with one step per action.  From it follow, **with no
assumption on client and failures**, `TypeCorrect`, `FramesNumbered`,
`StartIsSafe` and `TriggersPaid`; from `Unrefused` (a thread that may yet
deliver has had no frame refused), `RefusalsAreFinal`; and `DeviceIsQuiet`, as
`DeviceQuiet` is inductive relative to `IInv`: each way out of `threadFunction` leads
through `Leave`, and what is left acquiring after that is what `stray` records.

Three further invariants are inductive relative to `IInv`:

- `Quota`, when settings do not change under a running thread
  (`LateConfig = FALSE`).  It gives `QuotaHolds` and `ImplementsSafety`, the safety
  part of the refinement: initial states map to initial states, every step to a
  step or a stutter of `FrameSource`.
- `Sole`, when moreover nobody but the acquisition thread makes SDK calls while
  it runs (`Undisturbed`: no client, no software trigger).  It gives
  `NoPhantoms` and `FailuresAreReported`.  The hypothesis is
  needed: the run `phantom` breaks the first without it.
- `Reporting`, when the device refuses no parameter call (`"param" \notin
  Failing`), with a client, late settings and every other failure.  It says
  where the status word may be busy (while the thread reads, and from the stop
  that interrupts it to that stop's own `_set_status`), that a flag raised on a
  thread object means that somebody waits for it, and that a device that is away
  has no thread and is not busy.  It gives `BusyIsRunning` and
  `PreparedReportsReady`, for more than the run `live` instantiates.  The
  hypothesis is needed: when `getExpTime` fails in a `prepareAcq` that has
  interrupted a reading thread, the status stays Exposure with no thread left.

### The trigger configuration (`XimeaTriggerProofs`)

`Written` says what `setTrigMode` has written at each of its places whose test of
`xi_status` is about to pass.  `TypeCorrect` holds for any interleaving and any
failure.  `ModeIsApplied` needs that a test is about the call before it: either
nobody makes a call in between (`Overlap = FALSE`), or no call fails.  With both,
a good call of the client's hides a refused write and the mode is recorded
without being applied; the theorem is false there, and the code does that.
`Borrowed` says where the borrowed selector points; it needs `Overlap = FALSE`,
which is thus a hypothesis of `PortIsArmed`, `NoOtherPort` and `SelectionIsHeld` (and
the run `trigger_overlap` shows that the first is false without it).

`ImplementsTriggerSetting`, under the same hypothesis, is the refinement of
`TriggerSetting`, all of it, as that specification states no fairness.  Its `Load`
is the client's user set, the one step that changes the mode of the device behind
the report; in the code it is the attribute `mode`, whose second access
(`LoadUserSet`) is that step.  The mapping computes the mode of the device from its
parameters; `Distinct` shows that no two modes share theirs, so that the mapping
is a function of the state.

### The wait (`XimeaTimeoutProofs`)

For integers of every width, any number of microseconds per millisecond and every
timeout an int can hold: `TypeCorrect`, `WaitCoversExposure`, `WaitEndsInTime`, with
no hypothesis.  The argument is that the detour through unsigned and back is the
sum itself unless that is negative, and then the sum and the range of an unsigned
int: timeout and exposure never add up to more than an unsigned int holds.
`WaitCoversExposure` is about every state of a prepared thread; its invariant
relates the wait to the timeout and exposure it was computed from, which stay
until the next setting unless the device moves the exposure.

### Operations as lists of accesses (`AccessLists`)

Regions, binning and session keep an operation as the list of the accesses still
to make.  Their invariants say at which place an operation is and what has been
done by then: *some k, the list left is the operation's list from k on, and
`Written(k)`*.  `ListFrom` gives, for every list, the access at a place, the
place after it and the end; `Joined` does it for a list put together of two.
The step from k to k + 1 is then one lemma per operation, with a case per kind of
access.

### Frames and regions (`XimeaRoiProofs`, `XimeaFrameProofs`)

The sensor is any rectangle whose sizes and minimum sizes are multiples of the
size increment, and the size increment a multiple of the offset increment
(`RoiAssumption`), and 32 pixels at least, the size `checkRoi` falls back to.
The arithmetic comes first: `Floor` and `Ceiling` give multiples within one
increment, what checkRoi computes is a region the registers take, and it is a
fixed point of the computation, so that checking a checked region changes
nothing.  `RegionInv` has a part for each phase of an operation (`Resting`,
`Widening`, `Fitting`, `Comparing`, `Applies`); each says what is in the registers
at each place of the phase's list, up to the order of the writes: a size is
written while the offset leaves room for it.  It holds whatever fails and
whatever region an earlier operation has left half-written.  A user set loaded
under an operation, or a failure hidden in it, leaves only `Loose`, the types, until
the next operation begins from whatever is there; a hidden failure for good, as
what was announced may then be wrong.  So `WritesAreAccepted`, `ChecksCover` and
`SetsAreExact` have no hypothesis.  `FrameInv` adds that what Lima applies is what it
announced and that a prepared camera has the dimension and the size of Lima's
buffers while `changes` is empty, that is from the moment the preparation begins to
set its region; `FramesFit` has no hypothesis either.

### Binning (`XimeaBinProofs`)

For any number of engines with any limits, equal or not on the two axes, any
increments and any requests.  `CheckedBinDivides` has no hypothesis: where the step
goes into the exponent of the limit the exponents tried end with zero, whose power
divides everything, and a power that divides is found again.  `SetBinsAreExact` and
`PixelsAreSummed` assume that no other thread switches the engine between the
writes.

### Session (`XimeaSessionProofs`)

For any user sets and depths, and whichever accesses fail.  `TypeCorrect` and
`HandleIsForgotten` hold whoever overlaps and whatever is hidden: whichever access
of a reset is next, a closed handle means that it is the one that forgets it, and
that one touches no device, so that it cannot be refused.  That an attribute of the
Tango device may use the closed handle in that very moment is in the model, as it
is in the code, and no property denies it.

`SessionInv`, if clients keep out of resets, has a part for each operation; the one
for a construction, which is the last fourteen of the seventeen accesses of a
reset, is `Started(k)`: what handle, device and `m_trigger_mode` are when access k is
next and the test before it has passed.  A construction needs no hypothesis, as no
client has a camera yet.  `DepthsAreOne` assumes in addition that
clients keep out of a change of the image type; where they do overlap (with
`setTrigMode`) a call of one thread may hide a refusal of the other's, which
`hidden` records and `DepthsAgree` excludes.

### Only model-checked

Liveness: `StopReturns`, `AcqCompletes`, `TriggerTaken` and the liveness of
`FrameSource` in `ImplementsFrameSource`, whose safety is proved.  They rest on
fairness, which TLAPS 1.4 does not reason about.

## 6. Disagreements with the code

- **A stop may end in Fault** (`stop_ready`).  `xi_status` keeps the timeout of
  the last `xiGetImage`, and the `_set_status(Ready)` of `stopAcq`
  (`src/XimeaCamera.cpp:151`) turns into Fault.  Stopping while the thread waits
  for a long exposure or a trigger is the usual case.
- **A timeout may become a frame** (`phantom`).  The thread tests `xi_status`
  (`src/XimeaAcqThread.cpp:83`), which any attribute access of the Tango device
  overwrites between `xiGetImage` and the test.
- **A trigger may be stale** (`stale_trigger`).  `m_soft_trigger_issued` is
  cleared only by a waiting thread.  A trigger written while nothing waits
  survives `stopAcq` and `prepareAcq`, and the next acquisition goes to Exposure
  before it is triggered.
- **The wrong line may become the trigger input** (`trigger_overlap`).
  `_setup_gpio_trigger` writes the mode of whatever line is selected by the time,
  and a client of the attributes `gpi_selector` and `gpi_mode` shares the
  selector.

Smaller ones, seen while modelling and not given a run:

- Nobody looks at the result of `xiStopAcquisition` (`src/XimeaAcqThread.cpp:117`,
  `src/XimeaCamera.cpp:150`).  The comment before the first, "stop acqusition no
  matter what", is not kept when it fails, and neither when a second `startAcq` of
  IntTrigMult starts the device while the thread is on its way out
  (`src/XimeaCamera.cpp:139`): `stray` records both, and `DeviceQuiet` says that
  there is no third way.
- A failed call passes for a success when another thread's call ends well between
  the call and the test of `xi_status` (`src/XimeaCamera.cpp:732`): the histories
  `hidden` and `"masked"`.
- The attribute `mode` loads a user set at any time, beneath a prepared or running
  acquisition, and Lima is not told that depth, region and trigger have changed:
  the history `changes`.
- A frame whose read failed is handed to Lima before the status is looked at
  (`src/XimeaAcqThread.cpp:90`).
- The range test of `setTimeout` compares an int with the largest unsigned int and
  refuses nothing; a negative timeout makes the wait at least half the range long,
  unless the exposure outweighs it.  `WaitIsBounded` says which of the two.
- An attribute access during a reset may use the closed handle (`XimeaSession`
  with `reset` in `Overlapping`), and a write of `mode` during `setImageType` leaves
  the depths different (with `setImageType` there).
- A client that switches the binning engine during `setBin` can make it average
  (`XimeaBin` with `Overlap = TRUE`).
- `trigger_polarity` reaches the device only with the next `setTrigMode`.
- A constructor that throws leaves the device open; a reset that cannot open the
  device again leaves a camera that no further reset repairs.
- `SyncCtrlObj.h` declares `startAcq`, `stopAcq` and `getStatus`, which are
  defined nowhere; nothing registers for the events that `reportException` sends.

`RoiCtrlObj::setRoi` orders its writes with care and needs not: it checks once
more first, which leaves both sizes as they are to be.

## 7. What is not modelled

- The values of attributes that nothing in the plugin depends on (gain,
  downsampling, test patterns, bandwidth, ...): the device's alone.  They appear
  as accesses that overwrite `xi_status` and need the handle.  Some of them
  (downsampling, decimation, image format) change the size of a frame; how is the
  device's, so that `FrameFits` says nothing of them.
- `EventCtrlObj` and `reportException`: they forward a message.
- The Tango attribute table and the dictionaries of names, the Python bindings,
  build and packaging: no behaviour of their own.
- `doc/index.rst`: the unchanged template of the simulator camera.
- The effect of binning on the ranges of the region registers and on the size of
  a frame, and what a user set contains besides depth, region and trigger: the
  device's.  Nothing in the plugin or its tests says whether the ranges shrink.
- The overflow of `m_image_number` in an endless acquisition: it takes 2^31
  frames.

## 8. Plan

Done: the acquisition path with its abstract specification, liveness and
proofs; trigger configuration with its abstract specification and proofs; wait
timeout, frame size composed of regions, depth and acquisition, binning engines
and session, with proofs.

Next, in this order:

1. What is left of `DepthsAgree` when a client overlaps with a change of the image
   type: sensor and image agree after every operation that writes both.
2. The lines of the three long case lists of `XimeaAcqProofs` that only say that
   a step leaves a group of variables alone, as one lemma.
3. The composition of `XimeaFrame` as a refinement of `FrameSource` with what an
   operation of the regions leaves alone.
