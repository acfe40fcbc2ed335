---------------------------- MODULE XimeaTimeout ----------------------------
(***************************************************************************)
(* How long one xiGetImage may block: the timeout the client sets, plus    *)
(* the exposure time, computed by prepareAcq for the thread it creates, in *)
(* the machine's arithmetic.  m_timeout is an unsigned int, the argument   *)
(* of setTimeout and the result of _get_trigger_timeout are ints, and      *)
(* xiGetImage takes an unsigned number of milliseconds.  The exposure time *)
(* is a parameter of the device, which moves it on its own when automatic  *)
(* exposure is on.                                                         *)
(***************************************************************************)
EXTENDS Integers

CONSTANTS
  HalfRange,   \* 2^(w-1), for ints of w bits
  PerMs,       \* microseconds in a millisecond
  MaxExposure, \* max_exp_time, which Lima checks exposure times against
  Timeouts     \* the values a client may write to the attribute timeout

Range == 2 * HalfRange

Ints == -HalfRange .. HalfRange - 1

ASSUME TimeoutAssumption ==
  /\ HalfRange \in Nat \ {0} /\ PerMs \in Nat \ {0}
  /\ MaxExposure \in Nat /\ MaxExposure < HalfRange
  /\ Timeouts \subseteq Ints

VARIABLES
  m_timeout,   \* Camera, an unsigned int
  exposure,    \* the device's exposure time, an int of microseconds
  aeag,        \* XI_PRM_AEAG: does the device choose it?
  wait,        \* m_timeout of the AcqThread as xiGetImage takes it
  prepared,    \* has prepareAcq been called since the last setting?
  taken        \* history: the timeout prepareAcq has taken, as the client set it

mvars == <<m_timeout, exposure, aeag, wait, prepared, taken>>

-----------------------------------------------------------------------------
\* Conversions between int and unsigned int.
Unsigned(n) == n % Range
Signed(n)   == IF n < HalfRange THEN n ELSE n - Range

TIMEOUT_MAX == Range - 1

Init ==
  /\ m_timeout \in {Unsigned(t) : t \in Timeouts}
  /\ exposure = 0 /\ aeag = FALSE
  /\ wait = 0 /\ prepared = FALSE /\ taken = 0

\* The int t is compared as an unsigned int: the test refuses nothing, not
\* even a negative timeout.  The thread that exists keeps the wait it was made with.
SetTimeout(t) ==
  /\ Unsigned(t) <= TIMEOUT_MAX
  /\ m_timeout' = Unsigned(t)
  /\ UNCHANGED <<exposure, aeag, wait, prepared, taken>>

\* Seconds become microseconds by truncation: a product that falls short of
\* the integer it stands for loses one.
Truncated(n) == {n} \cup (IF n > 0 THEN {n - 1} ELSE {})

SetExpTime_RoundedUp(us) ==
  /\ exposure' \in {us, us + 1}
  /\ prepared' = FALSE
  /\ UNCHANGED <<m_timeout, aeag, wait, taken>>

SetExpTime(us) ==
  /\ exposure' \in Truncated(us)
  /\ prepared' = FALSE
  /\ UNCHANGED <<m_timeout, aeag, wait, taken>>

\* SyncCtrlObj::setHwAutoExposureMode
SetAutoExposure(on) ==
  /\ aeag' = on /\ prepared' = FALSE
  /\ UNCHANGED <<m_timeout, exposure, wait, taken>>

\* The device adapts the exposure to the scene, at any time.
Adapt ==
  /\ aeag
  /\ exposure' \in 0 .. HalfRange - 1
  /\ UNCHANGED <<m_timeout, aeag, wait, prepared, taken>>

\* The exposure time in whole milliseconds, by way of seconds again.
ExposureMs ==
  IF exposure % PerMs = 0 THEN Truncated(exposure \div PerMs)
                          ELSE {exposure \div PerMs}

\* int + unsigned int is unsigned; the sum is stored in an int.
GetTriggerTimeout_NoUnits(ms) == Signed(Unsigned(m_timeout + exposure))

GetTriggerTimeout_TimeoutOnly(ms) == Signed(m_timeout)

GetTriggerTimeout(ms) == Signed(Unsigned(m_timeout + ms))

PrepareAcq ==
  /\ \E ms \in ExposureMs : wait' = Unsigned(GetTriggerTimeout(ms))
  /\ prepared' = TRUE /\ taken' = Signed(m_timeout)
  /\ UNCHANGED <<m_timeout, exposure, aeag>>

Next ==
  \/ \E t \in Timeouts : SetTimeout(t)
  \/ \E us \in 0 .. MaxExposure : SetExpTime(us)
  \/ \E on \in BOOLEAN : SetAutoExposure(on)
  \/ Adapt \/ PrepareAcq

Spec == Init /\ [][Next]_mvars

-----------------------------------------------------------------------------
TypeOK ==
  /\ m_timeout \in 0 .. Range - 1
  /\ exposure \in 0 .. HalfRange - 1
  /\ wait \in 0 .. Range - 1
  /\ aeag \in BOOLEAN /\ prepared \in BOOLEAN
  /\ taken \in Ints

\* As long as the device does not choose the exposure itself, no wait of the
\* thread that has been prepared is shorter than the timeout "on top of
\* exposure time", but for the millisecond the truncation may lose: whatever
\* timeouts are set, negative ones among them, and meanwhile.
WaitOnTop == prepared /\ ~aeag => wait >= taken + (exposure \div PerMs) - 1

\* A wait is never longer than timeout and exposure together, so that a stop,
\* which is only looked at between two waits, is answered in that time.  This
\* holds for a negative timeout too, while the exposure outweighs it; beyond
\* that the sum wraps around, and the wait is one of half the range or more.
WaitIsBounded ==
  [][PrepareAcq =>
       LET sum == Signed(m_timeout) + exposure \div PerMs
       IN  IF sum >= 1 THEN wait' <= sum
                       ELSE wait' = 0 \/ wait' >= HalfRange]_mvars
=============================================================================
