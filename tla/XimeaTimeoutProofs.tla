------------------------- MODULE XimeaTimeoutProofs -------------------------
(***************************************************************************)
(* The wait the thread passes to xiGetImage, for ints of any width and     *)
(* every int a client may set as timeout: what the unsigned sum of timeout *)
(* and exposure comes to, and where it wraps around.  That the exposure is *)
(* still what the wait was computed for is a property of every later step. *)
(***************************************************************************)
EXTENDS XimeaTimeout, TLAPS

\* A value in the range of unsigned int is its own conversion.
LEMMA NoWrap ==
  ASSUME NEW n \in 0 .. Range - 1
  PROVE  Unsigned(n) = n
<1>1. Range \in Nat \ {0}
  BY TimeoutAssumption DEF Range
<1> QED
  BY <1>1 DEF Unsigned

\* The client's timeout can be read back.
LEMMA SignedInt ==
  ASSUME NEW n \in 0 .. Range - 1
  PROVE  Signed(n) \in Ints
BY TimeoutAssumption DEF Signed, Ints, Range

\* An int stored and taken as an unsigned number again is the number it was.
LEMMA ThereAndBack ==
  ASSUME NEW n \in 0 .. Range - 1
  PROVE  Unsigned(Signed(n)) = n
<1>1. Range \in Nat \ {0} /\ HalfRange \in Nat \ {0} /\ Range = 2 * HalfRange
  BY TimeoutAssumption DEF Range
<1>2. CASE n < HalfRange
  BY <1>1, <1>2, NoWrap DEF Signed
<1>3. CASE ~(n < HalfRange)
  <2>1. Signed(n) = n - Range
    BY <1>1, <1>3 DEF Signed
  <2>2. (n - Range) % Range = n
    BY <1>1
  <2> QED
    BY <2>1, <2>2 DEF Unsigned
<1> QED
  BY <1>2, <1>3

\* The exposure in milliseconds is no more than the exposure in microseconds.
LEMMA Quotient ==
  ASSUME NEW e \in Nat
  PROVE  e \div PerMs \in 0 .. e
<1>1. PerMs \in Nat \ {0}
  BY TimeoutAssumption
<1>2. e \div PerMs \in Int
  BY <1>1
<1>3. PerMs * (e \div PerMs) <= e /\ e < PerMs * (e \div PerMs) + PerMs
  BY <1>1
<1>4. e \div PerMs >= 0
  BY <1>1
<1>5. \A k \in Nat : k <= PerMs * k /\ PerMs * k \in Nat
  BY <1>1
<1>6. ASSUME NEW k \in Nat, PerMs * k \in Nat, k <= PerMs * k, PerMs * k <= e
      PROVE  k <= e
  <2> DEFINE product == PerMs * k
  <2>1. product \in Nat /\ k <= product /\ product <= e
    BY <1>6
  <2> HIDE DEF product
  <2> QED
    BY <2>1
<1> QED
  BY <1>2, <1>3, <1>4, <1>5, <1>6

\* The exposure in milliseconds is an int, and off by less than one.
LEMMA Milliseconds ==
  ASSUME TypeOK, NEW ms \in ExposureMs
  PROVE  /\ ms \in 0 .. HalfRange - 1
         /\ (exposure \div PerMs) - 1 <= ms
         /\ ms <= exposure \div PerMs
<1>1. exposure \div PerMs \in 0 .. exposure
  BY Quotient DEF TypeOK
<1>2. ms \in {exposure \div PerMs}
         \cup (IF exposure \div PerMs > 0 THEN {(exposure \div PerMs) - 1} ELSE {})
  BY DEF ExposureMs, Truncated
<1> QED
  BY <1>1, <1>2, TimeoutAssumption DEF TypeOK

-----------------------------------------------------------------------------
\* The numbers stay within their machine types, whatever is written.
LEMMA TypeStep == TypeOK /\ [Next]_mvars => TypeOK'
<1> SUFFICES ASSUME TypeOK, [Next]_mvars PROVE TypeOK'
    OBVIOUS
<1>0. Range \in Nat \ {0} /\ HalfRange \in Nat \ {0} /\ Range = 2 * HalfRange
  BY TimeoutAssumption DEF Range
<1>1. \A n \in Int : Unsigned(n) \in 0 .. Range - 1
  BY <1>0 DEF Unsigned
<1>2. ASSUME NEW t \in Timeouts, SetTimeout(t) PROVE TypeOK'
  BY <1>1, <1>2, TimeoutAssumption DEF SetTimeout, TypeOK, Ints
<1>3. ASSUME NEW us \in 0 .. MaxExposure, SetExpTime(us) PROVE TypeOK'
  <2>1. \A n \in Truncated(us) : n \in 0 .. HalfRange - 1
    BY TimeoutAssumption DEF Truncated
  <2> QED
    BY <1>3, <2>1 DEF SetExpTime, TypeOK
<1>4. CASE PrepareAcq
  <2>1. PICK ms \in ExposureMs : wait' = Unsigned(GetTriggerTimeout(ms))
    BY <1>4 DEF PrepareAcq
  <2>2. m_timeout + ms \in Int
    BY <2>1, Milliseconds DEF TypeOK
  <2>3. GetTriggerTimeout(ms) \in Int
    BY <1>0, <1>1, <2>2 DEF GetTriggerTimeout, Signed
  <2>4. Signed(m_timeout) \in Ints
    BY SignedInt DEF TypeOK
  <2> QED
    BY <1>1, <1>4, <2>1, <2>3, <2>4 DEF PrepareAcq, TypeOK
<1>5. CASE UNCHANGED mvars
  BY <1>5 DEF mvars, TypeOK
<1>6. ASSUME NEW on \in BOOLEAN, SetAutoExposure(on) PROVE TypeOK'
  BY <1>6 DEF SetAutoExposure, TypeOK
<1>7. CASE Adapt
  BY <1>7 DEF Adapt, TypeOK
<1> QED
  BY <1>2, <1>3, <1>4, <1>5, <1>6, <1>7 DEF Next

\* The camera begins with numbers of their types.
LEMMA TypeInit == Init => TypeOK
<1>0. Range \in Nat \ {0} /\ HalfRange \in Nat \ {0}
  BY TimeoutAssumption DEF Range
<1>1. \A n \in Int : Unsigned(n) \in 0 .. Range - 1
  BY <1>0 DEF Unsigned
<1> QED
  <2> SUFFICES ASSUME Init PROVE TypeOK
      OBVIOUS
  <2>1. m_timeout \in 0 .. Range - 1
    BY <1>1, TimeoutAssumption DEF Init, Ints
  <2>2. exposure \in 0 .. HalfRange - 1 /\ wait \in 0 .. Range - 1
    BY <1>0 DEF Init
  <2>3. aeag \in BOOLEAN /\ prepared \in BOOLEAN
    BY DEF Init
  <2>4. taken \in Ints
    <3>1. taken = 0 /\ 0 \in Ints
      BY <1>0 DEF Init, Ints
    <3> QED
      BY <3>1
  <2> QED
    BY <2>1, <2>2, <2>3, <2>4 DEF TypeOK

\* Timeout, exposure and wait stay in their machine types, for ints of every
\* width and whatever the client and the automatic exposure write.
THEOREM TypeCorrect == Spec => []TypeOK
BY TypeInit, TypeStep, PTL DEF Spec

\* What prepareAcq computes: the sum, unless that is negative, and then the
\* sum and the range of the unsigned integers.
LEMMA Wait ==
  ASSUME TypeOK, PrepareAcq
  PROVE  \E ms \in ExposureMs :
           LET sum == Signed(m_timeout) + ms
           IN  \/ sum >= 0 /\ wait' = sum
               \/ sum < 0 /\ wait' = sum + Range /\ wait' >= HalfRange
<1>1. PICK ms \in ExposureMs : wait' = Unsigned(GetTriggerTimeout(ms))
  BY DEF PrepareAcq
<1>2. /\ ms \in 0 .. HalfRange - 1 /\ m_timeout \in 0 .. Range - 1
      /\ HalfRange \in Nat \ {0} /\ Range = 2 * HalfRange
  BY Milliseconds, TimeoutAssumption DEF TypeOK, Range
<1>3. CASE m_timeout + ms < Range
  <2>1. Unsigned(m_timeout + ms) = m_timeout + ms /\ m_timeout + ms \in 0 .. Range - 1
    BY <1>2, <1>3, NoWrap
  <2>2. wait' = m_timeout + ms
    BY <1>1, <2>1, ThereAndBack DEF GetTriggerTimeout
  <2> QED
    BY <1>2, <1>3, <2>2 DEF Signed
<1>4. CASE m_timeout + ms >= Range
  <2> DEFINE rest == m_timeout + ms - Range
  <2>1. rest \in 0 .. HalfRange - 1 /\ m_timeout >= HalfRange
    BY <1>2, <1>4
  <2>2. (m_timeout + ms) % Range = rest
    BY <1>2, <2>1
  <2>3. wait' = Unsigned(Signed(rest)) /\ rest \in 0 .. Range - 1
    BY <1>1, <1>2, <2>1, <2>2 DEF GetTriggerTimeout, Unsigned
  <2>4. wait' = rest
    BY <2>3, ThereAndBack
  <2>5. Signed(m_timeout) + ms = rest
    BY <1>2, <2>1 DEF Signed
  <2> QED
    BY <2>1, <2>4, <2>5
<1> QED
  BY <1>2, <1>3, <1>4

\* Every step keeps the wait on top of the exposure.
LEMMA WaitStep == TypeOK /\ WaitOnTop /\ [Next]_mvars => WaitOnTop'
<1> SUFFICES ASSUME TypeOK, WaitOnTop, [Next]_mvars PROVE WaitOnTop'
    OBVIOUS
<1>1. ASSUME NEW t \in Timeouts, SetTimeout(t) PROVE WaitOnTop'
  BY <1>1 DEF SetTimeout, WaitOnTop
<1>2. ASSUME NEW us \in 0 .. MaxExposure, SetExpTime(us) PROVE WaitOnTop'
  BY <1>2 DEF SetExpTime, WaitOnTop
<1>3. ASSUME NEW on \in BOOLEAN, SetAutoExposure(on) PROVE WaitOnTop'
  BY <1>3 DEF SetAutoExposure, WaitOnTop
<1>4. CASE Adapt
  BY <1>4 DEF Adapt, WaitOnTop
<1>5. CASE PrepareAcq
  <2>1. PICK ms \in ExposureMs :
          LET sum == Signed(m_timeout) + ms
          IN  \/ sum >= 0 /\ wait' = sum
              \/ sum < 0 /\ wait' = sum + Range /\ wait' >= HalfRange
    BY <1>5, Wait
  <2>2. exposure \div PerMs \in 0 .. exposure
    BY Quotient DEF TypeOK
  <2>3. Signed(m_timeout) \in Int /\ Range \in Nat
    BY SignedInt, TimeoutAssumption DEF TypeOK, Ints, Range
  <2>4. wait' >= Signed(m_timeout) + (exposure \div PerMs) - 1
    BY <2>1, <2>2, <2>3, Milliseconds DEF TypeOK
  <2> QED
    BY <1>5, <2>4 DEF PrepareAcq, WaitOnTop
<1>6. CASE UNCHANGED mvars
  BY <1>6 DEF mvars, WaitOnTop
<1> QED
  BY <1>1, <1>2, <1>3, <1>4, <1>5, <1>6 DEF Next

\* The wait lasts for the timeout "on top of exposure time", for every int a
\* client may have set as timeout ...
THEOREM WaitCoversExposure == Spec => []WaitOnTop
<1>1. Init => WaitOnTop
  BY DEF Init, WaitOnTop
<1> QED
  BY <1>1, TypeCorrect, WaitStep, PTL DEF Spec

\* ... and ends in time, so that a stop is answered after timeout and
\* exposure, as long as the two together are not negative: it wraps around
\* for no other timeouts, and for those to half the range at least.
THEOREM WaitEndsInTime == Spec => WaitIsBounded
<1> DEFINE Bounded ==
             LET sum == Signed(m_timeout) + exposure \div PerMs
             IN  IF sum >= 1 THEN wait' <= sum ELSE wait' = 0 \/ wait' >= HalfRange
<1>1. TypeOK /\ PrepareAcq => Bounded
  <2> SUFFICES ASSUME TypeOK, PrepareAcq PROVE Bounded
      OBVIOUS
  <2>1. PICK ms \in ExposureMs :
          LET sum == Signed(m_timeout) + ms
          IN  \/ sum >= 0 /\ wait' = sum
              \/ sum < 0 /\ wait' = sum + Range /\ wait' >= HalfRange
    BY Wait
  <2>2. exposure \div PerMs \in 0 .. exposure
    BY Quotient DEF TypeOK
  <2>3. Signed(m_timeout) \in Int /\ Range \in Nat
    BY SignedInt, TimeoutAssumption DEF TypeOK, Ints, Range
  <2> QED
    BY <2>1, <2>2, <2>3, Milliseconds DEF TypeOK
<1> QED
  BY <1>1, TypeCorrect, PTL DEF WaitIsBounded
=============================================================================
