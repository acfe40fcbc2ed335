--------------------------- MODULE XimeaBinProofs ---------------------------
(***************************************************************************)
(* Theorems about XimeaBin, for every number of engines with every largest *)
(* factor.  The arithmetic of checkBin is that of powers of two, of which  *)
(* the prover knows only 2 ^ 0: here they are the numbers of subsets.      *)
(***************************************************************************)
EXTENDS XimeaBin, AccessLists, FiniteSetTheorems, WellFoundedInduction

-----------------------------------------------------------------------------
\* Least and largest elements.
LEMMA LeastExists ==
  ASSUME NEW S \in SUBSET Nat, S # {}
  PROVE  \E x \in S : \A y \in S : x <= y
<1> DEFINE less == {ss \in Nat \X Nat : ss[1] < ss[2]}
<1>1. IsWellFoundedOn(less, Nat)
  BY NatLessThanWellFounded, Zenon DEF OpToRel
<1> HIDE DEF less
<1>2. PICK x \in S : \A y \in S : ~(<<y, x>> \in less)
  BY <1>1, WFMin, Zenon
<1>3. \A y \in S : <<y, x>> \in less <=> y < x
  BY DEF less
<1>4. ASSUME NEW y \in S PROVE x <= y
  <2>1. x \in Nat /\ y \in Nat /\ ~(y < x)
    BY <1>2, <1>3
  <2> QED
    BY <2>1
<1> QED
  BY <1>4

\* A bounded set has a largest element: the least distance to the bound.
LEMMA LargestExists ==
  ASSUME NEW n \in Nat, NEW S \in SUBSET (0 .. n), S # {}
  PROVE  \E x \in S : \A y \in S : x >= y
<1> DEFINE T == {n - s : s \in S}
<1>1. T \in SUBSET Nat /\ T # {}
  <2>1. \A s \in S : n - s \in Nat
    OBVIOUS
  <2> QED
    BY <2>1
<1>2. PICK t \in T : \A u \in T : t <= u
  BY <1>1, LeastExists
<1>3. PICK x \in S : t = n - x
  OBVIOUS
<1>4. ASSUME NEW y \in S PROVE x >= y
  <2>1. t <= n - y
    BY <1>2
  <2> QED
    BY <1>3, <2>1
<1> QED
  BY <1>4

\* Max and Min of the exponents checkBin considers.
LEMMA Extrema ==
  ASSUME NEW n \in Nat, NEW S \in SUBSET (0 .. n), S # {}
  PROVE  /\ Max(S) \in S /\ \A y \in S : y <= Max(S)
         /\ Min(S) \in S /\ \A y \in S : Min(S) <= y
<1>1. PICK x \in S : \A y \in S : x >= y
  BY LargestExists
<1>2. Max(S) \in S /\ \A y \in S : Max(S) >= y
  BY <1>1, Zenon DEF Max
<1>3. PICK z \in S : \A y \in S : z <= y
  BY LeastExists
<1>4. Min(S) \in S /\ \A y \in S : Min(S) <= y
  BY <1>3, Zenon DEF Min
<1>5. \A x1, y1 \in 0 .. n : x1 >= y1 <=> y1 <= x1
  OBVIOUS
<1> QED
  BY <1>2, <1>4, <1>5

-----------------------------------------------------------------------------
\* A power of two is the number of subsets of so many things.
LEMMA PowerCounts ==
  ASSUME NEW n \in Nat
  PROVE  /\ IsFiniteSet(SUBSET (1 .. n)) /\ Cardinality(SUBSET (1 .. n)) = 2 ^ n
         /\ 2 ^ n \in Nat /\ Cardinality(1 .. n) = n
<1>1. IsFiniteSet(1 .. n) /\ Cardinality(1 .. n) = n
  BY FS_Interval
<1>2. IsFiniteSet(SUBSET (1 .. n)) /\ Cardinality(SUBSET (1 .. n)) = 2 ^ n
  BY <1>1, FS_SUBSET
<1> QED
  BY <1>1, <1>2, FS_CardinalityType

\* They grow with the exponent ...
LEMMA PowersGrow ==
  ASSUME NEW m \in Nat, NEW n \in Nat, m < n
  PROVE  2 ^ m < 2 ^ n
<1>1. SUBSET (1 .. m) \in SUBSET (SUBSET (1 .. n))
  OBVIOUS
<1>2. SUBSET (1 .. m) # SUBSET (1 .. n)
  <2>1. {n} \in SUBSET (1 .. n) /\ {n} \notin SUBSET (1 .. m)
    OBVIOUS
  <2> QED
    BY <2>1
<1>3. /\ IsFiniteSet(SUBSET (1 .. n))
      /\ Cardinality(SUBSET (1 .. m)) = 2 ^ m /\ Cardinality(SUBSET (1 .. n)) = 2 ^ n
      /\ 2 ^ m \in Nat /\ 2 ^ n \in Nat
  BY PowerCounts
<1>4. /\ Cardinality(SUBSET (1 .. m)) <= Cardinality(SUBSET (1 .. n))
      /\ Cardinality(SUBSET (1 .. n)) # Cardinality(SUBSET (1 .. m))
  BY <1>1, <1>2, <1>3, FS_Subset, Zenon
<1> QED
  BY <1>3, <1>4

-----------------------------------------------------------------------------
\* The largest exponent of an engine's factor.
LEMMA LogBounds ==
  ASSUME NEW n \in Nat \ {0}
  PROVE  /\ Log2(n) \in Nat /\ 2 ^ Log2(n) <= n
<1> DEFINE fit == {e \in 0 .. n : 2 ^ e <= n}
<1>1. 0 \in fit
  BY PowerCounts
<1>2. fit \in SUBSET (0 .. n) /\ fit # {}
  BY <1>1
<1> HIDE DEF fit
<1>3. Max(fit) \in fit /\ \A e \in fit : e <= Max(fit)
  BY <1>2, Extrema
<1>4. Max(fit) \in 0 .. n /\ 2 ^ Max(fit) <= n
  BY <1>3 DEF fit
<1>5. Log2(n) = Max(fit)
  BY DEF Log2, fit
<1> QED
  BY <1>4, <1>5

\* A power of two leaves no remainder of itself, and of a smaller one all.
LEMMA PowerRemainders ==
  /\ \A n \in Nat : n % (2 ^ 0) = 0
  /\ \A e \in Nat : 2 ^ e \in Nat \ {0} /\ (2 ^ e) % (2 ^ e) = 0
  /\ \A d, e \in Nat : d < e => (2 ^ d) % (2 ^ e) # 0
<1>1. \A n \in Nat : n % (2 ^ 0) = 0
  OBVIOUS
<1>2. ASSUME NEW e \in Nat PROVE 2 ^ e \in Nat \ {0}
  <2>1. CASE e = 0
    BY <2>1
  <2>2. CASE e # 0
    <3>1. 0 \in Nat /\ 0 < e /\ 2 ^ 0 = 1
      BY <2>2
    <3>2. 2 ^ 0 < 2 ^ e /\ 2 ^ e \in Nat
      BY <3>1, PowersGrow, PowerCounts, Zenon
    <3> QED
      BY <3>1, <3>2
  <2> QED
    BY <2>1, <2>2
<1>3. \A k \in Nat \ {0} : k % k = 0
  OBVIOUS
<1>4. \A j, k \in Nat \ {0} : j < k => j % k # 0
  OBVIOUS
<1> QED
  BY <1>1, <1>2, <1>3, <1>4, PowersGrow

\* What checkBin returns is a factor the selected engine does ...
LEMMA SupportedIsDone ==
  ASSUME engine \in Engines, NEW a \in Axis, NEW n \in Nat
  PROVE  Supported(n, a) \in 1 .. BinMax[engine][a]
<1> DEFINE top == Log2(BinMax[engine][a])
           fit == {e \in Tried(a) : n % (2 ^ e) = 0}
           best == IF fit # {} THEN Max(fit) ELSE Min(Tried(a))
<1>1. BinMax[engine][a] \in Nat \ {0} /\ BinInc[a] \in Nat \ {0}
  BY BinAssumption
<1>2. top \in Nat /\ 2 ^ top <= BinMax[engine][a]
  BY <1>1, LogBounds
<1>3. Tried(a) \in SUBSET (0 .. top) /\ top \in Tried(a)
  BY <1>1, <1>2 DEF Tried
<1>4. best \in 0 .. top
  <2>1. CASE fit # {}
    <3>1. fit \in SUBSET (0 .. top)
      BY <1>3
    <3> QED
      BY <1>2, <2>1, <3>1, Extrema
  <2>2. CASE fit = {}
    BY <1>2, <1>3, <2>2, Extrema
  <2> QED
    BY <2>1, <2>2
<1>5. Supported(n, a) = 2 ^ best
  BY DEF Supported
<1> HIDE DEF top, best
<1>6. 2 ^ best <= 2 ^ top /\ 2 ^ best \in Nat \ {0} /\ 2 ^ top \in Nat
  BY <1>2, <1>4, PowersGrow, PowerRemainders
<1> QED
  BY <1>1, <1>2, <1>5, <1>6

\* ... and, when a factor of one is among those it tries, the largest of
\* these that divides the request.
LEMMA SupportedIsLargest ==
  ASSUME engine \in Engines, NEW a \in Axis, NEW n \in Nat, 0 \in Tried(a)
  PROVE  \E m \in Tried(a) :
           /\ Supported(n, a) = 2 ^ m /\ n % (2 ^ m) = 0
           /\ \A e \in Tried(a) : n % (2 ^ e) = 0 => e <= m
<1> DEFINE top == Log2(BinMax[engine][a])
           fit == {e \in Tried(a) : n % (2 ^ e) = 0}
<1>1. top \in Nat
  BY BinAssumption, LogBounds
<1>2. fit \in SUBSET (0 .. top)
  BY DEF Tried
<1>3. 0 \in fit
  BY PowerRemainders
<1>4. Max(fit) \in fit /\ \A e \in fit : e <= Max(fit)
  BY <1>1, <1>2, <1>3, Extrema
<1>5. Supported(n, a) = 2 ^ Max(fit)
  BY <1>3 DEF Supported
<1> QED
  BY <1>4, <1>5, Zenon

\* So a check of what has been checked changes nothing.
LEMMA SupportedAgain ==
  ASSUME engine \in Engines, NEW a \in Axis, 0 \in Tried(a), NEW m \in Tried(a)
  PROVE  Supported(2 ^ m, a) = 2 ^ m
<1>1. Tried(a) \in SUBSET Nat
  BY DEF Tried
<1>2. 2 ^ m \in Nat /\ (2 ^ m) % (2 ^ m) = 0
  BY <1>1, PowerRemainders
<1>3. PICK k \in Tried(a) :
        /\ Supported(2 ^ m, a) = 2 ^ k /\ (2 ^ m) % (2 ^ k) = 0
        /\ \A e \in Tried(a) : (2 ^ m) % (2 ^ e) = 0 => e <= k
  BY <1>2, SupportedIsLargest
<1>4. ~(m < k) /\ m <= k
  BY <1>1, <1>2, <1>3, PowerRemainders
<1>5. m = k
  BY <1>1, <1>4
<1> QED
  BY <1>3, <1>5

\* A factor of one is tried when the exponents go down to zero.
LEMMA TriedExponents ==
  ASSUME engine \in Engines, NEW a \in Axis, Log2(BinMax[engine][a]) % BinInc[a] = 0
  PROVE  0 \in Tried(a)
<1> DEFINE top == Log2(BinMax[engine][a])
<1>1. top \in Nat
  BY BinAssumption, LogBounds
<1> HIDE DEF top
<1>2. Tried(a) = {e \in 0 .. top : (top - e) % BinInc[a] = 0}
  BY DEF Tried, top
<1>3. 0 \in 0 .. top /\ top - 0 = top
  BY <1>1
<1> QED
  BY <1>2, <1>3 DEF top

-----------------------------------------------------------------------------
\* What SetBin has written of the engine when it is at place k of its list.
Written(k) ==
  /\ k > 1 => mode[engine]["x"] = "sum"
  /\ k > 2 => mode[engine]["y"] = "sum"
  /\ k > 3 => factor[engine]["x"] = checked["x"]

\* The type of the state, and that every engine's factor is one it does.
Typed ==
  /\ engine \in Engines
  /\ factor \in [Engines -> [Axis -> Nat]]
  /\ mode \in [Engines -> [Axis -> {"average", "sum"}]]
  /\ \A e \in Engines, a \in Axis : factor[e][a] \in 1 .. BinMax[e][a]
  /\ checked \in [Axis -> Nat \ {0}] /\ asked \in Requests
  /\ \A a \in Axis : \E e \in Engines : checked[a] \in 1 .. BinMax[e][a]
  /\ outcome \in {"none", "checked", "ok", "error"}

Writing ==
  todo # <<>> =>
    /\ outcome = "none"
    /\ \E k \in 1 .. 4 : /\ todo = From(SetBinWrites, k)
                         /\ ~Overlap => Written(k)

Results ==
  /\ outcome = "checked" => checked = [a \in Axis |-> Supported(asked[a], a)]
  /\ ~Overlap => SetBinIsExact /\ SumModeOnly

BinInv == Typed /\ Writing /\ Results

\* What is at which place of the list.
LEMMA WritePlaces ==
  /\ Places(SetBinWrites, 4) /\ From(SetBinWrites, 5) = <<>>
  /\ SetBinWrites[1] = <<"mode", "x">> /\ SetBinWrites[2] = <<"mode", "y">>
  /\ SetBinWrites[3] = <<"factor", "x">> /\ SetBinWrites[4] = <<"factor", "y">>
<1> DEFINE W == {<<"mode", "x">>, <<"mode", "y">>, <<"factor", "x">>, <<"factor", "y">>}
<1>1. SetBinWrites \in Seq(W) /\ Len(SetBinWrites) = 4 /\ 4 \in Nat
  BY DEF SetBinWrites
<1> HIDE DEF W
<1>2. Places(SetBinWrites, 4)
  BY <1>1, ListFrom, Zenon
<1>3. From(SetBinWrites, 5) = <<>>
  BY <1>2 DEF Places
<1> QED
  BY <1>2, <1>3 DEF SetBinWrites

\* The initial states.
LEMMA InitialBin == Init => BinInv
<1> SUFFICES ASSUME Init PROVE BinInv
  OBVIOUS
<1>1. 1 \in 1 .. MaxRequest /\ \A e \in Engines, a \in Axis : 1 \in 1 .. BinMax[e][a]
  BY BinAssumption
<1>2. Typed
  BY <1>1 DEF Init, Typed, None, Requests
<1>3. Writing /\ Results
  BY DEF Init, Writing, Results, None, SetBinIsExact, SumModeOnly
<1> QED
  BY <1>2, <1>3 DEF BinInv

\* What checkBin returns is a factor the selected engine does.
LEMMA CheckBinKeeps ==
  ASSUME BinInv, NEW bin \in Requests, CheckBin(bin)
  PROVE  BinInv'
<1>1. \A a \in Axis : Supported(bin[a], a) \in 1 .. BinMax[engine][a]
  BY SupportedIsDone, BinAssumption DEF BinInv, Typed, Requests
<1>2. Typed'
  <2>1. checked' \in [Axis -> Nat \ {0}]
    BY <1>1, BinAssumption DEF CheckBin, BinInv, Typed
  <2>2. \A a \in Axis : \E e \in Engines : checked'[a] \in 1 .. BinMax[e][a]
    BY <1>1 DEF CheckBin, BinInv, Typed
  <2> QED
    BY <2>1, <2>2 DEF CheckBin, BinInv, Typed, device
<1>3. Writing'
  BY DEF CheckBin, Writing
<1>4. Results'
  <2>1. \A n, a : Supported(n, a)' = Supported(n, a)
    BY DEF CheckBin, Supported, Tried, device
  <2> QED
    BY <2>1 DEF CheckBin, BinInv, Results, SetBinIsExact, SumModeOnly, device
<1> QED
  BY <1>2, <1>3, <1>4 DEF BinInv

\* setBin begins at its first write.
LEMMA SetBinKeeps ==
  ASSUME BinInv, SetBin
  PROVE  BinInv'
<1>1. Typed'
  BY DEF SetBin, BinInv, Typed, device
<1>2. Writing'
  BY WritePlaces DEF SetBin, Writing, Written, Places, SetBinWrites
<1>3. Results'
  BY DEF SetBin, BinInv, Results, SetBinIsExact, SumModeOnly, device
<1> QED
  BY <1>1, <1>2, <1>3 DEF BinInv

\* A write goes to the engine that is selected, and is one it accepts.
LEMMA WriteBinKeeps ==
  ASSUME BinInv, WriteBin
  PROVE  BinInv'
<1>1. PICK k \in 1 .. 4 : todo = From(SetBinWrites, k) /\ (~Overlap => Written(k))
  BY DEF BinInv, Writing, WriteBin
<1> DEFINE w == SetBinWrites[k]
<1>2. Head(todo) = w /\ todo' = From(SetBinWrites, k + 1)
  BY <1>1, WritePlaces DEF WriteBin, Places
<1>3. /\ factor' = IF w[1] = "factor"
                   THEN [factor EXCEPT ![engine][w[2]] = checked[w[2]]] ELSE factor
      /\ mode' = IF w[1] = "mode"
                 THEN [mode EXCEPT ![engine][w[2]] = "sum"] ELSE mode
      /\ w[1] = "factor" => checked[w[2]] <= BinMax[engine][w[2]]
      /\ UNCHANGED <<engine, checked, asked>>
  BY <1>2 DEF WriteBin, Accepts
<1>4. outcome' = IF k = 4 THEN "ok" ELSE "none"
  <2>1. outcome = "none"
    BY DEF WriteBin, BinInv, Writing
  <2>2. todo' = <<>> <=> k = 4
    <3>1. CASE k = 4
      BY <1>2, <3>1, WritePlaces
    <3>2. CASE k # 4
      <4>1. k + 1 \in 1 .. 4
        BY <3>2
      <4> QED
        BY <1>2, <3>2, <4>1, WritePlaces, Zenon DEF Places
    <3> QED
      BY <3>1, <3>2
  <2> QED
    BY <2>1, <2>2 DEF WriteBin
<1>5. w \in {<<"mode", "x">>, <<"mode", "y">>, <<"factor", "x">>, <<"factor", "y">>}
  <2>1. k = 1 \/ k = 2 \/ k = 3 \/ k = 4
    OBVIOUS
  <2> QED
    BY <2>1, WritePlaces, Zenon
<1>6. engine \in Engines /\ \A a \in Axis : BinMax[engine][a] \in Nat
  BY BinAssumption DEF BinInv, Typed
<1>7. Typed'
  <2>1. /\ factor' \in [Engines -> [Axis -> Nat]]
        /\ mode' \in [Engines -> [Axis -> {"average", "sum"}]]
    BY <1>3, <1>5 DEF BinInv, Typed, Axis
  <2>2. \A e \in Engines, a \in Axis : factor'[e][a] \in 1 .. BinMax[e][a]
    <3>1. CASE w[1] = "mode"
      BY <1>3, <3>1 DEF BinInv, Typed
    <3>2. CASE w[1] = "factor"
      <4>1. w[2] \in Axis /\ checked[w[2]] \in 1 .. BinMax[engine][w[2]]
        BY <1>3, <1>5, <1>6, <3>2 DEF BinInv, Typed, Axis
      <4> QED
        BY <1>3, <1>6, <3>2, <4>1 DEF BinInv, Typed
    <3> QED
      BY <1>5, <3>1, <3>2
  <2> QED
    BY <1>3, <1>4, <2>1, <2>2 DEF BinInv, Typed
<1>8. ~Overlap => /\ k < 4 => Written(k + 1)'
                  /\ k = 4 => factor'[engine] = checked
                  /\ SumModeOnly'
  <2> SUFFICES ASSUME ~Overlap
               PROVE  /\ k < 4 => Written(k + 1)'
                      /\ k = 4 => factor'[engine] = checked
                      /\ SumModeOnly'
    OBVIOUS
  <2>1. Typed /\ SumModeOnly /\ Written(k)
    BY <1>1 DEF BinInv, Results
  <2>2. CASE k = 1
    <3>1. factor' = factor /\ mode' = [mode EXCEPT ![engine]["x"] = "sum"]
      BY <1>3, <2>2, WritePlaces
    <3> QED
      BY <1>3, <1>6, <2>1, <2>2, <3>1 DEF Typed, Written, SumModeOnly, Axis
  <2>3. CASE k = 2
    <3>1. factor' = factor /\ mode' = [mode EXCEPT ![engine]["y"] = "sum"]
      BY <1>3, <2>3, WritePlaces
    <3> QED
      BY <1>3, <1>6, <2>1, <2>3, <3>1 DEF Typed, Written, SumModeOnly, Axis
  <2>4. CASE k = 3
    <3>1. mode' = mode /\ factor' = [factor EXCEPT ![engine]["x"] = checked["x"]]
      BY <1>3, <2>4, WritePlaces
    <3> QED
      BY <1>3, <1>6, <2>1, <2>4, <3>1 DEF Typed, Written, SumModeOnly, Axis
  <2>5. CASE k = 4
    <3>1. mode' = mode /\ factor' = [factor EXCEPT ![engine]["y"] = checked["y"]]
      BY <1>3, <2>5, WritePlaces
    <3>2. factor'[engine] = checked
      BY <1>6, <2>1, <2>5, <3>1 DEF Typed, Written, Axis
    <3> QED
      BY <1>3, <1>6, <2>1, <2>5, <3>1, <3>2 DEF Typed, Written, SumModeOnly, Axis
  <2> QED
    BY <2>2, <2>3, <2>4, <2>5
<1>9. Writing'
  <2>1. CASE k = 4
    BY <1>2, <2>1, WritePlaces DEF Writing
  <2>2. CASE k # 4
    <3>1. k + 1 \in 1 .. 4 /\ k < 4
      BY <2>2
    <3> QED
      BY <1>2, <1>4, <1>8, <2>2, <3>1 DEF Writing, SetBinWrites
  <2> QED
    BY <2>1, <2>2
<1>10. Results'
  BY <1>3, <1>4, <1>8 DEF Results, SetBinIsExact
<1> QED
  BY <1>7, <1>9, <1>10 DEF BinInv

\* A setBin that fails leaves what it has written, in sum mode.
LEMMA WriteFailsKeeps ==
  ASSUME BinInv, WriteFails
  PROVE  BinInv'
BY DEF WriteFails, BinInv, Typed, Writing, Results, SetBinIsExact, SumModeOnly, device

\* Selecting another engine leaves the factors and modes of all.
LEMMA SetBinningEngineKeeps ==
  ASSUME BinInv, NEW e \in Engines, SetBinningEngine(e)
  PROVE  BinInv'
<1>1. Typed'
  BY DEF SetBinningEngine, BinInv, Typed
<1>2. Writing'
  BY DEF SetBinningEngine, BinInv, Writing, SetBinWrites
<1>3. Results'
  BY DEF SetBinningEngine, BinInv, Results, SetBinIsExact, SumModeOnly
<1> QED
  BY <1>1, <1>2, <1>3 DEF BinInv

-----------------------------------------------------------------------------
\* The invariant, step by step.
LEMMA BinInductive == BinInv /\ [Next]_bvars => BinInv'
<1> SUFFICES ASSUME BinInv, [Next]_bvars PROVE BinInv'
  OBVIOUS
<1>1. ASSUME NEW bin \in Requests, CheckBin(bin) PROVE BinInv'
  BY <1>1, CheckBinKeeps
<1>2. CASE SetBin
  BY <1>2, SetBinKeeps
<1>3. CASE WriteBin
  BY <1>3, WriteBinKeeps
<1>4. CASE WriteFails
  BY <1>4, WriteFailsKeeps
<1>5. ASSUME NEW e \in Engines \ {engine}, SetBinningEngine(e) PROVE BinInv'
  BY <1>5, SetBinningEngineKeeps
<1>6. CASE UNCHANGED bvars
  <2>1. \A n, a : Supported(n, a)' = Supported(n, a)
    BY <1>6 DEF bvars, device, Supported, Tried
  <2>2. Typed' /\ Writing'
    BY <1>6 DEF bvars, device, BinInv, Typed, Writing, Written, SetBinWrites
  <2>3. Results'
    BY <1>6, <2>1 DEF bvars, device, BinInv, Results, SetBinIsExact, SumModeOnly
  <2> QED
    BY <2>2, <2>3 DEF BinInv
<1> QED
  BY <1>1, <1>2, <1>3, <1>4, <1>5, <1>6 DEF Next

\* So it holds in every state.
LEMMA BinAlways == Spec => []BinInv
BY InitialBin, BinInductive, PTL DEF Spec

\* The variables keep their types; every engine's factor is one it does.
THEOREM TypeCorrect == Spec => []TypeOK
<1>1. BinInv => TypeOK
  <2> SUFFICES ASSUME BinInv PROVE TypeOK
    OBVIOUS
  <2>1. Len(todo) <= 4
    <3>1. CASE todo = <<>>
      BY <3>1
    <3>2. CASE todo # <<>>
      <4>1. PICK k \in 1 .. 4 : todo = From(SetBinWrites, k)
        BY <3>2 DEF BinInv, Writing
      <4>2. \A j \in 1 .. 4 : Len(From(SetBinWrites, j)) \in 1 .. 4
        BY WritePlaces DEF Places
      <4>3. \A n \in 1 .. 4 : n <= 4
        OBVIOUS
      <4> QED
        BY <4>1, <4>2, <4>3, Zenon
    <3> QED
      BY <3>1, <3>2
  <2> QED
    BY <2>1 DEF BinInv, Typed, TypeOK
<1> QED
  BY <1>1, BinAlways, PTL

\* What checkBin returns divides the request, and returns for itself, on every
\* axis where the exponents of the engine go down to zero by their increment.
THEOREM CheckedBinDivides == Spec => []BinDivides
<1>1. BinInv => BinDivides
  <2> SUFFICES ASSUME BinInv, outcome = "checked", NEW a \in Axis,
                      Log2(BinMax[engine][a]) % BinInc[a] = 0
               PROVE  /\ asked[a] % checked[a] = 0
                      /\ Supported(checked[a], a) = checked[a]
    BY DEF BinDivides
  <2>1. asked[a] \in Nat /\ engine \in Engines /\ checked[a] = Supported(asked[a], a)
    BY BinAssumption DEF BinInv, Typed, Results, Requests
  <2>2. 0 \in Tried(a)
    BY <2>1, TriedExponents
  <2>3. PICK m \in Tried(a) : checked[a] = 2 ^ m /\ asked[a] % (2 ^ m) = 0
    BY <2>1, <2>2, SupportedIsLargest
  <2> QED
    BY <2>1, <2>2, <2>3, SupportedAgain
<1> QED
  BY <1>1, BinAlways, PTL

\* A setBin that returns has set what was checked, unless another thread
\* selects an engine while it writes.
THEOREM SetBinsAreExact ==
  ASSUME ~Overlap
  PROVE  Spec => []SetBinIsExact
<1>1. BinInv => SetBinIsExact
  BY DEF BinInv, Results
<1> QED
  BY <1>1, BinAlways, PTL

\* Under the same hypothesis no engine ever averages.
THEOREM PixelsAreSummed ==
  ASSUME ~Overlap
  PROVE  Spec => []SumModeOnly
<1>1. BinInv => SumModeOnly
  BY DEF BinInv, Results
<1> QED
  BY <1>1, BinAlways, PTL
=============================================================================
