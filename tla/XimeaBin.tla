------------------------------ MODULE XimeaBin ------------------------------
(***************************************************************************)
(* Hardware binning: Camera::checkBin, which finds the binning the camera  *)
(* does for the one a client asks for, and setBin, which writes it, both   *)
(* as Lima reaches them through BinCtrlObj.  Lima calls checkBin, takes    *)
(* its result, and sets that.                                              *)
(*                                                                         *)
(* A camera has several binning engines, each with factors, modes and      *)
(* limits of its own; all the accesses go to the engine that the attribute *)
(* binning_engine has selected.                                            *)
(***************************************************************************)
EXTENDS Integers, Sequences, FiniteSetsExt

CONSTANTS
  BinMax,       \* per engine and axis: the largest factor
  BinInc,       \* per axis: the increment of the factor
  MaxRequest,   \* bound: the largest binning a client asks for
  WritesFail,   \* may a parameter write fail?
  Overlap       \* may an engine be selected while setBin is under way?

Axis == {"x", "y"}

Engines == DOMAIN BinMax

ASSUME BinAssumption ==
  /\ Engines # {}
  /\ \A e \in Engines, a \in Axis : BinMax[e][a] \in Nat \ {0}
  /\ \A a \in Axis : BinInc[a] \in Nat \ {0}
  /\ MaxRequest \in Nat \ {0}
  /\ WritesFail \in BOOLEAN /\ Overlap \in BOOLEAN

VARIABLES
  engine,     \* the device: XI_PRM_BINNING_SELECTOR,
  factor,     \* and per engine and axis, the factor
  mode,       \* and how pixels are joined, "sum" or "average"
  todo,       \* the writes setBin has still to do
  checked,    \* the binning Lima holds, the last result of checkBin
  asked,      \* what that checkBin was asked for
  outcome     \* how the last operation ended

device == <<engine, factor, mode>>
bvars  == <<device, todo, checked, asked, outcome>>

-----------------------------------------------------------------------------
\* log2l, truncated
Log2_RoundedUp(n) == Min({e \in 0 .. n : 2 ^ e >= n})

Log2(n) == Max({e \in 0 .. n : 2 ^ e <= n})

\* The exponents checkBin tries, from the largest down by the increment.
Tried(a) == LET top == Log2(BinMax[engine][a])
            IN  {e \in 0 .. top : (top - e) % BinInc[a] = 0}

\* The first tried power of two that divides the request, or the last tried.
Supported_Nearest(n, a) ==
  LET fit == {e \in Tried(a) : 2 ^ e <= n}
  IN  2 ^ (IF fit # {} THEN Max(fit) ELSE Min(Tried(a)))

Supported(n, a) ==
  LET fit == {e \in Tried(a) : n % (2 ^ e) = 0}
  IN  2 ^ (IF fit # {} THEN Max(fit) ELSE Min(Tried(a)))

Requests == [Axis -> 1 .. MaxRequest]

None == [a \in Axis |-> 1]

Init ==
  /\ engine \in Engines
  /\ factor = [e \in Engines |-> None]
  /\ mode = [e \in Engines |-> [a \in Axis |-> "average"]]
  /\ todo = <<>>
  /\ checked = None /\ asked = None
  /\ outcome = "none"

CheckBin(bin) ==
  /\ todo = <<>>
  /\ asked' = bin
  /\ checked' = [a \in Axis |-> Supported(bin[a], a)]
  /\ outcome' = "checked"
  /\ UNCHANGED <<device, todo>>

\* "only sum mode is supported by Lima"
SetBinWrites_ModesLast ==
  <<<<"factor", "x">>, <<"factor", "y">>, <<"mode", "x">>, <<"mode", "y">>>>

SetBinWrites_OneAxis == <<<<"mode", "x">>, <<"mode", "y">>, <<"factor", "x">>>>

SetBinWrites ==
  <<<<"mode", "x">>, <<"mode", "y">>, <<"factor", "x">>, <<"factor", "y">>>>

SetBin ==
  /\ todo = <<>>
  /\ todo' = SetBinWrites
  /\ outcome' = "none"
  /\ UNCHANGED <<device, checked, asked>>

\* The device refuses a factor its engine does not do.
Accepts(w) == w[1] = "factor" => checked[w[2]] <= BinMax[engine][w[2]]

WriteBin ==
  /\ todo # <<>> /\ Accepts(Head(todo))
  /\ LET w == Head(todo)
     IN  /\ factor' = IF w[1] = "factor"
                      THEN [factor EXCEPT ![engine][w[2]] = checked[w[2]]] ELSE factor
         /\ mode'   = IF w[1] = "mode"
                      THEN [mode EXCEPT ![engine][w[2]] = "sum"] ELSE mode
  /\ todo' = Tail(todo)
  /\ outcome' = IF todo' = <<>> THEN "ok" ELSE outcome
  /\ UNCHANGED <<engine, checked, asked>>

WriteFails ==
  /\ todo # <<>>
  /\ WritesFail \/ ~Accepts(Head(todo))
  /\ todo' = <<>>
  /\ outcome' = "error"
  /\ UNCHANGED <<device, checked, asked>>

\* The attribute binning_engine of the Ximea Tango device.
SetBinningEngine(e) ==
  /\ todo = <<>> \/ Overlap
  /\ engine' = e
  /\ outcome' = "none"
  /\ UNCHANGED <<factor, mode, todo, checked, asked>>

Next ==
  \/ \E bin \in Requests : CheckBin(bin)
  \/ SetBin \/ WriteBin \/ WriteFails
  \/ \E e \in Engines \ {engine} : SetBinningEngine(e)

Spec == Init /\ [][Next]_bvars

-----------------------------------------------------------------------------
TypeOK ==
  /\ engine \in Engines
  /\ \A e \in Engines, a \in Axis :
       factor[e][a] \in 1 .. BinMax[e][a] /\ mode[e][a] \in {"average", "sum"}
  /\ \A a \in Axis : \E e \in Engines : checked[a] \in 1 .. BinMax[e][a]
  /\ Len(todo) <= 4
  /\ asked \in Requests
  /\ outcome \in {"none", "checked", "ok", "error"}

\* The binning Lima is told is one that can be completed in software to the
\* one asked for, and asking for it again changes nothing: Lima checks what
\* it has already checked.  The exponents are stepped through by an increment
\* meant for factors; where they do not come down to zero, checkBin may end
\* with a factor that does not divide the request.
BinDivides ==
  outcome = "checked" =>
    \A a \in Axis :
      Log2(BinMax[engine][a]) % BinInc[a] = 0 =>
        /\ asked[a] % checked[a] = 0
        /\ Supported(checked[a], a) = checked[a]

\* A setBin that returns leaves both axes of the engine as checked, whatever
\* an earlier one that failed between two writes has left, and also when the
\* engine has been changed since the check.
SetBinIsExact == outcome = "ok" => factor[engine] = checked

\* Pixels are never averaged, on no engine and at no moment, not even when a
\* setBin fails half-way: "only sum mode is supported by Lima".
SumModeOnly ==
  \A e \in Engines, a \in Axis : factor[e][a] > 1 => mode[e][a] = "sum"
=============================================================================
