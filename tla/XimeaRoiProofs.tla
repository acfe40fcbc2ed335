--------------------------- MODULE XimeaRoiProofs ---------------------------
(***************************************************************************)
(* Lemmas about the region registers, for sensors of every size and with   *)
(* every minimum and increment that nest as RoiAssumption says: what       *)
(* checkRoi computes, that it is a fixed point of itself, and that an      *)
(* operation keeps RegionInv at each of its accesses.  The theorems about  *)
(* the specification are in XimeaFrameProofs, as Lima decides when the     *)
(* operations are called.                                                  *)
(***************************************************************************)
EXTENDS XimeaRoi, AccessLists

-----------------------------------------------------------------------------
\* Arithmetic of increments.
LEMMA Division ==
  ASSUME NEW n \in Nat, NEW inc \in Nat \ {0}
  PROVE  /\ n \div inc \in Nat
         /\ n % inc \in 0 .. inc - 1
         /\ n = (n \div inc) * inc + (n % inc)
OBVIOUS

\* What is made of increments is aligned to them.
LEMMA Multiple ==
  ASSUME NEW k \in Nat, NEW inc \in Nat \ {0}
  PROVE  (k * inc) % inc = 0
OBVIOUS

\* Rounding down loses less than an increment, and nothing of what is aligned.
LEMMA FloorRounds ==
  ASSUME NEW n \in Nat, NEW inc \in Nat \ {0}
  PROVE  /\ Floor(n, inc) \in Nat
         /\ Floor(n, inc) <= n /\ n < Floor(n, inc) + inc
         /\ n - Floor(n, inc) \in Nat
         /\ Floor(n, inc) % inc = 0
         /\ n % inc = 0 => Floor(n, inc) = n
<1>1. /\ n \div inc \in Nat
      /\ n % inc \in 0 .. inc - 1
      /\ n = (n \div inc) * inc + (n % inc)
  BY Division
<1>2. Floor(n, inc) % inc = 0
  BY <1>1, Multiple DEF Floor
<1> QED
  BY <1>1, <1>2 DEF Floor

\* Differences and multiples of aligned numbers are aligned.
LEMMA Difference ==
  ASSUME NEW m \in Nat, NEW n \in Nat, NEW inc \in Nat \ {0},
         m % inc = 0, n % inc = 0, n <= m
  PROVE  (m - n) % inc = 0
<1>1. /\ m = (m \div inc) * inc /\ n = (n \div inc) * inc
      /\ m \div inc \in Nat /\ n \div inc \in Nat
  BY Division
<1>2. m - n = (m \div inc - n \div inc) * inc
  BY <1>1
<1>3. m \div inc - n \div inc \in Nat
  BY <1>1
<1> QED
  BY <1>2, <1>3, Multiple

\* What is aligned to an increment is aligned to the ones that nest in it.
LEMMA Nested ==
  ASSUME NEW n \in Nat, NEW big \in Nat \ {0}, NEW inc \in Nat \ {0},
         n % big = 0, big % inc = 0
  PROVE  n % inc = 0
<1>1. /\ n = (n \div big) * big /\ big = (big \div inc) * inc
      /\ n \div big \in Nat /\ big \div inc \in Nat
  BY Division
<1>2. n = ((n \div big) * (big \div inc)) * inc
  BY <1>1
<1>3. (n \div big) * (big \div inc) \in Nat
  BY <1>1
<1> QED
  BY <1>2, <1>3, Multiple

\* Rounding up adds less than an increment, and nothing to what is aligned.
LEMMA CeilingRounds ==
  ASSUME NEW n \in Nat, NEW inc \in Nat \ {0}
  PROVE  /\ Ceiling(n, inc) \in Nat
         /\ n <= Ceiling(n, inc)
         /\ Ceiling(n, inc) % inc = 0
         /\ n % inc = 0 => Ceiling(n, inc) = n
<1>1. n + inc - 1 \in Nat
  OBVIOUS
<1>2. /\ Ceiling(n, inc) \in Nat /\ Ceiling(n, inc) % inc = 0
      /\ Ceiling(n, inc) <= n + inc - 1
      /\ n + inc - 1 < Ceiling(n, inc) + inc
  BY <1>1, FloorRounds DEF Ceiling
<1>3. ASSUME n % inc = 0 PROVE Ceiling(n, inc) = n
  <2>1. (Ceiling(n, inc) - n) % inc = 0
    BY <1>2, <1>3, Difference
  <2>2. Ceiling(n, inc) - n \in 0 .. inc - 1
    BY <1>2
  <2> QED
    BY <1>2, <2>1, <2>2
<1> QED
  BY <1>2, <1>3

-----------------------------------------------------------------------------
\* What the device accepts as a size, and as an offset for a size.
GoodSize(a, s) == s \in MinSize[a] .. Sensor[a] /\ s % SizeInc[a] = 0

GoodOffset(a, o, s) == o \in 0 .. Sensor[a] - s /\ o % OffsetInc[a] = 0

\* The regions checkRoi returns.
GoodRegion(r) ==
  /\ r \in Regions
  /\ \A a \in Axis : /\ GoodSize(a, r[a].size) /\ r[a].size >= 32
                     /\ GoodOffset(a, r[a].offset, r[a].size)

\* The constants on one axis.
LEMMA Constant ==
  ASSUME NEW a \in Axis
  PROVE  /\ Sensor[a] \in Nat \ {0} /\ MinSize[a] \in Nat \ {0}
         /\ SizeInc[a] \in Nat \ {0} /\ OffsetInc[a] \in Nat \ {0}
         /\ Sensor[a] % SizeInc[a] = 0 /\ MinSize[a] % SizeInc[a] = 0
         /\ SizeInc[a] % OffsetInc[a] = 0
         /\ MinSize[a] <= Sensor[a] /\ 32 <= Sensor[a]
BY RoiAssumption

\* The largest offset reaches the edge: nothing is lost to its increment.
LEMMA OffsetToEdge ==
  ASSUME NEW a \in Axis, NEW s, GoodSize(a, s)
  PROVE  /\ s \in Nat \ {0} /\ Sensor[a] - s \in Nat
         /\ OffsetMax(a, s) = Sensor[a] - s
         /\ (Sensor[a] - s) % OffsetInc[a] = 0
<1>1. s \in Nat \ {0} /\ s <= Sensor[a] /\ Sensor[a] - s \in Nat
  BY Constant DEF GoodSize
<1>2. (Sensor[a] - s) % SizeInc[a] = 0
  BY <1>1, Constant, Difference DEF GoodSize
<1>3. (Sensor[a] - s) % OffsetInc[a] = 0
  BY <1>1, <1>2, Constant, Nested
<1> QED
  BY <1>1, <1>3, Constant, FloorRounds DEF OffsetMax

\* The full frame is a region that may be announced, and some region.
LEMMA FullIsGood == GoodRegion(Full) /\ Full # Zero
<1>1. ASSUME NEW a \in Axis
      PROVE  /\ GoodSize(a, Sensor[a]) /\ GoodOffset(a, 0, Sensor[a])
             /\ Sensor[a] \in Nat /\ Sensor[a] >= 32
  BY Constant DEF GoodSize, GoodOffset
<1>2. Full["x"].size # Zero["x"].size
  BY Constant DEF Full, Zero, Axis
<1> QED
  BY <1>1, <1>2 DEF GoodRegion, Full, Regions

\* The size checkRoi writes is one the device accepts, and covers what is
\* asked from the rounded offset on, unless the sensor ends before.
LEMMA FittedSize ==
  ASSUME NEW r \in Regions, NEW a \in Axis
  PROVE  /\ GoodSize(a, FitSize(r, a))
         /\ \/ FitSize(r, a) = Sensor[a]
            \/ FitSize(r, a) >=
                 r[a].size + (r[a].offset - Floor(r[a].offset, OffsetInc[a]))
<1> DEFINE moved == r[a].offset - Floor(r[a].offset, OffsetInc[a])
           up    == Ceiling(r[a].size + moved, SizeInc[a])
<1>1. r[a].offset \in Nat /\ r[a].size \in Nat
  BY DEF Regions
<1>2. moved \in Nat
  BY <1>1, Constant, FloorRounds
<1>3. r[a].size + moved \in Nat
  BY <1>1, <1>2
<1>4. up \in Nat /\ up >= r[a].size + moved /\ up % SizeInc[a] = 0
  BY <1>3, Constant, CeilingRounds
<1>5. FitSize(r, a) = Clamp(up, MinSize[a], Sensor[a])
  BY DEF FitSize
<1> HIDE DEF moved, up
<1>6. GoodSize(a, FitSize(r, a))
  BY <1>4, <1>5, Constant DEF Clamp, GoodSize
<1>7. FitSize(r, a) = Sensor[a] \/ FitSize(r, a) >= r[a].size + moved
  BY <1>3, <1>4, <1>5, Constant DEF Clamp
<1> QED
  BY <1>6, <1>7 DEF moved

\* So is the offset, for the size that is written.
LEMMA FittedOffset ==
  ASSUME NEW r \in Regions, NEW a \in Axis, GoodSize(a, size[a])
  PROVE  /\ GoodOffset(a, FitOffset(r, a), size[a])
         /\ \/ FitOffset(r, a) = Floor(r[a].offset, OffsetInc[a])
            \/ /\ FitOffset(r, a) = Sensor[a] - size[a]
               /\ FitOffset(r, a) < Floor(r[a].offset, OffsetInc[a])
<1>1. r[a].offset \in Nat
  BY DEF Regions
<1>2. /\ Floor(r[a].offset, OffsetInc[a]) \in Nat
      /\ Floor(r[a].offset, OffsetInc[a]) % OffsetInc[a] = 0
  BY <1>1, Constant, FloorRounds
<1>3. /\ OffsetMax(a, size[a]) = Sensor[a] - size[a] /\ Sensor[a] - size[a] \in Nat
      /\ (Sensor[a] - size[a]) % OffsetInc[a] = 0
  BY OffsetToEdge
<1> QED
  BY <1>2, <1>3 DEF FitOffset, Clamp, GoodOffset

\* checkRoi cuts nothing that is on the sensor.
Covers(whole, part) ==
  \A a \in Axis :
    part[a].offset + part[a].size <= Sensor[a] =>
      /\ whole[a].offset <= part[a].offset
      /\ whole[a].offset + whole[a].size >= part[a].offset + part[a].size

Fitted(r) == [a \in Axis |-> [offset |-> FitOffset(r, a), size |-> FitSize(r, a)]]

\* What checkRoi computes covers what it was asked for.
LEMMA FittedCovers ==
  ASSUME NEW r \in Regions, \A a \in Axis : size[a] = FitSize(r, a)
  PROVE  Covers(Fitted(r), r)
<1> SUFFICES ASSUME NEW a \in Axis, r[a].offset + r[a].size <= Sensor[a]
             PROVE  /\ FitOffset(r, a) <= r[a].offset
                    /\ FitOffset(r, a) + FitSize(r, a) >= r[a].offset + r[a].size
  BY DEF Covers, Fitted
<1> DEFINE down == Floor(r[a].offset, OffsetInc[a])
<1>1. r[a].offset \in Nat /\ r[a].size \in Nat /\ Sensor[a] \in Nat
  BY Constant DEF Regions
<1>2. down \in Nat /\ down <= r[a].offset
  BY <1>1, Constant, FloorRounds
<1>3. FitSize(r, a) \in Nat /\ FitSize(r, a) <= Sensor[a]
  BY FittedSize, OffsetToEdge DEF GoodSize
<1>4. \/ FitSize(r, a) = Sensor[a]
      \/ FitSize(r, a) >= r[a].size + (r[a].offset - down)
  BY FittedSize
<1>5. /\ FitOffset(r, a) \in 0 .. Sensor[a] - FitSize(r, a)
      /\ \/ FitOffset(r, a) = down
         \/ FitOffset(r, a) = Sensor[a] - FitSize(r, a) /\ FitOffset(r, a) < down
  BY FittedSize, FittedOffset DEF GoodOffset
<1> HIDE DEF down
<1> QED
  BY <1>1, <1>2, <1>3, <1>4, <1>5

\* A region that is large enough is fitted to one that may be announced ...
LEMMA FittedIsGood ==
  ASSUME NEW r \in Regions, ~TooSmall(r),
         \A a \in Axis : GoodSize(a, size[a]) /\ FitSize(r, a) <= size[a]
  PROVE  GoodRegion(Fitted(r))
<1>1. ASSUME NEW a \in Axis
      PROVE  /\ GoodSize(a, FitSize(r, a)) /\ FitSize(r, a) >= 32
             /\ GoodOffset(a, FitOffset(r, a), FitSize(r, a))
             /\ FitSize(r, a) \in Nat /\ FitOffset(r, a) \in Nat
  <2>1. r[a].size >= 32 /\ r[a].size \in Nat /\ r[a].offset \in Nat
    BY DEF TooSmall, Regions
  <2>2. r[a].offset - Floor(r[a].offset, OffsetInc[a]) \in Nat
    BY <2>1, Constant, FloorRounds
  <2>3. GoodSize(a, FitSize(r, a)) /\ FitSize(r, a) \in Nat /\ Sensor[a] \in Nat
    BY FittedSize, OffsetToEdge, Constant
  <2>4. FitSize(r, a) >= 32
    BY <2>1, <2>2, <2>3, FittedSize, Constant
  <2>5. GoodOffset(a, FitOffset(r, a), FitSize(r, a))
    <3>1. GoodOffset(a, FitOffset(r, a), size[a]) /\ size[a] \in Nat
      BY FittedOffset, OffsetToEdge
    <3> QED
      BY <2>3, <3>1 DEF GoodOffset
  <2> QED
    BY <2>3, <2>4, <2>5 DEF GoodOffset
<1> QED
  BY <1>1 DEF GoodRegion, Fitted, Regions

\* ... and one that has been announced to itself: checking again is harmless.
LEMMA GoodIsFitted ==
  ASSUME NEW r, GoodRegion(r)
  PROVE  /\ r \in Regions /\ ~TooSmall(r) /\ r # Zero
         /\ \A a \in Axis : FitSize(r, a) = r[a].size
         /\ (\A a \in Axis : size[a] = FitSize(r, a)) => Fitted(r) = r
<1>1. r \in Regions /\ ~TooSmall(r)
  BY DEF GoodRegion, TooSmall, Regions
<1>2. r["x"].size # Zero["x"].size
  BY DEF GoodRegion, Zero, Axis
<1>3. ASSUME NEW a \in Axis
      PROVE  /\ r[a].offset \in Nat /\ r[a].size \in Nat
             /\ Floor(r[a].offset, OffsetInc[a]) = r[a].offset
  <2>1. r[a].offset \in Nat /\ r[a].size \in Nat
    BY <1>1 DEF Regions
  <2> QED
    BY <2>1, Constant, FloorRounds DEF GoodRegion, GoodOffset
<1>4. ASSUME NEW a \in Axis PROVE FitSize(r, a) = r[a].size
  <2>1. r[a].size + (r[a].offset - Floor(r[a].offset, OffsetInc[a])) = r[a].size
    BY <1>3
  <2>2. Ceiling(r[a].size, SizeInc[a]) = r[a].size
    BY <1>3, Constant, CeilingRounds DEF GoodRegion, GoodSize
  <2> QED
    BY <1>3, <2>1, <2>2, Constant DEF FitSize, Clamp, GoodRegion, GoodSize
<1>5. ASSUME \A a \in Axis : size[a] = FitSize(r, a)
      PROVE  Fitted(r) = r
  <2>1. ASSUME NEW a \in Axis PROVE FitOffset(r, a) = r[a].offset
    <3>1. /\ OffsetMax(a, size[a]) = Sensor[a] - size[a] /\ Sensor[a] - size[a] \in Nat
          /\ size[a] = r[a].size
      BY <1>4, <1>5, OffsetToEdge DEF GoodRegion
    <3> QED
      BY <1>3, <3>1 DEF FitOffset, Clamp, GoodRegion, GoodOffset
  <2> QED
    BY <1>1, <1>4, <2>1 DEF Fitted, Regions
<1> QED
  BY <1>1, <1>2, <1>4, <1>5

-----------------------------------------------------------------------------
\* The three lists of writes.
WidenOrder == <<SetSize("x", Sensor["x"]), SetSize("y", Sensor["y"])>>

FitOrder == <<SetSize("y", FitSize(asked, "y")), SetSize("x", FitSize(asked, "x"))>>

\* Between two writes the registers hold a region the device can do.
Registers ==
  /\ size \in [Axis -> Nat] /\ offset \in [Axis -> Nat]
  /\ \A a \in Axis : GoodSize(a, size[a]) /\ GoodOffset(a, offset[a], size[a])

\* Only regions that have been checked are announced and set.
Arguments ==
  /\ call \in {"check", "set"} /\ outcome \in {"none", "ok", "error"}
  /\ asked \in Regions
  /\ GoodRegion(real) /\ GoodRegion(announced)
  /\ call = "set" => asked = Zero \/ GoodRegion(asked)

\* What a set is to leave in the registers.
Target == IF asked = Zero THEN Full ELSE asked

\* The places of an operation, and what it has done when it is there.
Resting ==
  /\ phase = "idle" /\ todo = <<>>
  /\ Alone => /\ Completed("check") /\ asked # Zero => Covers(real, asked)
              /\ Completed("set") => Device = Target

Widening ==
  /\ phase = "widen"
  /\ \E k \in 1 .. 3 : todo = From(WidenOrder, k)

\* A user set can only have made a size larger than the one written.
Reached(a) ==
  /\ FitSize(asked, a) <= size[a]
  /\ Alone => size[a] = FitSize(asked, a)

Fitting ==
  /\ phase = "fit" /\ asked # Zero /\ ~TooSmall(asked)
  /\ \E k \in 1 .. 3 :
       /\ todo = From(FitOrder, k)
       /\ k > 1 => Reached("y")
       /\ k > 2 => Reached("x")

Comparing ==
  /\ phase = "compare" /\ todo = <<>>
  /\ call = "set" /\ (Alone => real = Target)

\* What setRoi has written when it is at place k of its list.
Written(k) ==
  /\ k \in 2 .. 5 => offset["x"] = 0
  /\ k \in 3 .. 6 => offset["y"] = 0
  /\ k > 3 => size["x"] = real["x"].size
  /\ k > 4 => size["y"] = real["y"].size
  /\ k > 5 => offset["x"] = real["x"].offset
  /\ k > 6 => offset["y"] = real["y"].offset

Applies ==
  /\ phase = "apply" /\ call = "set" /\ (Alone => real = Target)
  /\ \E k \in 1 .. 7 :
       todo = From(ApplyOrder, k) /\ (Alone => Written(k))

\* What holds until a failure passes for a success.
RegionInv ==
  /\ Registers /\ Arguments
  /\ Resting \/ Widening \/ Fitting \/ Comparing \/ Applies

\* What holds in any case.
Writes == [register : {"size", "offset"}, axis : Axis, value : Nat]

Loose == Registers /\ RoiTypeOK /\ todo \in Seq(Writes)

RoiInv == Loose /\ ("masked" \notin changes => RegionInv)

\* The lists as sequences.
LEMMA WritesOf ==
  /\ \A a \in Axis, v \in Nat :
       /\ SetSize(a, v).register = "size" /\ SetSize(a, v).axis = a
       /\ SetSize(a, v).value = v
       /\ SetOffset(a, v).register = "offset" /\ SetOffset(a, v).axis = a
       /\ SetOffset(a, v).value = v
BY DEF SetSize, SetOffset

\* A write the device accepts leaves registers that make a region.
LEMMA SizeWritten ==
  ASSUME Registers, NEW a \in Axis, NEW v \in Nat
  PROVE  /\ Accepts(SetSize(a, v)) <=> GoodSize(a, v)
         /\ Accepts(SetSize(a, v)) /\ Store(SetSize(a, v)) =>
              /\ Registers'
              /\ size' = [size EXCEPT ![a] = v]
              /\ \A b \in Axis : offset[b] = 0 => offset'[b] = 0
<1>1. Accepts(SetSize(a, v)) <=> GoodSize(a, v)
  BY WritesOf DEF Accepts, GoodSize
<1>2. ASSUME GoodSize(a, v), Store(SetSize(a, v))
      PROVE  /\ Registers'
             /\ size' = [size EXCEPT ![a] = v]
             /\ \A b \in Axis : offset[b] = 0 => offset'[b] = 0
  <2>1. /\ size' = [size EXCEPT ![a] = v]
        /\ offset' = [offset EXCEPT ![a] = Clamp(offset[a], 0, OffsetMax(a, v))]
    BY <1>2, WritesOf DEF Store
  <2>2. /\ OffsetMax(a, v) = Sensor[a] - v /\ Sensor[a] - v \in Nat
        /\ (Sensor[a] - v) % OffsetInc[a] = 0
    BY <1>2, OffsetToEdge
  <2>3. offset[a] \in Nat /\ offset[a] % OffsetInc[a] = 0
    BY DEF Registers, GoodOffset
  <2>4. /\ GoodOffset(a, Clamp(offset[a], 0, OffsetMax(a, v)), v)
        /\ Clamp(offset[a], 0, OffsetMax(a, v)) \in Nat
        /\ offset[a] = 0 => Clamp(offset[a], 0, OffsetMax(a, v)) = 0
    BY <2>2, <2>3 DEF Clamp, GoodOffset
  <2> QED
    BY <1>2, <2>1, <2>4 DEF Registers
<1> QED
  BY <1>1, <1>2

\* The same for an offset.
LEMMA OffsetWritten ==
  ASSUME Registers, NEW a \in Axis, NEW v \in Nat
  PROVE  /\ Accepts(SetOffset(a, v)) <=> GoodOffset(a, v, size[a])
         /\ Accepts(SetOffset(a, v)) /\ Store(SetOffset(a, v)) =>
              /\ Registers'
              /\ size' = size /\ offset' = [offset EXCEPT ![a] = v]
<1>1. OffsetMax(a, size[a]) = Sensor[a] - size[a]
  BY OffsetToEdge DEF Registers
<1>2. Accepts(SetOffset(a, v)) <=> GoodOffset(a, v, size[a])
  BY <1>1, WritesOf DEF Accepts, GoodOffset
<1>3. ASSUME GoodOffset(a, v, size[a]), Store(SetOffset(a, v))
      PROVE  /\ Registers'
             /\ size' = size /\ offset' = [offset EXCEPT ![a] = v]
  <2>1. size' = size /\ offset' = [offset EXCEPT ![a] = v]
    BY <1>3, WritesOf DEF Store
  <2> QED
    BY <1>3, <2>1 DEF Registers
<1> QED
  BY <1>2, <1>3

\* What is at which place of the list of the widest sizes.
LEMMA WidenPlaces ==
  /\ Places(WidenOrder, 2) /\ From(WidenOrder, 3) = <<>>
  /\ WidenOrder[1] = SetSize("x", Sensor["x"])
  /\ WidenOrder[2] = SetSize("y", Sensor["y"])
<1> DEFINE W == {SetSize("x", Sensor["x"]), SetSize("y", Sensor["y"])}
<1>1. WidenOrder \in Seq(W) /\ Len(WidenOrder) = 2 /\ 2 \in Nat
  BY DEF WidenOrder
<1> HIDE DEF W
<1>2. Places(WidenOrder, 2)
  BY <1>1, ListFrom, Zenon
<1>3. From(WidenOrder, 3) = <<>>
  BY <1>2 DEF Places
<1> QED
  BY <1>2, <1>3 DEF WidenOrder

\* The same for the fitted sizes ...
LEMMA FitPlaces ==
  /\ Places(FitOrder, 2) /\ From(FitOrder, 3) = <<>>
  /\ FitOrder[1] = SetSize("y", FitSize(asked, "y"))
  /\ FitOrder[2] = SetSize("x", FitSize(asked, "x"))
<1> DEFINE W == {SetSize("y", FitSize(asked, "y")), SetSize("x", FitSize(asked, "x"))}
<1>1. FitOrder \in Seq(W) /\ Len(FitOrder) = 2 /\ 2 \in Nat
  BY DEF FitOrder
<1> HIDE DEF W
<1>2. Places(FitOrder, 2)
  BY <1>1, ListFrom, Zenon
<1>3. From(FitOrder, 3) = <<>>
  BY <1>2 DEF Places
<1> QED
  BY <1>2, <1>3 DEF FitOrder

\* ... and for the region setRoi writes.
LEMMA ApplyPlaces ==
  /\ Places(ApplyOrder, 6) /\ From(ApplyOrder, 7) = <<>>
  /\ ApplyOrder[1] = SetOffset("x", 0) /\ ApplyOrder[2] = SetOffset("y", 0)
  /\ ApplyOrder[3] = SetSize("x", real["x"].size)
  /\ ApplyOrder[4] = SetSize("y", real["y"].size)
  /\ ApplyOrder[5] = SetOffset("x", real["x"].offset)
  /\ ApplyOrder[6] = SetOffset("y", real["y"].offset)
<1> DEFINE W == {SetOffset("x", 0), SetOffset("y", 0),
                 SetSize("x", real["x"].size), SetSize("y", real["y"].size),
                 SetOffset("x", real["x"].offset), SetOffset("y", real["y"].offset)}
<1>1. ApplyOrder \in Seq(W) /\ Len(ApplyOrder) = 6 /\ 6 \in Nat
  BY DEF ApplyOrder
<1> HIDE DEF W
<1>2. Places(ApplyOrder, 6)
  BY <1>1, ListFrom, Zenon
<1>3. From(ApplyOrder, 7) = <<>>
  BY <1>2 DEF Places
<1> QED
  BY <1>2, <1>3 DEF ApplyOrder

\* A new operation begins at its first write.
LEMMA Begins ==
  ASSUME RegionInv, NEW r, NEW c, Begin(c, r),
         \/ c = "check" /\ r \in Requests \cup {Zero}
         \/ c = "set" /\ r \in {announced, Zero}
  PROVE  RegionInv' /\ call' = c /\ asked' = r /\ phase' = "widen"
<1>1. r \in Regions /\ (c = "set" => r = Zero \/ GoodRegion(r))
  <2>1. Zero \in Regions
    BY DEF Zero, Regions
  <2> QED
    BY <2>1, RoiAssumption DEF RegionInv, Arguments, GoodRegion
<1>2. UNCHANGED <<size, offset, real, announced, outcome>>
  BY DEF Begin, registers
<1>3. Registers'
  BY <1>2 DEF RegionInv, Registers
<1>4. Arguments'
  BY <1>1, <1>2 DEF Begin, RegionInv, Arguments, GoodRegion
<1>5. Widening'
  <2>1. phase' = "widen" /\ todo' = WidenOrder
    BY DEF Begin, WidenOrder
  <2>2. WidenOrder = From(WidenOrder, 1)
    BY WidenPlaces DEF Places
  <2> QED
    BY <2>1, <2>2 DEF Widening, From, WidenOrder, SetSize
<1> QED
  BY <1>3, <1>4, <1>5 DEF RegionInv, Begin

\* One access of checkRoi while the sizes are at, or on their way to, the
\* maximum.
LEMMA WidenWrites ==
  ASSUME RegionInv, Widening, Write
  PROVE  Registers' /\ Widening'
<1> PICK k \in 1 .. 3 : todo = From(WidenOrder, k)
  BY DEF Widening
<1>1. k \in 1 .. 2
  BY WidenPlaces DEF Write
<1>2. Head(todo) = WidenOrder[k] /\ todo' = From(WidenOrder, k + 1)
  BY <1>1, WidenPlaces DEF Write, Places
<1>3. Registers /\ size \in [Axis -> Nat]
  BY DEF RegionInv, Registers
<1>4. \A a \in Axis : Sensor[a] \in Nat
  BY Constant
<1>5. CASE k = 1
  <2>1. Registers' /\ size' = [size EXCEPT !["x"] = Sensor["x"]]
    BY <1>2, <1>3, <1>4, <1>5, WidenPlaces, SizeWritten DEF Write, Axis
  <2> QED
    BY <1>2, <1>3, <1>5, <2>1 DEF Widening, Write, Axis, WidenOrder, From, SetSize
<1>6. CASE k = 2
  <2>1. Registers' /\ size' = [size EXCEPT !["y"] = Sensor["y"]]
    BY <1>2, <1>3, <1>4, <1>6, WidenPlaces, SizeWritten DEF Write, Axis
  <2> QED
    BY <1>2, <1>3, <1>6, <2>1 DEF Widening, Write, Axis, WidenOrder, From, SetSize
<1> QED
  BY <1>1, <1>5, <1>6

\* The same while it writes the fitted sizes.
LEMMA FitWrites ==
  ASSUME RegionInv, Fitting, Write
  PROVE  Registers' /\ Fitting'
<1> PICK k \in 1 .. 3 : /\ todo = From(FitOrder, k)
                        /\ k > 1 => Reached("y")
                        /\ k > 2 => Reached("x")
  BY DEF Fitting
<1>1. k \in 1 .. 2
  BY FitPlaces DEF Write
<1>2. Head(todo) = FitOrder[k] /\ todo' = From(FitOrder, k + 1)
  BY <1>1, FitPlaces DEF Write, Places
<1>3. Registers /\ size \in [Axis -> Nat]
  BY DEF RegionInv, Registers
<1>4. \A a \in Axis : FitSize(asked, a) \in Nat
  BY FittedSize, OffsetToEdge DEF RegionInv, Arguments
<1>5. /\ phase' = "fit" /\ asked' # Zero /\ ~TooSmall(asked') /\ asked' = asked
      /\ FitOrder' = FitOrder
      /\ Alone' = Alone /\ \A a \in Axis : FitSize(asked, a)' = FitSize(asked, a)
  BY DEF Fitting, Write, FitOrder, Alone, FitSize
<1>6. CASE k = 1
  <2>1. Registers' /\ size' = [size EXCEPT !["y"] = FitSize(asked, "y")]
    BY <1>2, <1>3, <1>4, <1>6, FitPlaces, SizeWritten DEF Write, Axis
  <2>2. Reached("y")'
    BY <1>3, <1>4, <1>5, <2>1 DEF Reached, Axis
  <2>3. todo' = From(FitOrder', 2) /\ 2 \in 1 .. 3 /\ ~(2 > 2)
    BY <1>2, <1>5, <1>6
  <2> QED
    BY <1>5, <2>1, <2>2, <2>3 DEF Fitting
<1>7. CASE k = 2
  <2>1. Registers' /\ size' = [size EXCEPT !["x"] = FitSize(asked, "x")]
    BY <1>2, <1>3, <1>4, <1>7, FitPlaces, SizeWritten DEF Write, Axis
  <2>2. Reached("y")' /\ Reached("x")'
    BY <1>3, <1>4, <1>5, <1>7, <2>1 DEF Reached, Axis
  <2>3. todo' = From(FitOrder', 3) /\ 3 \in 1 .. 3
    BY <1>2, <1>5, <1>7
  <2> QED
    BY <1>5, <2>1, <2>2, <2>3 DEF Fitting
<1> QED
  BY <1>1, <1>6, <1>7

\* The same while setRoi writes the region: the sizes are written with the
\* offsets at zero and do not move them, nor do the offsets the sizes.
LEMMA ApplyWrites ==
  ASSUME RegionInv, Applies, Write
  PROVE  Registers' /\ Applies'
<1> PICK k \in 1 .. 7 : todo = From(ApplyOrder, k) /\ (Alone => Written(k))
  BY DEF Applies
<1>1. k \in 1 .. 6
  BY ApplyPlaces DEF Write
<1>2. Head(todo) = ApplyOrder[k] /\ todo' = From(ApplyOrder, k + 1)
  BY <1>1, ApplyPlaces DEF Write, Places
<1>3. Registers /\ size \in [Axis -> Nat] /\ offset \in [Axis -> Nat]
  BY DEF RegionInv, Registers
<1>4. \A a \in Axis : real[a].size \in Nat /\ real[a].offset \in Nat
  BY DEF RegionInv, Arguments, GoodRegion, Regions
<1>5. real' = real
  BY DEF Write
<1>6. /\ phase' = "apply" /\ call' = "set" /\ (Alone => real = Target)'
      /\ ApplyOrder' = ApplyOrder /\ Alone' = Alone
  BY DEF Applies, Write, Target, Full, ApplyOrder, Alone
<1>7. CASE k = 1
  <2>1. Registers' /\ size' = size /\ offset' = [offset EXCEPT !["x"] = 0]
    BY <1>2, <1>3, <1>4, <1>7, ApplyPlaces, OffsetWritten DEF Write, Axis
  <2>2. Alone => Written(2)'
    BY <1>3, <1>5, <1>7, <2>1 DEF Written, Axis
  <2>3. todo' = From(ApplyOrder', 2) /\ 2 \in 1 .. 7
    BY <1>2, <1>6, <1>7
  <2> QED
    BY <1>6, <2>1, <2>2, <2>3 DEF Applies
<1>8. CASE k = 2
  <2>1. Registers' /\ size' = size /\ offset' = [offset EXCEPT !["y"] = 0]
    BY <1>2, <1>3, <1>4, <1>8, ApplyPlaces, OffsetWritten DEF Write, Axis
  <2>2. Alone => Written(3)'
    BY <1>3, <1>5, <1>8, <2>1 DEF Written, Axis
  <2>3. todo' = From(ApplyOrder', 3) /\ 3 \in 1 .. 7
    BY <1>2, <1>6, <1>8
  <2> QED
    BY <1>6, <2>1, <2>2, <2>3 DEF Applies
<1>9. CASE k = 3
  <2>1. /\ Registers' /\ size' = [size EXCEPT !["x"] = real["x"].size]
        /\ \A b \in Axis : offset[b] = 0 => offset'[b] = 0
    BY <1>2, <1>3, <1>4, <1>9, ApplyPlaces, SizeWritten DEF Write, Axis
  <2>2. Alone => Written(4)'
    BY <1>3, <1>5, <1>9, <2>1 DEF Written, Axis
  <2>3. todo' = From(ApplyOrder', 4) /\ 4 \in 1 .. 7
    BY <1>2, <1>6, <1>9
  <2> QED
    BY <1>6, <2>1, <2>2, <2>3 DEF Applies
<1>10. CASE k = 4
  <2>1. /\ Registers' /\ size' = [size EXCEPT !["y"] = real["y"].size]
        /\ \A b \in Axis : offset[b] = 0 => offset'[b] = 0
    BY <1>2, <1>3, <1>4, <1>10, ApplyPlaces, SizeWritten DEF Write, Axis
  <2>2. Alone => Written(5)'
    BY <1>3, <1>5, <1>10, <2>1 DEF Written, Axis
  <2>3. todo' = From(ApplyOrder', 5) /\ 5 \in 1 .. 7
    BY <1>2, <1>6, <1>10
  <2> QED
    BY <1>6, <2>1, <2>2, <2>3 DEF Applies
<1>11. CASE k = 5
  <2>1. Registers' /\ size' = size /\ offset' = [offset EXCEPT !["x"] = real["x"].offset]
    BY <1>2, <1>3, <1>4, <1>11, ApplyPlaces, OffsetWritten DEF Write, Axis
  <2>2. Alone => Written(6)'
    BY <1>3, <1>5, <1>11, <2>1 DEF Written, Axis
  <2>3. todo' = From(ApplyOrder', 6) /\ 6 \in 1 .. 7
    BY <1>2, <1>6, <1>11
  <2> QED
    BY <1>6, <2>1, <2>2, <2>3 DEF Applies
<1>12. CASE k = 6
  <2>1. Registers' /\ size' = size /\ offset' = [offset EXCEPT !["y"] = real["y"].offset]
    BY <1>2, <1>3, <1>4, <1>12, ApplyPlaces, OffsetWritten DEF Write, Axis
  <2>2. Alone => Written(7)'
    BY <1>3, <1>5, <1>12, <2>1 DEF Written, Axis
  <2>3. todo' = From(ApplyOrder', 7) /\ 7 \in 1 .. 7
    BY <1>2, <1>6, <1>12
  <2> QED
    BY <1>6, <2>1, <2>2, <2>3 DEF Applies
<1> QED
  BY <1>1, <1>7, <1>8, <1>9, <1>10, <1>11, <1>12

-----------------------------------------------------------------------------
\* After _startup the registers hold the full frame.
LEMMA InitialRegion == RoiInit => RegionInv
<1> SUFFICES ASSUME RoiInit PROVE RegionInv
  OBVIOUS
<1>1. Registers
  BY FullIsGood, RoiAssumption, Constant DEF RoiInit, Registers, GoodRegion, Full
<1>2. Arguments
  BY FullIsGood DEF RoiInit, Arguments, Zero, Regions
<1>3. Resting
  BY DEF RoiInit, Resting, Completed
<1> QED
  BY <1>1, <1>2, <1>3 DEF RegionInv

\* So they do when a user set is loaded; an operation under way goes on.
LEMMA ReloadedRegion ==
  ASSUME RegionInv, LoadsUserSet
  PROVE  RegionInv'
<1>1. Registers'
  BY FullIsGood, RoiAssumption, Constant DEF LoadsUserSet, Registers, GoodRegion, Full
<1>2. Arguments'
  BY DEF RegionInv, Arguments, GoodRegion, LoadsUserSet, progress
<1>3. ~Alone' /\ UNCHANGED progress
  BY DEF LoadsUserSet, Alone
<1>4. CASE Resting
  BY <1>1, <1>2, <1>3, <1>4 DEF RegionInv, Resting, progress
<1>5. CASE Widening
  BY <1>1, <1>2, <1>3, <1>5 DEF RegionInv, Widening, WidenOrder, progress
<1>6. CASE Fitting
  <2>1. \A a \in Axis : FitSize(asked, a)' = FitSize(asked, a)
    BY <1>3 DEF FitSize, progress
  <2>2. \A a \in Axis : Reached(a)'
    <3>1. \A a \in Axis : FitSize(asked, a) <= Sensor[a]
      BY FittedSize DEF RegionInv, Arguments, GoodSize
    <3> QED
      BY <1>3, <2>1, <3>1 DEF Reached, LoadsUserSet
  <2>3. FitOrder' = FitOrder
    BY <1>3 DEF FitOrder, progress
  <2> QED
    BY <1>1, <1>2, <1>3, <1>6, <2>2, <2>3 DEF RegionInv, Fitting, Axis, progress
<1>7. CASE Comparing
  BY <1>1, <1>2, <1>3, <1>7 DEF RegionInv, Comparing, progress
<1>8. CASE Applies
  BY <1>1, <1>2, <1>3, <1>8 DEF RegionInv, Applies, ApplyOrder, progress
<1> QED
  BY <1>4, <1>5, <1>6, <1>7, <1>8 DEF RegionInv

\* Nothing else touches the registers or the operation.
LEMMA SameRegion ==
  ASSUME RegionInv, UNCHANGED <<registers, progress>>, Alone' = Alone
  PROVE  RegionInv'
<1>1. Registers' /\ Arguments'
  BY DEF RegionInv, Registers, Arguments, GoodRegion, registers, progress
<1>2. CASE Resting
  BY <1>1, <1>2 DEF RegionInv, Resting, Completed, Covers, Device, Target, Full,
     registers, progress
<1>3. CASE Widening
  BY <1>1, <1>3 DEF RegionInv, Widening, WidenOrder, registers, progress
<1>4. CASE Fitting
  BY <1>1, <1>4 DEF RegionInv, Fitting, FitOrder, Reached, FitSize,
     registers, progress
<1>5. CASE Comparing
  BY <1>1, <1>5 DEF RegionInv, Comparing, Target, Full, progress
<1>6. CASE Applies
  BY <1>1, <1>6 DEF RegionInv, Applies, Written, ApplyOrder, Target, Full,
     registers, progress
<1> QED
  BY <1>2, <1>3, <1>4, <1>5, <1>6 DEF RegionInv

\* What checkRoi computes is announced, or compared with the registers.
LEMMA ChecksOut ==
  ASSUME RegionInv, NEW r, GoodRegion(r), Checked(r), todo = <<>>,
         UNCHANGED <<registers, call, asked, changes>>,
         Alone /\ call = "check" /\ asked # Zero => Covers(r, asked),
         Alone /\ call = "set" => r = Target
  PROVE  RegionInv'
<1>1. Registers'
  BY DEF RegionInv, Registers, registers
<1>2. Arguments'
  BY DEF RegionInv, Arguments, Checked, Returns, GoodRegion
<1>3. CASE call = "check"
  <2>1. Resting'
    BY <1>3 DEF Checked, Returns, Resting, Completed, Covers, Alone
  <2> QED
    BY <1>1, <1>2, <2>1 DEF RegionInv
<1>4. CASE call = "set"
  <2>1. Comparing'
    BY <1>4 DEF Checked, Comparing, Target, Full, Alone
  <2> QED
    BY <1>1, <1>2, <2>1 DEF RegionInv
<1> QED
  BY <1>3, <1>4 DEF RegionInv, Arguments

\* An operation that has failed promises nothing but registers the device
\* can do.
LEMMA FailsClean ==
  ASSUME RegionInv, Returns("error"),
         UNCHANGED <<registers, call, asked, real, announced>>
  PROVE  RegionInv'
<1>1. Registers' /\ Arguments'
  BY DEF RegionInv, Registers, Arguments, GoodRegion, Returns, registers
<1>2. Resting'
  BY DEF Returns, Resting, Completed
<1> QED
  BY <1>1, <1>2 DEF RegionInv

\* An operation that has set its region leaves it in the registers.
LEMMA SetsRegion ==
  ASSUME RegionInv, call = "set", Alone => Device = Target, Returns("ok"),
         UNCHANGED <<registers, call, asked, real, announced, changes>>
  PROVE  RegionInv'
<1>1. Registers' /\ Arguments'
  BY DEF RegionInv, Registers, Arguments, GoodRegion, Returns, registers
<1>2. Resting'
  BY DEF Returns, Resting, Completed, Device, Target, Full, Alone, registers
<1> QED
  BY <1>1, <1>2 DEF RegionInv

\* Every access of an operation keeps the invariant.
LEMMA ContinueKeeps ==
  ASSUME RegionInv, Continue, ~Masked
  PROVE  RegionInv'
<1>1. CASE Write
  <2>1. Arguments'
    BY <1>1 DEF RegionInv, Arguments, Write, GoodRegion
  <2>2. ~Resting /\ ~Comparing
    BY <1>1 DEF Write, Resting, Comparing
  <2> QED
    BY <1>1, <2>1, <2>2, WidenWrites, FitWrites, ApplyWrites DEF RegionInv
<1>2. CASE CallFails
  BY <1>2, FailsClean DEF CallFails
<1>3. CASE Widened
  BY <1>3, FullIsGood, ChecksOut DEF Widened, Target
<1>4. CASE Reject
  BY <1>4, FailsClean DEF Reject
<1>5. CASE Fit
  <2>1. Registers' /\ Arguments'
    BY <1>5 DEF RegionInv, Registers, Arguments, GoodRegion, Fit, registers
  <2>2. FitOrder' = FitOrder /\ asked' = asked
    BY <1>5 DEF Fit, FitOrder
  <2>3. todo' = From(FitOrder', 1)
    BY <1>5, <2>2, FitPlaces DEF Fit, FitOrder, Places
  <2>4. Fitting'
    BY <1>5, <2>2, <2>3 DEF Fit, Fitting, TooSmall
  <2> QED
    BY <2>1, <2>4 DEF RegionInv
<1>6. CASE Limits
  <2>1. asked # Zero /\ ~TooSmall(asked) /\ \A a \in Axis : Reached(a)
    <3>1. Fitting /\ todo = <<>>
      BY <1>6 DEF RegionInv, Limits, Resting, Widening, Comparing, Applies
    <3>2. PICK k \in 1 .. 3 : /\ todo = From(FitOrder, k)
                              /\ k > 1 => Reached("y")
                              /\ k > 2 => Reached("x")
      BY <3>1 DEF Fitting
    <3>3. k = 3
      BY <3>1, <3>2, FitPlaces DEF Places
    <3> QED
      BY <3>1, <3>2, <3>3 DEF Fitting, Axis
  <2>2. asked \in Regions /\ (call = "set" => GoodRegion(asked))
    BY <2>1 DEF RegionInv, Arguments
  <2>3. GoodRegion(Fitted(asked)) /\ (Alone => Covers(Fitted(asked), asked))
    BY <2>1, <2>2, FittedIsGood, FittedCovers DEF RegionInv, Registers, Reached
  <2>4. Alone /\ call = "set" => Fitted(asked) = Target
    BY <2>1, <2>2, GoodIsFitted DEF Target, Reached
  <2>5. Checked(Fitted(asked)) /\ todo = <<>> /\ UNCHANGED <<registers, call, asked, changes>>
    BY <1>6 DEF Limits, Fitted
  <2> QED
    BY <2>3, <2>4, <2>5, ChecksOut
<1>7. CASE Compare
  <2>1. Comparing
    BY <1>7 DEF RegionInv, Compare, Resting, Widening, Fitting, Applies
  <2> QED
    BY <1>7, <2>1, SetsRegion DEF Compare, Comparing
<1>8. CASE Apply
  <2>1. Comparing
    BY <1>8 DEF RegionInv, Apply, Resting, Widening, Fitting, Applies
  <2>2. Registers' /\ Arguments'
    BY <1>8 DEF RegionInv, Registers, Arguments, GoodRegion, Apply, registers
  <2>3. ApplyOrder' = ApplyOrder /\ real' = real
    BY <1>8 DEF Apply, ApplyOrder
  <2>4. todo' = From(ApplyOrder', 1)
    BY <1>8, <2>3, ApplyPlaces DEF Apply, Places
  <2>5. Written(1)'
    BY DEF Written
  <2>6. (Alone => real = Target)' /\ call' = "set" /\ phase' = "apply"
    BY <1>8, <2>1 DEF Apply, Comparing, Target, Full, Alone
  <2>7. Applies'
    BY <2>4, <2>5, <2>6 DEF Applies
  <2> QED
    BY <2>2, <2>7 DEF RegionInv
<1>9. CASE Applied
  <2>1. Applies /\ todo = <<>>
    BY <1>9 DEF RegionInv, Applied, Resting, Widening, Fitting, Comparing
  <2>2. Alone => Written(7)
    <3>1. PICK k \in 1 .. 7 : todo = From(ApplyOrder, k) /\ (Alone => Written(k))
      BY <2>1 DEF Applies
    <3>2. \A j \in 1 .. 6 : From(ApplyOrder, j) # <<>>
      BY ApplyPlaces DEF Places
    <3>3. k = 7
      BY <2>1, <3>1, <3>2
    <3> QED
      BY <3>1, <3>3
  <2>3. Alone => Device = real
    <3>1. real \in Regions
      BY DEF RegionInv, Arguments, GoodRegion
    <3>2. Alone => \A a \in Axis : size[a] = real[a].size /\ offset[a] = real[a].offset
      BY <2>2 DEF Written, Axis
    <3> QED
      BY <3>1, <3>2 DEF Device, Regions
  <2> QED
    BY <1>9, <2>1, <2>3, SetsRegion DEF Applied, Applies
<1> QED
  BY <1>1, <1>2, <1>3, <1>4, <1>5, <1>6, <1>7, <1>8, <1>9 DEF Continue

-----------------------------------------------------------------------------
\* A write that is accepted leaves registers that make a region.
LEMMA LooseWrite ==
  ASSUME Loose, Write
  PROVE  Loose'
<1> DEFINE w == Head(todo)
<1>1. w \in Writes /\ Tail(todo) \in Seq(Writes) /\ Len(Tail(todo)) <= 6
  BY DEF Loose, RoiTypeOK, Write
<1>2. Registers'
  <2>1. CASE w.register = "size"
    <3>1. w = SetSize(w.axis, w.value) /\ w.axis \in Axis /\ w.value \in Nat
      BY <1>1, <2>1 DEF Writes, SetSize
    <3>2. Accepts(w) /\ Store(w) /\ Registers
      BY DEF Write, Loose
    <3> HIDE DEF w
    <3>3. Accepts(SetSize(w.axis, w.value)) /\ Store(SetSize(w.axis, w.value))
      BY <3>1, <3>2
    <3> QED
      BY <3>1, <3>2, <3>3, SizeWritten
  <2>2. CASE w.register = "offset"
    <3>1. w = SetOffset(w.axis, w.value) /\ w.axis \in Axis /\ w.value \in Nat
      BY <1>1, <2>2 DEF Writes, SetOffset
    <3>2. Accepts(w) /\ Store(w) /\ Registers
      BY DEF Write, Loose
    <3> HIDE DEF w
    <3>3. Accepts(SetOffset(w.axis, w.value)) /\ Store(SetOffset(w.axis, w.value))
      BY <3>1, <3>2
    <3> QED
      BY <3>1, <3>2, <3>3, OffsetWritten
  <2> QED
    BY <1>1, <2>1, <2>2 DEF Writes
<1> QED
  BY <1>1, <1>2 DEF Loose, RoiTypeOK, Write, Registers

\* The lists are lists of writes, and what is computed is a region.
LEMMA LooseContinues ==
  ASSUME Loose, Continue
  PROVE  Loose'
<1> USE DEF Loose, RoiTypeOK, Registers
<1>1. CASE Write
  BY <1>1, LooseWrite
<1>2. CASE CallFails \/ Reject \/ Compare \/ Applied
  <2>1. todo' = <<>> /\ phase' = "idle" /\ outcome' \in {"ok", "error"}
    BY <1>2 DEF CallFails, Reject, Compare, Applied, Returns
  <2>2. UNCHANGED <<registers, call, asked, real, announced, changes>>
    BY <1>2 DEF CallFails, Reject, Compare, Applied
  <2>3. <<>> \in Seq(Writes) /\ Len(<<>>) <= 6
    OBVIOUS
  <2> QED
    BY <2>1, <2>2, <2>3 DEF registers
<1>3. CASE Masked
  BY <1>3 DEF Masked, Kinds, registers
<1>4. CASE Widened
  <2>1. Full \in Regions
    BY FullIsGood DEF GoodRegion
  <2> QED
    BY <1>4, <2>1 DEF Widened, Checked, Returns, registers
<1>5. CASE Fit
  <2>1. FitSize(asked, "x") \in Nat /\ FitSize(asked, "y") \in Nat
    BY FittedSize, OffsetToEdge DEF Axis
  <2>2. SetSize("y", FitSize(asked, "y")) \in Writes /\ SetSize("x", FitSize(asked, "x")) \in Writes
    BY <2>1 DEF Writes, SetSize, Axis
  <2>3. todo' \in Seq(Writes) /\ Len(todo') = 2
    BY <1>5, <2>2 DEF Fit
  <2> QED
    BY <1>5, <2>3 DEF Fit, registers
<1>6. CASE Limits
  <2>1. ASSUME NEW a \in Axis
        PROVE  FitSize(asked, a) \in Nat /\ FitOffset(asked, a) \in Nat
    <3>1. GoodSize(a, FitSize(asked, a)) /\ GoodOffset(a, FitOffset(asked, a), size[a])
      BY FittedSize, FittedOffset
    <3> QED
      BY <3>1, OffsetToEdge DEF GoodOffset
  <2> QED
    <3>1. Fitted(asked) \in Regions
      BY <2>1 DEF Fitted, Regions
    <3>2. Checked(Fitted(asked)) /\ UNCHANGED <<registers, call, asked, changes>>
      BY <1>6 DEF Limits, Fitted
    <3>3. /\ todo' \in {todo, <<>>} /\ real' \in Regions /\ announced' \in Regions
          /\ phase' \in {"idle", "compare"} /\ outcome' \in {outcome, "ok"}
      BY <3>1, <3>2 DEF Checked, Returns
    <3>4. <<>> \in Seq(Writes) /\ Len(<<>>) <= 6
      OBVIOUS
    <3> QED
      BY <3>2, <3>3, <3>4 DEF registers
<1>7. CASE Apply
  <2>1. \A a \in Axis : real[a].size \in Nat /\ real[a].offset \in Nat
    BY DEF Regions
  <2>2. \A a \in Axis : /\ SetOffset(a, 0) \in Writes
                        /\ SetSize(a, real[a].size) \in Writes
                        /\ SetOffset(a, real[a].offset) \in Writes
    BY <2>1 DEF Writes, SetSize, SetOffset
  <2>3. ApplyOrder \in Seq(Writes) /\ Len(ApplyOrder) = 6
    BY <2>2 DEF ApplyOrder, Axis
  <2> QED
    BY <1>7, <2>3 DEF Apply, registers
<1> QED
  BY <1>1, <1>2, <1>3, <1>4, <1>5, <1>6, <1>7 DEF Continue

\* The invariant of the region, for every step that concerns it: an operation
\* begins ...
LEMMA RoiBegins ==
  ASSUME RoiInv, NEW r, NEW c, Begin(c, r),
         \/ c = "check" /\ r \in Requests \cup {Zero}
         \/ c = "set" /\ r \in {announced, Zero}
  PROVE  RoiInv' /\ call' = c /\ asked' = r /\ phase' = "widen"
<1>1. r \in Regions
  <2>1. Zero \in Regions
    BY DEF Zero, Regions
  <2> QED
    BY <2>1, RoiAssumption DEF RoiInv, Loose, RoiTypeOK
<1>2. todo' \in Seq(Writes) /\ Len(todo') = 2
  <2>1. \A a \in Axis : SetSize(a, Sensor[a]) \in Writes
    BY Constant DEF Writes, SetSize
  <2> QED
    BY <2>1 DEF Begin, Axis
<1>3. Loose'
  <2>1. changes' \subseteq Kinds
    BY DEF Begin, Kinds
  <2>2. UNCHANGED <<size, offset, real, announced, outcome>>
    BY DEF Begin, registers
  <2>3. c \in {"check", "set"} /\ call' = c /\ asked' = r /\ phase' = "widen"
    BY DEF Begin
  <2>4. Len(todo') <= 6
    BY <1>2
  <2> QED
    BY <1>1, <1>2, <2>1, <2>2, <2>3, <2>4 DEF RoiInv, Loose, RoiTypeOK, Registers
<1>4. "masked" \notin changes' => "masked" \notin changes
  BY DEF Begin
<1> QED
  BY <1>3, <1>4, Begins DEF RoiInv, Begin

\* ... goes on, or takes a failure for a success ...
LEMMA RoiContinues ==
  ASSUME RoiInv, Continue
  PROVE  RoiInv'
<1>1. Loose'
  BY LooseContinues DEF RoiInv
<1>2. CASE Masked
  BY <1>1, <1>2 DEF RoiInv, Masked
<1>3. CASE ~Masked
  <2>1. changes' = changes
    BY <1>3 DEF Continue, Write, CallFails, Widened, Reject, Fit, Limits, Compare,
       Apply, Applied
  <2> QED
    BY <1>1, <1>3, <2>1, ContinueKeeps DEF RoiInv
<1> QED
  BY <1>2, <1>3

\* ... is disturbed by a user set ...
LEMMA RoiReloads ==
  ASSUME RoiInv, LoadsUserSet
  PROVE  RoiInv'
<1>1. Registers'
  BY FullIsGood, RoiAssumption, Constant DEF LoadsUserSet, Registers, GoodRegion, Full
<1>2. Loose'
  BY <1>1 DEF RoiInv, Loose, RoiTypeOK, Registers, LoadsUserSet, progress, Kinds
<1> QED
  BY <1>2, ReloadedRegion DEF RoiInv, LoadsUserSet

\* ... or is left alone, as Lima prepares, starts and stops.
LEMMA RoiRests ==
  ASSUME RoiInv, UNCHANGED <<registers, progress>>,
         changes' \in {changes, changes \cup {"lima"}}
  PROVE  RoiInv'
<1>1. Loose'
  BY DEF RoiInv, Loose, RoiTypeOK, Registers, Kinds, registers, progress
<1> QED
  BY <1>1, SameRegion DEF RoiInv, Alone

\* It holds when _startup has returned.
LEMMA RoiStarts == RoiInit => RoiInv
<1> SUFFICES ASSUME RoiInit PROVE RoiInv
  OBVIOUS
<1>1. RegionInv
  BY InitialRegion
<1>2. Loose
  <2>1. <<>> \in Seq(Writes) /\ Len(<<>>) = 0
    OBVIOUS
  <2> QED
    BY <1>1, <2>1 DEF Loose, RoiTypeOK, RegionInv, Registers, Arguments, RoiInit, Kinds, GoodRegion
<1> QED
  BY <1>1, <1>2 DEF RoiInv

-----------------------------------------------------------------------------
\* The device has no reason to refuse the write that is next.
LEMMA RegionAccepted == RegionInv => WritesAccepted
<1> SUFFICES ASSUME RegionInv, Alone, todo # <<>> PROVE Accepts(Head(todo))
  BY DEF WritesAccepted
<1> DEFINE Good(a, s) == GoodSize(a, s) /\ s \in Nat
<1>1. /\ Registers
      /\ \A a \in Axis : /\ Good(a, Sensor[a]) /\ Good(a, FitSize(asked, a))
                         /\ Good(a, real[a].size) /\ real[a].offset \in Nat
                         /\ GoodOffset(a, real[a].offset, real[a].size)
  <2>1. Registers /\ asked \in Regions /\ GoodRegion(real)
    BY DEF RegionInv, Arguments
  <2>2. \A a \in Axis : Good(a, Sensor[a])
    BY FullIsGood, Constant DEF GoodRegion, Full
  <2>3. \A a \in Axis : Good(a, FitSize(asked, a))
    BY <2>1, FittedSize, OffsetToEdge
  <2>4. \A a \in Axis : /\ Good(a, real[a].size) /\ real[a].offset \in Nat
                        /\ GoodOffset(a, real[a].offset, real[a].size)
    BY <2>1 DEF GoodRegion, Regions
  <2> QED
    BY <2>1, <2>2, <2>3, <2>4
<1>2. CASE Widening
  <2>1. PICK k \in 1 .. 2 : todo = From(WidenOrder, k)
    BY <1>2, WidenPlaces DEF Widening
  <2>2. Head(todo) = WidenOrder[k]
    BY <2>1, WidenPlaces DEF Places
  <2> QED
    BY <1>1, <2>2, WidenPlaces, SizeWritten DEF Axis
<1>3. CASE Fitting
  <2>1. PICK k \in 1 .. 2 : todo = From(FitOrder, k)
    BY <1>3, FitPlaces DEF Fitting
  <2>2. Head(todo) = FitOrder[k]
    BY <2>1, FitPlaces DEF Places
  <2> QED
    BY <1>1, <2>2, FitPlaces, SizeWritten DEF Axis
<1>4. CASE Applies
  <2>1. PICK k \in 1 .. 6 : todo = From(ApplyOrder, k) /\ Written(k)
    BY <1>4, ApplyPlaces DEF Applies
  <2>2. Head(todo) = ApplyOrder[k]
    BY <2>1, ApplyPlaces DEF Places
  <2>3. CASE k \in 1 .. 2
    <3>1. \A a \in Axis : Accepts(SetOffset(a, 0))
      BY <1>1, OffsetToEdge, Constant, OffsetWritten DEF Registers, GoodOffset
    <3>2. Head(todo) \in {SetOffset("x", 0), SetOffset("y", 0)}
      BY <2>2, <2>3, ApplyPlaces
    <3> QED
      BY <3>1, <3>2 DEF Axis
  <2>4. CASE k \in 3 .. 4
    <3>1. \A a \in Axis : Accepts(SetSize(a, real[a].size))
      BY <1>1, SizeWritten
    <3>2. Head(todo) \in {SetSize("x", real["x"].size), SetSize("y", real["y"].size)}
      BY <2>2, <2>4, ApplyPlaces
    <3> QED
      BY <3>1, <3>2 DEF Axis
  <2>5. CASE k \in 5 .. 6
    <3>1. \A a \in Axis : size[a] = real[a].size
      BY <2>1, <2>5 DEF Written, Axis
    <3>2. \A a \in Axis : Accepts(SetOffset(a, real[a].offset))
      BY <1>1, <3>1, OffsetWritten
    <3>3. Head(todo) \in {SetOffset("x", real["x"].offset),
                         SetOffset("y", real["y"].offset)}
      BY <2>2, <2>5, ApplyPlaces
    <3> QED
      BY <3>2, <3>3 DEF Axis
  <2> QED
    BY <2>3, <2>4, <2>5
<1> QED
  BY <1>2, <1>3, <1>4 DEF RegionInv, Resting, Comparing

\* What a completed operation has done.
LEMMA RegionResults == RegionInv => CheckCovers /\ SetIsExact
BY DEF RegionInv, Resting, Widening, Fitting, Comparing, Applies, Completed,
       CheckCovers, SetIsExact, Covers, Target, Alone
=============================================================================
