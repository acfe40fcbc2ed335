----------------------------- MODULE AccessLists -----------------------------
(***************************************************************************)
(* An operation of the plugin is, in several modules, the list of the      *)
(* accesses it makes, of which the state keeps those still to make.  The   *)
(* invariants of these modules say at which access an operation is: what   *)
(* it has still to do is its list from there on.                           *)
(***************************************************************************)
EXTENDS Integers, Sequences, TLAPS, SequenceTheorems

From(list, k) == SubSeq(list, k, Len(list))

\* A list is empty when its length is zero.
LEMMA Empty ==
  ASSUME NEW S, NEW list \in Seq(S)
  PROVE  list = <<>> <=> Len(list) = 0
OBVIOUS

\* Behind its first access a list goes on with one less, unless it has but one.
LEMMA Shorter ==
  ASSUME NEW S, NEW list \in Seq(S), list # <<>>
  PROVE  /\ Head(list) \in S /\ Tail(list) \in Seq(S)
         /\ Tail(list) = <<>> <=> Len(list) = 1
<1>1. /\ Head(list) \in S /\ Tail(list) \in Seq(S)
      /\ Len(Tail(list)) = Len(list) - 1 /\ Len(list) \in Nat
  OBVIOUS
<1>2. Tail(list) = <<>> <=> Len(Tail(list)) = 0
  BY <1>1, Empty, Zenon
<1> QED
  BY <1>1, <1>2

\* At an access of a list of n the next one to make is that one, and then the
\* operation is at the next; behind the last one nothing is left.
Places(list, n) ==
  /\ From(list, 1) = list
  /\ \A k \in 1 .. n :
       /\ From(list, k) # <<>> /\ Len(From(list, k)) \in 1 .. n
       /\ Len(From(list, k)) = 1 <=> k = n
       /\ Head(From(list, k)) = list[k]
       /\ Tail(From(list, k)) = From(list, k + 1)
  /\ From(list, n + 1) = <<>>

\* That is so for every list.
LEMMA ListFrom ==
  ASSUME NEW S, NEW list \in Seq(S), NEW n \in Nat, Len(list) = n
  PROVE  Places(list, n)
<1>1. From(list, 1) = list
  BY SubSeqFull DEF From
<1>2. ASSUME NEW k \in 1 .. n
      PROVE  /\ From(list, k) # <<>>
             /\ Len(From(list, k)) \in 1 .. n
             /\ Len(From(list, k)) = 1 <=> k = n
             /\ Head(From(list, k)) = list[k]
             /\ Tail(From(list, k)) = From(list, k + 1)
  <2>1. \A i \in k .. n : list[i] \in S
    OBVIOUS
  <2>2. Len(From(list, k)) = n - k + 1
    BY <2>1, SubSeqProperties DEF From
  <2>3. n \in k .. Len(list)
    OBVIOUS
  <2>4. /\ Head(From(list, k)) = list[k]
        /\ Tail(From(list, k)) = From(list, k + 1)
    BY <2>3, HeadTailOfSubSeq DEF From
  <2> QED
    BY <2>2, <2>4
<1>3. From(list, n + 1) = <<>>
  BY SubSeqEmpty DEF From
<1> QED
  BY <1>1, <1>2, <1>3 DEF Places

\* A list of one of m and then one of n: what is at its places, and that
\* behind the first it goes on as the second.
Joins(list, s, m, t, n) ==
  /\ Len(list) = m + n
  /\ \A i \in 1 .. m : list[i] = s[i]
  /\ \A i \in 1 .. n : list[m + i] = t[i]
  /\ From(list, m + 1) = t

\* That is so for every two lists.
LEMMA Joined ==
  ASSUME NEW S, NEW s \in Seq(S), NEW t \in Seq(S)
  PROVE  s \o t \in Seq(S) /\ Joins(s \o t, s, Len(s), t, Len(t))
<1>1. /\ s \o t \in Seq(S) /\ Len(s \o t) = Len(s) + Len(t)
      /\ \A i \in 1 .. Len(s) : (s \o t)[i] = s[i]
      /\ \A i \in 1 .. Len(t) : (s \o t)[Len(s) + i] = t[i]
  OBVIOUS
<1>2. From(s \o t, Len(s) + 1) = t
  <2>1. Len(s) \in Nat /\ Len(t) \in Nat
    OBVIOUS
  <2>2. CASE Len(t) = 0
    <3>1. t = <<>>
      BY <2>2
    <3> QED
      BY <1>1, <2>1, <2>2, <3>1, SubSeqEmpty DEF From
  <2>3. CASE Len(t) # 0
    <3>1. /\ Len(s) + 1 \in Len(s) + 1 .. Len(s) + Len(t)
          /\ Len(s) + Len(t) \in Len(s) + 1 .. Len(s) + Len(t)
          /\ Len(s) + 1 - Len(s) = 1 /\ Len(s) + Len(t) - Len(s) = Len(t)
      BY <2>1, <2>3
    <3>2. From(s \o t, Len(s) + 1) = SubSeq(t, 1, Len(t))
      BY <1>1, <3>1, SubSeqOfConcat2 DEF From
    <3> QED
      BY <3>2, SubSeqFull
  <2> QED
    BY <2>2, <2>3
<1> QED
  BY <1>1, <1>2 DEF Joins
=============================================================================
