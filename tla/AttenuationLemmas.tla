------------------------- MODULE AttenuationLemmas -------------------------
(***************************************************************************)
(* Lemmas about the attenuation calibrator of Attenuation, for every       *)
(* request: the scan of sddc_set_tuner_attenuation ends at the lowest      *)
(* index of a nearest table entry.  The scan is a CHOOSE over the indices  *)
(* where the loop moves idx last; that such an index exists follows from   *)
(* the least element of a set of naturals, so no induction over the loop   *)
(* is needed.                                                              *)
(***************************************************************************)
EXTENDS Attenuation, WellFoundedInduction, TLAPS

\* Every non-empty set of naturals has a least element.
LEMMA NatLeast ==
  ASSUME NEW T \in SUBSET Nat, T # {}
  PROVE  \E x \in T : \A y \in T : x <= y
<1>1. \E x \in T : \A y \in T : ~(<<y, x>> \in OpToRel(<, Nat))
  BY NatLessThanWellFounded, WFMin
<1>2. \E x \in T : \A y \in T : ~(y < x)
  BY <1>1, Zenon DEF OpToRel
<1>3. QED
  BY <1>2

\* The table has 29 entries, all natural numbers of hundredths of a dB.
LEMMA TableType ==
  /\ TableSize = 29
  /\ TableIndices = 0 .. 28
  /\ \A i \in TableIndices : TableAt(i) \in Nat
  BY DEF TableSize, TableIndices, TableAt, TunerAttenuationsTable

\* The distance fabs(a - table[i]) is a natural number.
LEMMA DistType ==
  ASSUME NEW a \in Int, NEW i \in TableIndices
  PROVE  Dist(a, i) \in Nat
  BY TableType DEF Dist

(***************************************************************************)
(* For a request a the lowest index of a nearest entry, i0, is the index   *)
(* where the loop moves idx for the last time: it is strictly closer than *)
(* every earlier index, and no later index is strictly closer than every   *)
(* index before it, since none is closer than i0.                          *)
(***************************************************************************)
LEMMA LowestArgminExists ==
  ASSUME NEW a \in Int
  PROVE  \E i0 \in TableIndices :
           /\ \A j \in TableIndices : Dist(a, i0) <= Dist(a, j)
           /\ \A j \in 0 .. i0 - 1 : Dist(a, j) > Dist(a, i0)
<1> DEFINE D == {Dist(a, i) : i \in TableIndices}
<1>0. /\ \A i \in TableIndices : Dist(a, i) \in Nat
      /\ 0 \in TableIndices
  <2>1. \A i \in TableIndices : Dist(a, i) \in Nat
    BY DistType, Zenon
  <2>2. 0 \in TableIndices
    BY TableType
  <2>3. QED
    BY <2>1, <2>2
<1>1. D \in SUBSET Nat /\ D # {}
  BY <1>0
<1>2. PICK m \in D : \A y \in D : m <= y
  BY <1>1, NatLeast
<1> DEFINE I == {i \in TableIndices : Dist(a, i) = m}
<1>3. I \in SUBSET Nat /\ I # {}
  BY <1>2, TableType
<1>4. PICK i0 \in I : \A y \in I : i0 <= y
  BY <1>3, NatLeast
<1>5. \A j \in TableIndices : Dist(a, i0) <= Dist(a, j)
  BY <1>2, <1>4
<1>6. \A j \in 0 .. i0 - 1 : Dist(a, j) > Dist(a, i0)
  <2> SUFFICES ASSUME NEW j \in 0 .. i0 - 1 PROVE Dist(a, j) > Dist(a, i0)
    OBVIOUS
  <2>1. j \in TableIndices /\ j \notin I
    BY <1>4, TableType
  <2>2. Dist(a, j) # m /\ Dist(a, j) >= m
    BY <1>2, <2>1
  <2>3. QED
    BY <1>4, <2>1, <2>2, DistType
<1>7. QED
  BY <1>4, <1>5, <1>6

\* Every index the scan may end at is the lowest index of a nearest entry.
LEMMA NearestIndexLowestArgmin ==
  ASSUME NEW a \in Int
  PROVE  LET i == NearestIndex(a)
         IN  /\ i \in TableIndices
             /\ \A j \in TableIndices : Dist(a, i) <= Dist(a, j)
             /\ \A j \in 0 .. i - 1 : Dist(a, j) > Dist(a, i)
<1>1. PICK i0 \in TableIndices :
        /\ \A j \in TableIndices : Dist(a, i0) <= Dist(a, j)
        /\ \A j \in 0 .. i0 - 1 : Dist(a, j) > Dist(a, i0)
  BY LowestArgminExists
<1>2. MovesIdx(a, i0) /\ \A k \in i0 + 1 .. TableSize - 1 : ~MovesIdx(a, k)
  <2>1. MovesIdx(a, i0)
    BY <1>1 DEF MovesIdx
  <2>2. ASSUME NEW k \in i0 + 1 .. TableSize - 1, MovesIdx(a, k) PROVE FALSE
    <3>1. k \in TableIndices /\ i0 \in 0 .. k - 1
      BY TableType DEF TableIndices
    <3>2. Dist(a, k) < Dist(a, i0)
      BY <2>2, <3>1 DEF MovesIdx
    <3>3. QED
      BY <1>1, <3>1, <3>2, DistType
  <2>3. QED
    BY <2>1, <2>2
<1> DEFINE i == NearestIndex(a)
<1>3. /\ i \in TableIndices
      /\ MovesIdx(a, i)
      /\ \A k \in i + 1 .. TableSize - 1 : ~MovesIdx(a, k)
  BY <1>2 DEF NearestIndex
<1>4. i = i0
  <2>1. CASE i < i0
    <3>1. i0 \in i + 1 .. TableSize - 1
      BY <1>3, <2>1, TableType
    <3>2. ~MovesIdx(a, i0)
      BY <1>3, <3>1, Zenon
    <3>3. QED
      BY <1>2, <3>2
  <2>2. CASE i0 < i
    <3>1. i0 \in 0 .. i - 1
      BY <1>3, <2>2, TableType
    <3>2. Dist(a, i) < Dist(a, i0)
      BY <1>3, <3>1 DEF MovesIdx
    <3>3. Dist(a, i0) <= Dist(a, i)
      BY <1>1, <1>3
    <3>4. Dist(a, i) \in Nat /\ Dist(a, i0) \in Nat
      BY <1>3, DistType
    <3>5. QED
      BY <3>2, <3>3, <3>4
  <2>3. QED
    BY <1>3, <2>1, <2>2, TableType
<1>5. QED
  BY <1>1, <1>3, <1>4
=============================================================================
