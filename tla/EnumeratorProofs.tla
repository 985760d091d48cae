-------------------------- MODULE EnumeratorProofs --------------------------
(***************************************************************************)
(* CoupledLifetime holds for every set of addresses and whether or not     *)
(* malloc may fail.  With the type invariant it is inductive: a new batch  *)
(* takes a block and a raw list that are not live, and a free removes the  *)
(* one pointer to its block and the one list stored in it.                 *)
(***************************************************************************)
EXTENDS Enumerator, TLAPS

IInv == TypeOK /\ CoupledLifetime

LEMMA InitIInv == Init => IInv
  BY DEF Init, IInv, TypeOK, CoupledLifetime

\* sddc_get_device_info keeps the batch and its list coupled.
LEMMA GetStep ==
  ASSUME IInv, sddc_get_device_info
  PROVE  IInv'
<1>1. PICK l \in Lists \ raw, ok \in MallocResults :
        /\ raw' = raw \cup {l}
        /\ \/ /\ ok
              /\ \E b \in Blocks \ blocks :
                   /\ blocks' = blocks \cup {b}
                   /\ hdr' = [x \in DOMAIN hdr \cup {b} |->
                                IF x = b THEN l ELSE hdr[x]]
                   /\ held' = held \cup {[blk |-> b, off |-> 1]}
              /\ UNCHANGED crashed
           \/ /\ ~ok
              /\ crashed' = TRUE
              /\ UNCHANGED <<blocks, hdr, held>>
  BY DEF sddc_get_device_info
<1>2. CASE crashed' = TRUE /\ UNCHANGED <<blocks, hdr, held>>
  BY <1>1, <1>2 DEF IInv, TypeOK, CoupledLifetime
<1>3. ASSUME NEW b \in Blocks \ blocks,
             blocks' = blocks \cup {b},
             hdr' = [x \in DOMAIN hdr \cup {b} |-> IF x = b THEN l ELSE hdr[x]],
             held' = held \cup {[blk |-> b, off |-> 1]},
             UNCHANGED crashed
      PROVE  IInv'
  <2>1. TypeOK'
    BY <1>1, <1>3 DEF IInv, TypeOK, Ptr
  <2>2. CASE crashed
    BY <1>3, <2>1, <2>2 DEF IInv, CoupledLifetime
  <2>3. CASE ~crashed
    <3>1. /\ \A p \in held : p.off = 1
          /\ {p.blk : p \in held} = blocks
          /\ blocks \subseteq DOMAIN hdr
          /\ raw = {hdr[c] : c \in blocks}
          /\ \A c, d \in blocks : hdr[c] = hdr[d] => c = d
      BY <2>3 DEF IInv, CoupledLifetime
    <3>2. \A c \in blocks : hdr'[c] = hdr[c]
      BY <1>3, <3>1
    <3>3. raw' = {hdr'[c] : c \in blocks'}
      <4>1. hdr'[b] = l
        BY <1>3
      <4>2. {hdr'[c] : c \in blocks} = {hdr[c] : c \in blocks}
        BY <3>2
      <4>3. {hdr'[c] : c \in blocks \cup {b}}
              = {hdr'[c] : c \in blocks} \cup {hdr'[b]}
        OBVIOUS
      <4>4. raw' = {hdr[c] : c \in blocks} \cup {l}
        BY <1>1, <3>1
      <4>5. {hdr'[c] : c \in blocks'} = {hdr'[c] : c \in blocks \cup {b}}
        BY <1>3
      <4>6. QED
        BY <4>1, <4>2, <4>3, <4>4, <4>5
    <3>4. \A c, d \in blocks' : hdr'[c] = hdr'[d] => c = d
      BY <1>1, <1>3, <3>1, <3>2
    <3>5. {p.blk : p \in held'} = blocks'
      <4>1. \A q \in held' : q.blk \in blocks'
        BY <1>3, <3>1
      <4>2. ASSUME NEW c \in blocks' PROVE \E q \in held' : q.blk = c
        <5>1. CASE c = b
          <6>1. [blk |-> b, off |-> 1] \in held'
            BY <1>3
          <6>2. QED
            BY <5>1, <6>1
        <5>2. CASE c \in blocks
          <6>1. c \in {q.blk : q \in held}
            BY <5>2, <3>1
          <6>2. QED
            BY <1>3, <6>1
        <5>3. QED
          BY <1>3, <4>2, <5>1, <5>2
      <4>3. QED
        BY <4>1, <4>2
    <3>6. QED
      BY <1>3, <2>1, <3>1, <3>3, <3>4, <3>5 DEF IInv, CoupledLifetime
  <2>4. QED
    BY <2>1, <2>2, <2>3 DEF IInv
<1>4. QED
  BY <1>1, <1>2, <1>3

\* sddc_free_device_info on a pointer the caller holds frees its block and
\* exactly the list stored in it.
LEMMA FreeStep ==
  ASSUME IInv, NEW p \in held, sddc_free_device_info(p)
  PROVE  IInv'
<1>1. ~crashed /\ crashed' = crashed
  BY DEF sddc_free_device_info
<1>2. /\ \A q \in held : q.off = 1
      /\ {q.blk : q \in held} = blocks
      /\ blocks \subseteq DOMAIN hdr
      /\ raw = {hdr[c] : c \in blocks}
      /\ \A c, d \in blocks : hdr[c] = hdr[d] => c = d
  BY <1>1 DEF IInv, CoupledLifetime
<1>3. held \subseteq Ptr
  BY DEF IInv, TypeOK
<1>4. Base(p).blk = p.blk
  BY DEF Base
<1>5. /\ blocks' = blocks \ {p.blk}
      /\ raw' = raw \ {hdr[p.blk]}
      /\ held' = held \ {p}
      /\ hdr' = hdr
  BY <1>4 DEF sddc_free_device_info
<1>6. \A q \in held : q.blk = p.blk => q = p
  BY <1>2, <1>3 DEF Ptr
<1>7. TypeOK'
  BY <1>1, <1>5 DEF IInv, TypeOK
<1>8. {q.blk : q \in held'} = blocks'
  BY <1>2, <1>5, <1>6
<1>9. raw' = {hdr'[c] : c \in blocks'}
  BY <1>2, <1>5
<1>10. QED
  BY <1>1, <1>2, <1>5, <1>7, <1>8, <1>9 DEF IInv, CoupledLifetime

LEMMA IInvStep == IInv /\ [Next]_vars => IInv'
<1> SUFFICES ASSUME IInv, [Next]_vars PROVE IInv'
  OBVIOUS
<1>1. CASE sddc_get_device_info
  BY <1>1, GetStep
<1>2. ASSUME NEW p \in held, sddc_free_device_info(p) PROVE IInv'
  BY <1>2, FreeStep
<1>3. CASE UNCHANGED vars
  BY <1>3 DEF vars, IInv, TypeOK, CoupledLifetime
<1>4. QED
  BY <1>1, <1>2, <1>3 DEF Next

(***************************************************************************)
(* For every Blocks, Lists and MallocResults, the raw lists live while the *)
(* process runs are exactly those stored in the blocks the caller holds,   *)
(* one per block: sddc_free_device_info releases a batch's raw list with   *)
(* it and no other.                                                        *)
(***************************************************************************)
THEOREM CoupledLifetimeTheorem == Spec => []CoupledLifetime
<1>1. Init => IInv
  BY InitIInv
<1>2. IInv /\ [Next]_vars => IInv'
  BY IInvStep
<1>3. IInv => CoupledLifetime
  BY DEF IInv
<1>4. QED
  BY <1>1, <1>2, <1>3, PTL DEF Spec
=============================================================================
