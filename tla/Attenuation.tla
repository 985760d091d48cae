---------------------------- MODULE Attenuation ----------------------------
(***************************************************************************)
(* The two attenuation calibrators of libsddc.c.  Attenuations, which the  *)
(* C code holds as doubles, are integers in hundredths of a dB here: every *)
(* entry of the tuner table and every value the code compares against is  *)
(* exact at that scale, so distances and ties are computed exactly.        *)
(***************************************************************************)
EXTENDS Integers, Sequences, Gpio

\* tuner_attenuations_table, in hundredths of a dB.
TunerAttenuationsTable ==
  << 0, 90, 140, 270, 370, 770, 870, 1250, 1440, 1570, 1660, 1970, 2070,
     2290, 2540, 2800, 2970, 3280, 3380, 3640, 3720, 3860, 4020, 4210,
     4340, 4390, 4450, 4800, 4960 >>

\* sizeof(table) / sizeof(table[0]).
TableSize == Len(TunerAttenuationsTable)

\* The C indices of the table, and the entry at C index i.
TableIndices == 0 .. TableSize - 1
TableAt(i) == TunerAttenuationsTable[i + 1]

\* fabs(attenuation - tuner_attenuations_table[i]).
Dist(a, i) == IF a >= TableAt(i) THEN a - TableAt(i) ELSE TableAt(i) - a

(***************************************************************************)
(* The scan of sddc_set_tuner_attenuation.  idx starts at 0 and moves to i *)
(* when i is strictly closer than the current idx.  idx is always the      *)
(* nearest of the indices scanned so far (idx_att its distance), so i      *)
(* moves it exactly when i is strictly closer than every earlier index,    *)
(* and the loop ends with idx at the last index that moved it (0 if none   *)
(* did).                                                                   *)
(***************************************************************************)
\* Index i moves idx in its iteration of the loop.
MovesIdx(a, i) == \A j \in 0 .. i - 1 : Dist(a, i) < Dist(a, j)

\* The scan with <= in place of <: ties go to the higher index.  A mutant.
NearestIndexLastTie(a) ==
  CHOOSE i \in TableIndices :
    /\ \A j \in 0 .. i - 1 : Dist(a, i) <= Dist(a, j)
    /\ \A k \in i + 1 .. TableSize - 1 :
         ~\A j \in 0 .. k - 1 : Dist(a, k) <= Dist(a, j)

NearestIndex(a) ==
  CHOOSE i \in TableIndices :
    MovesIdx(a, i) /\ \A k \in i + 1 .. TableSize - 1 : ~MovesIdx(a, k)

(***************************************************************************)
(* sddc_set_hf_attenuation, without the write: the command it sends for a *)
(* requested attenuation a on a device with hf_attenuator_levels levels.   *)
(* op is "none" (no attenuator, success without a write), "gpio" (pattern *)
(* under AttSelMask), "dat31" (one byte with DAT31FX3) or "reject" (-1,    *)
(* nothing written).                                                       *)
(***************************************************************************)

\* (int) attenuation: C truncates toward zero.
CInt(a) == IF a >= 0 THEN a \div 100 ELSE -((-a) \div 100)

\* The switch of the 3-level attenuator: dB -> select bits.
CoarseAttPattern ==
  [v \in {0, 10, 20} |->
     IF v = 0 THEN {GPIO_ATT_SEL1}
     ELSE IF v = 10 THEN {GPIO_ATT_SEL0, GPIO_ATT_SEL1}
     ELSE {GPIO_ATT_SEL0}]

HfCmd(op, pattern, byte) == [op |-> op, pattern |-> pattern, byte |-> byte]

\* The Fine32 range check without its lower bound.  A mutant.
HfAttCommandNoFloor(levels, a) ==
  CASE levels = 0 -> HfCmd("none", {}, 0)
    [] levels = 3 /\ CInt(a) \in DOMAIN CoarseAttPattern ->
         HfCmd("gpio", CoarseAttPattern[CInt(a)], 0)
    [] levels = 32 /\ ~(a > 3100) ->
         HfCmd("dat31", {}, (31 - CInt(a)) * 2)
    [] OTHER -> HfCmd("reject", {}, 0)

HfAttCommand(levels, a) ==
  CASE levels = 0 -> HfCmd("none", {}, 0)
    [] levels = 3 /\ CInt(a) \in DOMAIN CoarseAttPattern ->
         HfCmd("gpio", CoarseAttPattern[CInt(a)], 0)
    [] levels = 32 /\ ~(a < 0 \/ a > 3100) ->
         HfCmd("dat31", {}, (31 - CInt(a)) * 2)
    [] OTHER -> HfCmd("reject", {}, 0)
=============================================================================
