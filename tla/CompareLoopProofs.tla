------------------------- MODULE CompareLoopProofs -------------------------
(***************************************************************************)
(* A compiled comparison is exact for every width of the values and every  *)
(* number of rows in a block.                                              *)
(***************************************************************************)
EXTENDS CompareLoop, TLAPS

(* What is known between two bits of the loop.                             *)
LoopInv == TypeOK /\ PrefixOrder /\ MaskExact

(* Before the first bit all rows compare equal, with nothing read.         *)
LEMMA InitLoopInv == Init => LoopInv
<1> SUFFICES ASSUME Init PROVE LoopInv
  OBVIOUS
<1>1. TypeOK
  <2>1. ConstPlanes \subseteq Planes
    BY DEF ConstPlanes, Planes
  <2>2. QED
    BY <2>1, PlanesAssumption DEF Init, TypeOK, Operands
<1>2. PrefixOrder
  BY PlanesAssumption DEF Init, PrefixOrder
<1>3. MaskExact
  BY PlanesAssumption DEF Init, MaskExact
<1>4. QED
  BY <1>1, <1>2, <1>3 DEF LoopInv

(* What one more bit does, whichever code computes it.                     *)
StepEffect ==
    /\ bit >= 0
    /\ gt' = GtBit(gt, eq, PlaneA, PlaneB)
    /\ eq' = EqBit(eq, PlaneA, PlaneB)
    /\ bit' = bit - 1
    /\ lval' = Shifted(lval, left[bit])
    /\ rval' = Shifted(rval, right[bit])
    /\ UNCHANGED <<kind, left, right, mask>>

(* One more bit keeps the order of the values read so far.                 *)
LEMMA StepOrder ==
  ASSUME TypeOK, PrefixOrder, StepEffect
  PROVE  PrefixOrder'
<1>1. SUFFICES ASSUME NEW r \in Rows
               PROVE  /\ r \in gt' <=> IF Swapped THEN rval'[r] > lval'[r] ELSE lval'[r] > rval'[r]
                      /\ r \in eq' <=> lval'[r] = rval'[r]
  BY DEF PrefixOrder, StepEffect, Swapped
<1> DEFINE l == lval[r]
           q == rval[r]
           a == r \in left[bit]
           b == r \in right[bit]
<1>2. l \in Nat /\ q \in Nat
  BY DEF TypeOK
<1>3. /\ lval'[r] = 2 * l + (IF a THEN 1 ELSE 0)
      /\ rval'[r] = 2 * q + (IF b THEN 1 ELSE 0)
  BY DEF StepEffect, Shifted
<1>4. /\ r \in gt' <=> r \in gt \/ (r \in eq /\ IF Swapped THEN b /\ ~a ELSE a /\ ~b)
      /\ r \in eq' <=> r \in eq /\ (a <=> b)
  BY DEF StepEffect, GtBit, EqBit, Eor, PlaneA, PlaneB
<1>5. /\ r \in gt <=> IF Swapped THEN q > l ELSE l > q
      /\ r \in eq <=> l = q
  BY DEF PrefixOrder
<1> HIDE DEF l, q, a, b
<1>6. QED
  BY <1>2, <1>3, <1>4, <1>5

(* With a constant operand the circuits of compile_comparison compute the  *)
(* general ones.                                                           *)
LEMMA ConstCircuits ==
  ASSUME NEW g \in SUBSET Rows, NEW e \in SUBSET Rows, NEW a \in SUBSET Rows,
         NEW p \in {{}, Rows}
  PROVE  /\ GtConstBit(g, e, a, p # {}) = GtBit(g, e, a, p)
         /\ EqConstBit(e, a, p # {}) = EqBit(e, a, p)
<1>1. CASE p = {}
  BY <1>1 DEF GtConstBit, GtBit, EqConstBit, EqBit, Eor
<1>2. CASE p # {}
  <2>1. p = Rows
    BY <1>2
  <2>2. QED
    BY <1>2, <2>1 DEF GtConstBit, GtBit, EqConstBit, EqBit, Eor
<1>3. QED
  BY <1>1, <1>2

(* So a step of compile_comparison is one of a GT comparison.              *)
LEMMA ThresholdStepEffect ==
  ASSUME TypeOK, ThresholdStep
  PROVE  StepEffect
<1>1. bit \in 0 .. (Width - 1) /\ kind = "THRESHOLD"
  BY DEF TypeOK, ThresholdStep
<1>2. right[bit] \in {{}, Rows} /\ left[bit] \in SUBSET Rows
  BY <1>1 DEF TypeOK, Planes, Operands, ConstPlanes
<1>3. /\ gt' = GtBit(gt, eq, left[bit], right[bit])
      /\ eq' = EqBit(eq, left[bit], right[bit])
  BY <1>2, ConstCircuits DEF TypeOK, ThresholdStep
<1>4. PlaneA = left[bit] /\ PlaneB = right[bit]
  BY <1>1 DEF PlaneA, PlaneB, Swapped
<1>5. QED
  BY <1>3, <1>4 DEF ThresholdStep, StepEffect

(* A bit of the loop leaves its variables well typed.                      *)
LEMMA StepTyped ==
  ASSUME TypeOK, StepEffect
  PROVE  TypeOK'
<1>1. bit \in 0 .. (Width - 1)
  BY DEF TypeOK, StepEffect
<1>2. left[bit] \in SUBSET Rows /\ right[bit] \in SUBSET Rows
  BY <1>1 DEF TypeOK, Planes
<1>3. gt' \in SUBSET Rows /\ eq' \in SUBSET Rows
  BY <1>2 DEF TypeOK, StepEffect, GtBit, EqBit, Eor, PlaneA, PlaneB
<1>4. lval' \in [Rows -> Nat] /\ rval' \in [Rows -> Nat]
  BY DEF TypeOK, StepEffect, Shifted
<1>5. QED
  BY <1>1, <1>3, <1>4, PlanesAssumption DEF TypeOK, StepEffect

(* Every step of the loop preserves the invariant.                         *)
LEMMA NextLoopInv == LoopInv /\ [Next]_vars => LoopInv'
<1> SUFFICES ASSUME LoopInv, [Next]_vars PROVE LoopInv'
  OBVIOUS
<1> USE DEF LoopInv
<1>1. CASE Step \/ ThresholdStep
  <2>1. StepEffect
    BY <1>1, ThresholdStepEffect DEF Step, StepEffect
  <2>2. MaskExact'
    BY <2>1 DEF StepEffect, TypeOK, MaskExact
  <2>3. QED
    BY <2>1, <2>2, StepTyped, StepOrder
<1>2. CASE Finish
  <2>1. bit = -1 /\ bit' = -2 /\ UNCHANGED <<kind, left, right, gt, eq, lval, rval>>
    BY <1>2 DEF Finish
  <2>2. mask' = IF kind = "EQ" THEN eq
                ELSE IF kind \in {"GE", "LE"} THEN gt \cup eq ELSE gt
    BY <1>2 DEF Finish
  <2>3. TypeOK'
    BY <2>1, <2>2, PlanesAssumption DEF TypeOK
  <2>4. PrefixOrder'
    BY <2>1 DEF PrefixOrder, Swapped
  <2>5. ASSUME NEW r \in Rows
        PROVE  r \in mask' <=> Scalar(kind, lval[r], rval[r])
    <3>1. lval[r] \in Nat /\ rval[r] \in Nat /\ kind \in Kinds
      BY DEF TypeOK
    <3>2. /\ r \in gt <=> IF kind \in {"LT", "LE"} THEN rval[r] > lval[r] ELSE lval[r] > rval[r]
          /\ r \in eq <=> lval[r] = rval[r]
      BY DEF PrefixOrder, Swapped
    <3>3. QED
      BY <2>2, <3>1, <3>2 DEF Scalar, Kinds, Comparisons
  <2>6. mask' \subseteq Rows
    BY <2>3 DEF TypeOK
  <2>7. MaskExact'
    BY <2>1, <2>5, <2>6 DEF MaskExact
  <2>8. QED
    BY <2>3, <2>4, <2>7
<1>3. CASE UNCHANGED vars
  BY <1>3 DEF vars, TypeOK, PrefixOrder, MaskExact, Swapped
<1>4. QED
  BY <1>1, <1>2, <1>3 DEF Next, Done

(* Between two bits mask_gt and mask_eq order the values read so far.      *)
THEOREM PrefixOrderHolds == Spec => []PrefixOrder
<1>1. LoopInv => PrefixOrder
  BY DEF LoopInv
<1>2. QED
  BY <1>1, InitLoopInv, NextLoopInv, PTL DEF Spec

(* GT, LT, GE, LE and EQ return the rows for which the scalar comparison   *)
(* of the unsigned values holds, for any width and any number of rows.     *)
THEOREM ComparisonIsExact == Spec => []MaskExact
<1>1. LoopInv => MaskExact
  BY DEF LoopInv
<1>2. QED
  BY <1>1, InitLoopInv, NextLoopInv, PTL DEF Spec

=============================================================================
