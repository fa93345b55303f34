---------------------------- MODULE CompareLoop ----------------------------
(***************************************************************************)
(* The unrolled loop that a compiled comparison runs over the bit-planes   *)
(* of its operands, most significant plane first (compile_expression of    *)
(* src/jit/compiler.cpp), and the one of a field against a threshold that  *)
(* compile_comparison emits, kind "THRESHOLD" below.                       *)
(*                                                                         *)
(* lval and rval are history variables: the scalar values of the operands  *)
(* as far as the loop has read them, row by row.                           *)
(***************************************************************************)
EXTENDS BitCircuits, BitPlanes

Comparisons == {"GT", "LT", "GE", "LE", "EQ"}

Kinds == Comparisons \cup {"THRESHOLD"}

Operands(k) == IF k = "THRESHOLD" THEN ConstPlanes ELSE Planes

VARIABLES
    kind,         \* node->kind, or "THRESHOLD"
    left, right,  \* the operands' planes
    bit,          \* the next bit of the loop; -1 after it, -2 when done
    gt, eq,       \* mask_gt and mask_eq
    mask,         \* the node's result slot
    lval, rval    \* history: the operands' values in the bits read so far

vars == <<kind, left, right, bit, gt, eq, mask, lval, rval>>

-----------------------------------------------------------------------------

(* The prologue stores 0 in the result slot and ~0 in the eq slot.         *)
Init ==
    /\ kind \in Kinds
    /\ left \in Planes
    /\ right \in Operands(kind)
    /\ bit = Width - 1
    /\ gt = {}
    /\ eq = Rows
    /\ mask = {}
    /\ lval = [r \in Rows |-> 0]
    /\ rval = [r \in Rows |-> 0]

Swapped == kind \in {"LT", "LE"}

(* op_a and op_b: LT and LE are GT and GE with the operands swapped.       *)
PlaneA == IF Swapped THEN right[bit] ELSE left[bit]

PlaneB == IF Swapped THEN left[bit] ELSE right[bit]

(* A value read most significant bit first.                                *)
Shifted(val, plane) == [r \in Rows |-> 2 * val[r] + (IF r \in plane THEN 1 ELSE 0)]

(* Mutant: mask_eq is updated before mask_gt reads it.                     *)
StepEqFirst ==
    /\ bit >= 0 /\ kind \in Comparisons
    /\ gt' = GtBit(gt, EqBit(eq, PlaneA, PlaneB), PlaneA, PlaneB)
    /\ eq' = EqBit(eq, PlaneA, PlaneB)
    /\ bit' = bit - 1
    /\ lval' = Shifted(lval, left[bit])
    /\ rval' = Shifted(rval, right[bit])
    /\ UNCHANGED <<kind, left, right, mask>>

(* One bit of an expression's comparison.                                  *)
Step ==
    /\ bit >= 0 /\ kind \in Comparisons
    /\ gt' = GtBit(gt, eq, PlaneA, PlaneB)
    /\ eq' = EqBit(eq, PlaneA, PlaneB)
    /\ bit' = bit - 1
    /\ lval' = Shifted(lval, left[bit])
    /\ rval' = Shifted(rval, right[bit])
    /\ UNCHANGED <<kind, left, right, mask>>

(* One bit of compile_comparison, which branches on the threshold's bit.   *)
ThresholdStep ==
    LET t == right[bit] # {}
    IN  /\ bit >= 0 /\ kind = "THRESHOLD"
        /\ gt' = GtConstBit(gt, eq, left[bit], t)
        /\ eq' = EqConstBit(eq, left[bit], t)
        /\ bit' = bit - 1
        /\ lval' = Shifted(lval, left[bit])
        /\ rval' = Shifted(rval, right[bit])
        /\ UNCHANGED <<kind, left, right, mask>>

(* The "immediate aggregation" of GE, LE and EQ, after both stores.        *)
Finish ==
    /\ bit = -1
    /\ mask' = IF kind = "EQ" THEN eq
               ELSE IF kind \in {"GE", "LE"} THEN gt \cup eq
               ELSE gt
    /\ bit' = -2
    /\ UNCHANGED <<kind, left, right, gt, eq, lval, rval>>

Done ==
    /\ bit = -2
    /\ UNCHANGED vars

Next == Step \/ ThresholdStep \/ Finish \/ Done

Spec == Init /\ [][Next]_vars

-----------------------------------------------------------------------------
(* Properties                                                              *)

(* Type invariant of the loop.                                             *)
TypeOK ==
    /\ kind \in Kinds
    /\ left \in Planes /\ right \in Planes /\ right \in Operands(kind)
    /\ bit \in -2 .. (Width - 1)
    /\ gt \in SUBSET Rows /\ eq \in SUBSET Rows /\ mask \in SUBSET Rows
    /\ lval \in [Rows -> Nat] /\ rval \in [Rows -> Nat]

(* Between two bits, mask_gt and mask_eq order the values read so far, in  *)
(* every row independently of the others.                                  *)
PrefixOrder ==
    \A r \in Rows :
      /\ r \in gt <=> IF Swapped THEN rval[r] > lval[r] ELSE lval[r] > rval[r]
      /\ r \in eq <=> lval[r] = rval[r]

(* The scalar comparison a C++ loop over the rows would make.              *)
Scalar(k, x, y) ==
    \/ k \in {"GT", "THRESHOLD"} /\ x > y
    \/ k = "LT" /\ x < y
    \/ k = "GE" /\ x >= y
    \/ k = "LE" /\ x <= y
    \/ k = "EQ" /\ x = y

(* A compiled comparison returns the rows for which the scalar comparison  *)
(* of the two unsigned values holds.                                       *)
MaskExact == bit = -2 => mask = {r \in Rows : Scalar(kind, lval[r], rval[r])}

=============================================================================
