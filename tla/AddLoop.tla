------------------------------ MODULE AddLoop ------------------------------
(***************************************************************************)
(* The unrolled ripple-carry loop of a compiled ADD or SUB node, least     *)
(* significant plane first (compile_expression of src/jit/compiler.cpp).   *)
(*                                                                         *)
(* weight, lval, rval and oval are history variables: the weight of the    *)
(* next bit, and the scalar values of the operands and of the result in    *)
(* the bits done so far, row by row.                                       *)
(***************************************************************************)
EXTENDS BitCircuits, BitPlanes

VARIABLES
    kind,                     \* node->kind: "ADD" or "SUB"
    left, right, out,         \* planes of the operands and of the result
    bit,                      \* the next bit of the loop
    carry,                    \* the node's carry register
    weight, lval, rval, oval  \* history, see above

vars == <<kind, left, right, out, bit, carry, weight, lval, rval, oval>>

-----------------------------------------------------------------------------

(* Mutant: SUB starts without a carry, like ADD.                           *)
CarryInNone(k) == {}

(* `mov carry, 1` for SUB sets bit 0 of the register, the carry of the     *)
(* first row, and clears the carries of the other rows.                    *)
CarryIn(k) == IF k = "SUB" THEN {FirstRow} ELSE {}

(* The scratchpad is zeroed before the kernel runs.                        *)
Init ==
    /\ kind \in {"ADD", "SUB"}
    /\ left \in Planes
    /\ right \in Planes
    /\ out = [k \in 0 .. (Width - 1) |-> {}]
    /\ bit = 0
    /\ carry = CarryIn(kind)
    /\ weight = 1
    /\ lval = [r \in Rows |-> 0]
    /\ rval = [r \in Rows |-> 0]
    /\ oval = [r \in Rows |-> 0]

(* The right operand's plane, complemented for SUB.                        *)
PlaneB == IF kind = "SUB" THEN Rows \ right[bit] ELSE right[bit]

Plus(val, plane) == [r \in Rows |-> val[r] + (IF r \in plane THEN weight ELSE 0)]

(* Mutant: the carry out of a bit ignores the carry into it.               *)
StepCarryLost ==
    /\ bit < Width
    /\ out' = [out EXCEPT ![bit] = SumBit(left[bit], PlaneB, carry)]
    /\ carry' = left[bit] \cap PlaneB
    /\ bit' = bit + 1
    /\ weight' = 2 * weight
    /\ lval' = Plus(lval, left[bit])
    /\ rval' = Plus(rval, right[bit])
    /\ oval' = Plus(oval, out'[bit])
    /\ UNCHANGED <<kind, left, right>>

Step ==
    /\ bit < Width
    /\ out' = [out EXCEPT ![bit] = SumBit(left[bit], PlaneB, carry)]
    /\ carry' = CarryBit(left[bit], PlaneB, carry)
    /\ bit' = bit + 1
    /\ weight' = 2 * weight
    /\ lval' = Plus(lval, left[bit])
    /\ rval' = Plus(rval, right[bit])
    /\ oval' = Plus(oval, out'[bit])
    /\ UNCHANGED <<kind, left, right>>

Done ==
    /\ bit = Width
    /\ UNCHANGED vars

Next == Step \/ Done

Spec == Init /\ [][Next]_vars

-----------------------------------------------------------------------------
(* Properties                                                              *)

(* Type invariant of the loop.                                             *)
TypeOK ==
    /\ kind \in {"ADD", "SUB"}
    /\ left \in Planes /\ right \in Planes /\ out \in Planes
    /\ bit \in 0 .. Width
    /\ carry \in SUBSET Rows
    /\ weight \in Nat \ {0}
    /\ lval \in [Rows -> Nat] /\ rval \in [Rows -> Nat] /\ oval \in [Rows -> Nat]

Units(set, r) == IF r \in set THEN weight ELSE 0

One(set, r) == IF r \in set THEN 1 ELSE 0

(* Between two bits, the result so far and the carry together are the sum  *)
(* of the operands so far; for SUB, of the left one and of the complement  *)
(* of the right one, plus the carry-in of the row.                         *)
CarryIdentity ==
    \A r \in Rows :
      /\ lval[r] < weight /\ rval[r] < weight /\ oval[r] < weight
      /\ kind = "ADD" => oval[r] + Units(carry, r) = lval[r] + rval[r]
      /\ kind = "SUB" =>
           oval[r] + Units(carry, r)
             = lval[r] + (weight - 1 - rval[r]) + One(CarryIn(kind), r)

(* ADD is addition modulo 2^Width in every row.                            *)
SumExact ==
    bit = Width /\ kind = "ADD" =>
      \A r \in Rows : oval[r] = (lval[r] + rval[r]) % weight

(* SUB is two's complement subtraction in the first row of a block, and    *)
(* one less than that in every other row.                                  *)
DifferenceByRow ==
    bit = Width /\ kind = "SUB" =>
      \A r \in Rows :
        oval[r] = (lval[r] - rval[r] - (IF r = FirstRow THEN 0 ELSE 1)) % weight

(* What compiled ADD and SUB nodes compute, row by row.                    *)
ArithmeticExact == SumExact /\ DifferenceByRow

=============================================================================
