--------------------------- MODULE ExecutionModes ---------------------------
(***************************************************************************)
(* The same expression on the same block in the two CPU modes of           *)
(* set_expression: ExecutionMode::BIT_SLICED (ExprKernel) and then         *)
(* ExecutionMode::SCALAR (ScalarKernel), both counted by execute of        *)
(* src/api/engine.cpp.                                                     *)
(***************************************************************************)
EXTENDS ExprKernel

VARIABLES
    srow, spc, smem, val_res, final_mask  \* ScalarKernel

scalarVars == <<srow, spc, smem, val_res, final_mask>>

modeVars == <<vars, scalarVars>>

Scalar == INSTANCE ScalarKernel WITH NumRows <- Cardinality(Rows), row <- srow, pc <- spc,
                                     mem <- smem

ModesInit == Init /\ Scalar!Init

BitSliced == Next /\ srow = 0 /\ spc = 1 /\ UNCHANGED scalarVars

(* After the first block, whose result is a mask, the scalar kernel.       *)
ScalarRun ==
    /\ phase = "counted" /\ ~second
    /\ IsMask(expr[Root(expr)])
    /\ UNCHANGED vars
    /\ Scalar!Evaluate \/ Scalar!Gather

(* Mutant: rows_mask is not applied.                                       *)
ScalarCountUnmasked == Cardinality(final_mask)

(* What execute counts from the scalar kernel's mask.                      *)
ScalarCount == Cardinality(final_mask \cap valid)

ScalarDone == srow = Cardinality(Rows) /\ UNCHANGED modeVars

ModesNext == BitSliced \/ ScalarRun \/ ScalarDone

ModesSpec == ModesInit /\ [][ModesNext]_modeVars

-----------------------------------------------------------------------------
(* Properties                                                              *)

(* The scalar kernel's mask holds the rows done so far that match; see     *)
(* ScalarKernel.                                                           *)
ScalarExact == phase = "counted" /\ IsMask(expr[Root(expr)]) => Scalar!ScalarExact

Uses(kinds) == \E n \in DOMAIN expr : expr[n].kind \in kinds

(* execute returns the same count in both modes: the popcount of the two   *)
(* kernels' masks agrees on the block, padding rows excluded.  NOT and SUM *)
(* have no scalar code, Uncoded operators none in either mode, and SUB     *)
(* differs from the second row on.                                         *)
ModesAgree ==
    srow = Cardinality(Rows) /\ AllCarriesAssigned /\ ~Uses({"NOT", "SUB", "SUM"} \cup Uncoded) =>
      ScalarCount = count

(* The count of a scalar program in which SUB subtracts and NOT negates.   *)
Documented ==
    Cardinality({r \in valid :
      ScalarValue(expr, Root(expr), [f \in DOMAIN data |-> data[f][r]], 2^Width,
                  LAMBDA x, y : x - y) = 1})

(* include/apex/jit/ir.hpp:20: "SUB, // Arithmetic sub (2's complement)",  *)
(* and docs/SDK_REFERENCE.md:345: apex_builder_not creates "a boolean      *)
(* logical NOT operator node (`!a`)".  Neither names an execution mode;    *)
(* stated here in a weaker form, that one of the two CPU modes counts what *)
(* is documented, so that its violation exhibits SUB in one mode and NOT   *)
(* in the other.                                                           *)
NodesAsDocumented == srow = Cardinality(Rows) => Documented \in {count, ScalarCount}

=============================================================================
