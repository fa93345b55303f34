----------------------------- MODULE BlockPath -----------------------------
(***************************************************************************)
(* A block of rows on its way through the CPU engine: gathered into a      *)
(* column (gather_field and process_chunk_expr of src/api/engine.cpp),     *)
(* sliced into bit-planes (BitSlicer), added to or subtracted from         *)
(* (AddLoop), compared (CompareLoop) and counted (execute).                *)
(*                                                                         *)
(* The expression is "field op addend cmp bound"; the logic of set_logic   *)
(* is "field > bound", of kind "THRESHOLD", without an addition.           *)
(***************************************************************************)
EXTENDS BitSlicer, BitPlanes, FiniteSets

CONSTANTS
    Columns,  \* contents of a column: row -> word
    Stale,    \* what the gather buffer holds from earlier blocks: row -> word
    Addends,  \* planes of the second operand of the addition
    Bounds    \* planes of the right side of the comparison

ASSUME PathAssumption == Rows = Index /\ Width = 2 ^ Levels

VARIABLES
    valid,                      \* the rows of the block that are not padding
    op, addend, sum, abit, carry, weight, alval, arval, aoval,  \* AddLoop
    cmp, bound, cbit, gt, eq, mask, clval, crval,               \* CompareLoop
    count                       \* what the block adds to total_matches; -1 before

addVars == <<op, addend, sum, abit, carry, weight, alval, arval, aoval>>

cmpVars == <<cmp, bound, cbit, gt, eq, mask, clval, crval>>

pathVars == <<vars, valid, addVars, cmpVars, count>>

(* The numbers that the k lowest of n binary digits make, for each k, when *)
(* the ones are at the given positions.                                    *)
LowNumber(n, ones) ==
    LET low[k \in 0 .. n] ==
          IF k = 0 THEN 0 ELSE low[k - 1] + (IF k - 1 \in ones THEN 2 ^ (k - 1) ELSE 0)
    IN  low

Number(n, ones) == LowNumber(n, ones)[n]

RowNumber(r) == Number(Levels, {j \in 0 .. (Levels - 1) : r[j]})

IndexOf(b) == [j \in 0 .. (Levels - 1) |-> (b \div 2 ^ j) % 2 = 1]

(* field_planes_array_[0]: the planes of the gathered field.               *)
FieldPlanes == [b \in 0 .. (Width - 1) |-> data[IndexOf(b)]]

legacy == cmp = "THRESHOLD"

Add ==
    INSTANCE AddLoop WITH kind <- op, left <- FieldPlanes, right <- addend, out <- sum,
                          bit <- abit, lval <- alval, rval <- arval, oval <- aoval

(* The planes on the left of the comparison.                               *)
LeftPlanes == IF legacy THEN FieldPlanes ELSE sum

Compare ==
    INSTANCE CompareLoop WITH kind <- cmp, left <- LeftPlanes, right <- bound, bit <- cbit,
                              lval <- clval, rval <- crval

-----------------------------------------------------------------------------

Zeros == [r \in Index |-> {}]

(* Mutant: gather_field leaves the rest of the buffer alone.               *)
GatheredUnpadded(column, rows, simd5) ==
    {[r \in Index |-> IF r \in rows THEN column[r] ELSE old[r]] : old \in Stale}

(* gather_field zero-pads a short block.  The gather of five contiguous    *)
(* fields (use_simd_5) does not: the other rows keep what they held.       *)
Gathered(column, rows, simd5) ==
    {[r \in Index |-> IF r \in rows THEN column[r] ELSE old[r]] :
       old \in IF simd5 THEN Stale ELSE {Zeros}}

PathInit ==
    /\ valid \in {{r \in Index : RowNumber(r) < n} : n \in 1 .. Width}
    /\ cmp \in Compare!Kinds
    /\ \E column \in Columns, simd5 \in BOOLEAN :
         /\ simd5 => ~legacy
         /\ input \in Gathered(column, valid, simd5)
    /\ addend \in Addends
    /\ bound \in Bounds
    /\ Init
    /\ Add!Init
    /\ Compare!Init
    /\ count = -1

Slice ==
    /\ Stage \/ ClearHighPlanes
    /\ UNCHANGED <<valid, addVars, cmpVars, count>>

(* The kernel's arithmetic, for an expression.                             *)
Arithmetic ==
    /\ stage = -2 /\ ~legacy
    /\ UNCHANGED <<vars, valid, cmpVars, count>>
    /\ Add!Step

Comparison ==
    /\ stage = -2 /\ (legacy \/ abit = Width)
    /\ UNCHANGED <<vars, valid, addVars, count>>
    /\ Compare!Step \/ Compare!ThresholdStep \/ Compare!Finish

(* popcount; rows_mask is applied for an expression only.                  *)
Count ==
    /\ cbit = -2 /\ count = -1
    /\ count' = Cardinality(IF legacy THEN mask ELSE mask \cap valid)
    /\ UNCHANGED <<vars, valid, addVars, cmpVars>>

Counted == count >= 0 /\ UNCHANGED pathVars

PathNext == Slice \/ Arithmetic \/ Comparison \/ Count \/ Counted

PathSpec == PathInit /\ [][PathNext]_pathVars

-----------------------------------------------------------------------------
(* Properties                                                              *)

(* Type invariant of the block on its way.                                 *)
PathTypeOK ==
    /\ TypeOK /\ Add!TypeOK /\ Compare!TypeOK
    /\ valid \subseteq Index /\ count \in -1 .. Width

(* The comparison's mask holds the rows for which the scalar comparison of *)
(* the values in the planes holds; see CompareLoop.                        *)
MaskExact == Compare!MaskExact

(* The sum and the carry so far are the sum of the operands so far; see    *)
(* AddLoop.                                                                *)
CarryIdentity == Add!CarryIdentity

(* What compiled ADD and SUB nodes compute, row by row; see AddLoop.       *)
ArithmeticExact == Add!ArithmeticExact

(* The value of a row in the planes that slice_n was asked for.            *)
RowValue(r) == Number(Width, {b \in 0 .. (Width - 1) : IndexOf(b) \in planes \cap input[r]})

PlanesValue(p, r) == Number(Width, {b \in 0 .. (Width - 1) : r \in p[b]})

(* The left side of the comparison, as a scalar program computes it; SUB   *)
(* subtracts one more in every row but the first (DifferenceByRow).        *)
LeftSide(r) ==
    LET v == RowValue(r)
        w == PlanesValue(addend, r)
    IN  IF legacy THEN v
        ELSE IF op = "ADD" THEN (v + w) % 2 ^ Width
        ELSE (v - w - (IF r = FirstRow THEN 0 ELSE 1)) % 2 ^ Width

(* End to end, the block's count is the number of its rows, padding        *)
(* excluded, for which the scalar comparison of the gathered values holds: *)
(* no row of the padding, zero or left over from an earlier block, is      *)
(* counted, whether or not the count is masked.                            *)
PathExact ==
    count >= 0 =>
      count = Cardinality({r \in valid : Compare!Scalar(cmp, LeftSide(r), PlanesValue(bound, r))})

-----------------------------------------------------------------------------
(* The inductive invariant behind these properties.                        *)

(* The value of a row in the k lowest planes.                              *)
LowPlanes(p, r, k) == LowNumber(Width, {b \in 0 .. (Width - 1) : r \in p[b]})[k]

(* The arithmetic has read and written the planes below its bit.           *)
AddSoFar ==
    /\ weight = 2 ^ abit
    /\ \A r \in Index :
         /\ alval[r] = LowPlanes(FieldPlanes, r, abit)
         /\ arval[r] = LowPlanes(addend, r, abit)
         /\ aoval[r] = LowPlanes(sum, r, abit)

(* The comparison has read the planes above its bit.                       *)
CompareSoFar ==
    LET k == IF cbit = -2 THEN 0 ELSE cbit + 1
    IN  \A r \in Index :
          /\ clval[r] * 2 ^ k + LowPlanes(LeftPlanes, r, k) = PlanesValue(LeftPlanes, r)
          /\ crval[r] * 2 ^ k + LowPlanes(bound, r, k) = PlanesValue(bound, r)

(* The steps of a block are taken in the order of the code, and each of    *)
(* them finds what the one before it left.                                 *)
PathInv ==
    /\ PathTypeOK
    /\ PartlyTransposed /\ Sliced
    /\ CarryIdentity /\ Compare!PrefixOrder /\ MaskExact
    /\ stage # -2 => Add!Init
    /\ stage # -2 \/ ~ (legacy \/ abit = Width) => Compare!Init
    /\ AddSoFar /\ CompareSoFar
    /\ legacy => \A r \in Index \ valid : input[r] = {}
    /\ count >= 0 => cbit = -2
    /\ PathExact

=============================================================================
