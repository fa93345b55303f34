-------------------------- MODULE BlockPathProofs --------------------------
(***************************************************************************)
(* A block of rows is transposed exactly, and its count is exact end to    *)
(* end, for every number of levels, that is for blocks of 2^Levels rows of *)
(* 2^Levels bits.                                                          *)
(***************************************************************************)
EXTENDS BlockPath, TLAPS

-----------------------------------------------------------------------------
(* The transpose of BitSlicer                                              *)

(* The pair of positions that a stage exchanges.                           *)
Swap(a, b, j) == [a EXCEPT ![j] = b[j]]

(* The pair of indices of a stage, as bit vectors.                         *)
LEMMA IndexFacts ==
  ASSUME NEW r \in Index, NEW j \in 0 .. (Levels - 1)
  PROVE  /\ r[j] \in BOOLEAN
         /\ Up(r, j) \in Index /\ Down(r, j) \in Index
         /\ Up(r, j)[j] = TRUE /\ Down(r, j)[j] = FALSE
         /\ r[j] = TRUE => Up(Down(r, j), j) = r /\ Up(r, j) = r
         /\ r[j] = FALSE => Down(Up(r, j), j) = r /\ Down(r, j) = r
  BY ZenonT(30) DEF Index, Up, Down

(* Exchanging one bit with another index sets or clears it.                *)
LEMMA SwapFacts ==
  ASSUME NEW r \in Index, NEW c \in Index, NEW j \in 0 .. (Levels - 1)
  PROVE  /\ Swap(r, c, j) \in Index
         /\ c[j] = TRUE => Swap(r, c, j) = Up(r, j)
         /\ c[j] = FALSE => Swap(r, c, j) = Down(r, j)
  BY ZenonT(30) DEF Index, Swap, Up, Down

(* One stage exchanges the bits of a pair of positions whose row and       *)
(* column differ in the stage's bit, and leaves the others alone.          *)
LEMMA StageSwaps ==
  ASSUME TypeOK, Stage, NEW r \in Index, NEW c \in Index
  PROVE  c \in data'[r] <=> Swap(c, r, stage) \in data[Swap(r, c, stage)]
<1> DEFINE s == stage
           u == Down(r, s)
           d == Down(c, s)
<1>1. s \in 0 .. (Levels - 1)
  BY DEF TypeOK, Stage
<1>2. data'[r] = IF r[s] THEN Xor(data[r], Difference(s, u))
                 ELSE Xor(data[r], ShiftLeft(Difference(s, r), s))
  BY DEF Stage
<1> HIDE DEF s, u, d
<1>3. \A k \in Index : c \in Difference(s, k)
        <=> ~c[s] /\ ((Up(c, s) \in data[k]) # (c \in data[Up(k, s)]))
  BY DEF Difference, Mask, ShiftRight, Xor
<1>4. c \in ShiftLeft(Difference(s, r), s)
        <=> c[s] /\ ((Up(d, s) \in data[r]) # (d \in data[Up(r, s)]))
  <2>1. d \in Index /\ ~d[s]
    BY ZenonT(30), <1>1, IndexFacts DEF d
  <2>2. d \in Difference(s, r) <=> ((Up(d, s) \in data[r]) # (d \in data[Up(r, s)]))
    BY <2>1 DEF Difference, Mask, ShiftRight, Xor
  <2>3. QED
    BY <2>2 DEF ShiftLeft, d
<1>5. r[s] \in BOOLEAN /\ c[s] \in BOOLEAN
  BY ZenonT(30), <1>1, IndexFacts
<1>6. CASE r[s] = TRUE
  <2>1. Up(u, s) = r /\ u \in Index /\ Up(r, s) = r
    BY ZenonT(30), <1>1, <1>6, IndexFacts DEF u
  <2>2. c \in data'[r] <=> IF c[s] THEN c \in data[r] ELSE Up(c, s) \in data[u]
    BY <1>2, <1>3, <1>6, <1>5, <2>1 DEF Xor
  <2>3. Swap(c, r, s) = Up(c, s)
    BY ZenonT(30), <1>1, <1>6, SwapFacts
  <2>4. CASE c[s] = TRUE
    <3>1. Up(c, s) = c
      BY ZenonT(30), <1>1, <2>4, IndexFacts
    <3>2. Swap(r, c, s) = r
      BY ZenonT(30), <1>1, <2>1, <2>4, SwapFacts
    <3>3. QED
      BY <2>2, <2>3, <2>4, <3>1, <3>2 DEF s
  <2>5. CASE c[s] = FALSE
    <3>1. Swap(r, c, s) = u
      BY ZenonT(30), <1>1, <2>5, SwapFacts DEF u
    <3>2. QED
      BY <2>2, <2>3, <2>5, <3>1 DEF s
  <2>6. QED
    BY ZenonT(30), <1>5, <2>4, <2>5
<1>7. CASE r[s] = FALSE
  <2>1. c[s] = TRUE => Up(d, s) = c
    BY ZenonT(30), <1>1, IndexFacts DEF d
  <2>2. c \in data'[r] <=> IF c[s] THEN d \in data[Up(r, s)] ELSE c \in data[r]
    BY <1>2, <1>4, <1>7, <1>5, <2>1 DEF Xor
  <2>3. Swap(c, r, s) = d
    BY ZenonT(30), <1>1, <1>7, SwapFacts DEF d
  <2>4. CASE c[s] = TRUE
    <3>1. Swap(r, c, s) = Up(r, s)
      BY ZenonT(30), <1>1, <2>4, SwapFacts
    <3>2. QED
      BY <2>2, <2>3, <2>4, <3>1 DEF s
  <2>5. CASE c[s] = FALSE
    <3>1. d = c /\ Down(r, s) = r
      BY ZenonT(30), <1>1, <1>7, <2>5, IndexFacts DEF d
    <3>2. Swap(r, c, s) = r
      BY ZenonT(30), <1>1, <2>5, <3>1, SwapFacts
    <3>3. QED
      BY <2>2, <2>3, <2>5, <3>1, <3>2 DEF s
  <2>6. QED
    BY ZenonT(30), <1>5, <2>4, <2>5
<1>8. QED
  BY ZenonT(30), <1>6, <1>7, <1>5

(* A stage leaves the block well typed.                                    *)
LEMMA StageTyped ==
  ASSUME TypeOK, Stage
  PROVE  TypeOK'
<1>1. stage \in 0 .. (Levels - 1)
  BY DEF TypeOK, Stage
<1>2. \A a \in Word, b \in Word : Xor(a, b) \in Word
  BY DEF Xor, Word
<1>3. \A k : Difference(stage, k) \in Word /\ ShiftLeft(Difference(stage, k), stage) \in Word
  BY DEF Difference, Mask, ShiftLeft, Word
<1>4. data' \in [Index -> Word]
  BY <1>2, <1>3 DEF Stage, TypeOK
<1>5. QED
  BY <1>1, <1>4, LevelsAssumption DEF Stage, TypeOK

(* A stage transposes one more level.                                      *)
LEMMA StageTransposes ==
  ASSUME TypeOK, PartlyTransposed, Stage
  PROVE  PartlyTransposed'
<1>1. stage \in 0 .. (Levels - 1) /\ stage' = stage - 1 /\ input' = input
  BY DEF TypeOK, Stage
<1>2. SUFFICES ASSUME NEW r \in Index, NEW c \in Index
               PROVE  c \in data'[r] <=> Mix(r, c)' \in input[Mix(c, r)']
  BY <1>1 DEF PartlyTransposed
<1> DEFINE r2 == Swap(r, c, stage)
           c2 == Swap(c, r, stage)
<1>3. r2 \in Index /\ c2 \in Index
  BY ZenonT(30), <1>1, SwapFacts
<1>4. c \in data'[r] <=> c2 \in data[r2]
  BY StageSwaps
<1>5. Mix(r2, c2) = Mix(r, c)' /\ Mix(c2, r2) = Mix(c, r)'
  <2>1. \A j \in 0 .. (Levels - 1) :
          /\ (IF j > stage THEN r2[j] ELSE c2[j]) = (IF j > stage - 1 THEN r[j] ELSE c[j])
          /\ (IF j > stage THEN c2[j] ELSE r2[j]) = (IF j > stage - 1 THEN c[j] ELSE r[j])
    BY <1>1 DEF Swap, Index
  <2>2. QED
    BY <1>1, <2>1 DEF Mix
<1>6. c2 \in data[r2] <=> Mix(r2, c2) \in input[Mix(c2, r2)]
  BY <1>1, <1>3 DEF PartlyTransposed
<1>7. QED
  BY <1>4, <1>5, <1>6

(* After the last stage the block is the transpose of the input.           *)
LEMMA LastStage ==
  ASSUME PartlyTransposed, stage = -1, NEW r \in Index, NEW c \in Index
  PROVE  c \in data[r] <=> r \in input[c]
<1>1. Mix(r, c) = r /\ Mix(c, r) = c
  BY DEF Mix, Index
<1>2. QED
  BY <1>1 DEF PartlyTransposed

(* The inductive invariant: what is known between two stages.              *)
SliceInv == TypeOK /\ PartlyTransposed /\ Sliced

(* The invariant holds of the block slice_n is given.                      *)
LEMMA InitSliceInv == Init => SliceInv
<1> SUFFICES ASSUME Init PROVE SliceInv
  OBVIOUS
<1>1. TypeOK
  BY LevelsAssumption DEF Init, TypeOK
<1>2. PartlyTransposed
  <2>1. \A r \in Index, c \in Index : Mix(r, c) = c
    BY LevelsAssumption DEF Init, Mix, Index
  <2>2. QED
    BY <2>1 DEF Init, PartlyTransposed
<1>3. Sliced
  BY LevelsAssumption DEF Init, Sliced
<1>4. QED
  BY <1>1, <1>2, <1>3 DEF SliceInv

(* Every step of slice_n preserves the invariant.                          *)
LEMMA NextSliceInv == SliceInv /\ [Next]_vars => SliceInv'
<1> SUFFICES ASSUME SliceInv, [Next]_vars PROVE SliceInv'
  OBVIOUS
<1> USE DEF SliceInv
<1>1. CASE Stage
  <2>1. Sliced'
    BY <1>1 DEF Stage, TypeOK, Sliced
  <2>2. QED
    BY <1>1, <2>1, StageTyped, StageTransposes
<1>2. CASE ClearHighPlanes
  <2>1. PICK kept \in {Below(n) : n \in Index} \cup {Index} :
          /\ planes' = kept
          /\ data' = [k \in Index |-> IF k \in kept THEN data[k] ELSE {}]
    BY <1>2 DEF ClearHighPlanes
  <2>2. kept \in SUBSET Index
    BY DEF Below
  <2>3. stage = -1 /\ stage' = -2 /\ input' = input
    BY <1>2 DEF ClearHighPlanes
  <2>4. TypeOK'
    BY <2>1, <2>2, <2>3, LevelsAssumption DEF TypeOK, Word
  <2>5. Sliced'
    <3>1. SUFFICES ASSUME NEW b \in Index
                   PROVE  data'[b] = IF b \in kept THEN {r \in Index : b \in input[r]} ELSE {}
      BY <2>1, <2>3 DEF Sliced
    <3>2. data[b] = {r \in Index : b \in input[r]}
      <4>1. data[b] \subseteq Index
        BY DEF TypeOK, Word
      <4>2. \A r \in Index : r \in data[b] <=> b \in input[r]
        BY <2>3, LastStage
      <4>3. QED
        BY <4>1, <4>2
    <3>3. QED
      BY ZenonT(30), <2>1, <3>2
  <2>6. PartlyTransposed'
    BY <2>3 DEF PartlyTransposed
  <2>7. QED
    BY <2>4, <2>5, <2>6
<1>3. CASE UNCHANGED vars
  <2>1. data' = data /\ input' = input /\ planes' = planes /\ stage' = stage
    BY <1>3 DEF vars
  <2>2. TypeOK'
    BY <2>1 DEF TypeOK
  <2>3. Sliced'
    BY <2>1 DEF Sliced
  <2>4. PartlyTransposed'
    <3>1. \A r \in Index, c \in Index : Mix(r, c)' = Mix(r, c)
      BY <2>1 DEF Mix
    <3>2. QED
      BY <2>1, <3>1 DEF PartlyTransposed
  <2>5. QED
    BY <2>2, <2>3, <2>4
<1>4. QED
  BY <1>1, <1>2, <1>3 DEF Next, Done

(* Before each stage of Transpose64x64 the block is transposed in the      *)
(* levels already done, for any block size that is a power of two.         *)
THEOREM TransposeByLevels == Spec => []PartlyTransposed
<1>1. SliceInv => PartlyTransposed
  BY DEF SliceInv
<1>2. QED
  BY <1>1, InitSliceInv, NextSliceInv, PTL DEF Spec

(* slice_n is exact: plane b holds the rows whose value has bit b set, for *)
(* every block and every number of planes asked for.                       *)
THEOREM SliceIsExact == Spec => []Sliced
<1>1. SliceInv => Sliced
  BY DEF SliceInv
<1>2. QED
  BY <1>1, InitSliceInv, NextSliceInv, PTL DEF Spec

-----------------------------------------------------------------------------
(* Every step of a block, given what the loops preserve                    *)

(* What the arithmetic preserves.                                          *)
AddInv == Add!TypeOK /\ Add!CarryIdentity /\ AddSoFar

(* What the comparison preserves.                                          *)
CompareInv == Compare!TypeOK /\ Compare!PrefixOrder /\ Compare!MaskExact /\ CompareSoFar

(* The rows that the count is about.                                       *)
Kept == {r \in valid : Compare!Scalar(cmp, LeftSide(r), PlanesValue(bound, r))}

(* The parts of PathInv, by the step of the block they belong to.          *)
LEMMA PathParts ==
  PathInv <=> /\ SliceInv /\ AddInv /\ CompareInv
              /\ valid \subseteq Index /\ count \in -1 .. Width
              /\ stage # -2 => Add!Init
              /\ stage # -2 \/ ~ (legacy \/ abit = Width) => Compare!Init
              /\ legacy => \A r \in Index \ valid : input[r] = {}
              /\ count >= 0 => cbit = -2
              /\ PathExact
  BY DEF PathInv, PathTypeOK, SliceInv, AddInv, CompareInv, CarryIdentity, MaskExact

(* The same of the next state.                                             *)
LEMMA PathPartsNext ==
  PathInv' <=> /\ SliceInv' /\ AddInv' /\ CompareInv'
               /\ valid' \subseteq Index /\ count' \in -1 .. Width
               /\ stage' # -2 => Add!Init'
               /\ stage' # -2 \/ ~ (legacy' \/ abit' = Width) => Compare!Init'
               /\ legacy' => \A r \in Index \ valid' : input'[r] = {}
               /\ count' >= 0 => cbit' = -2
               /\ PathExact'
  BY DEF PathInv, PathTypeOK, SliceInv, AddInv, CompareInv, CarryIdentity, MaskExact

(* The planes of the field are planes of the block.                        *)
LEMMA FieldPlanesTyped == TypeOK => FieldPlanes \in Planes
<1> SUFFICES ASSUME TypeOK PROVE FieldPlanes \in Planes
  OBVIOUS
<1>1. \A b \in 0 .. (Width - 1) : IndexOf(b) \in Index
  BY DEF IndexOf, Index
<1>2. QED
  BY <1>1, PathAssumption DEF FieldPlanes, Planes, TypeOK, Word

(* The transposed block has the gathered values in its planes.             *)
LEMMA RowsInPlanes ==
  ASSUME Sliced, stage = -2, NEW r \in Index
  PROVE  PlanesValue(FieldPlanes, r) = RowValue(r)
<1>1. \A b \in 0 .. (Width - 1) : IndexOf(b) \in Index
  BY DEF IndexOf, Index
<1>2. \A b \in 0 .. (Width - 1) : r \in FieldPlanes[b] <=> IndexOf(b) \in planes \cap input[r]
  BY ZenonT(60), <1>1 DEF FieldPlanes, Sliced
<1>3. {b \in 0 .. (Width - 1) : r \in FieldPlanes[b]}
        = {b \in 0 .. (Width - 1) : IndexOf(b) \in planes \cap input[r]}
  BY <1>2
<1>4. QED
  BY <1>3 DEF PlanesValue, RowValue

(* And its transpose, once it is sliced.                                   *)
LEMMA SliceRests ==
  ASSUME SliceInv, UNCHANGED <<data, input, planes, stage>>
  PROVE  SliceInv' /\ FieldPlanes' = FieldPlanes
<1>1. UNCHANGED vars
  BY DEF vars
<1>2. QED
  BY <1>1, NextSliceInv DEF FieldPlanes

(* A block that is elsewhere leaves its arithmetic alone.                  *)
LEMMA AddRests ==
  ASSUME FieldPlanes' = FieldPlanes,
         UNCHANGED <<op, addend, sum, abit, carry, weight, alval, arval, aoval>>
  PROVE  (AddInv => AddInv') /\ (Add!Init => Add!Init')
<1>1. Add!TypeOK => Add!TypeOK'
  BY DEF Add!TypeOK
<1>2. Add!CarryIdentity => Add!CarryIdentity'
  BY DEF Add!CarryIdentity, Add!Units, Add!One, Add!CarryIn
<1>3. AddSoFar => AddSoFar'
  BY DEF AddSoFar
<1>4. Add!Init => Add!Init'
  BY DEF Add!Init, Add!CarryIn
<1>5. QED
  BY <1>1, <1>2, <1>3, <1>4 DEF AddInv

(* And its comparison.                                                     *)
LEMMA CompareRests ==
  ASSUME LeftPlanes' = LeftPlanes, UNCHANGED <<cmp, bound, cbit, gt, eq, mask, clval, crval>>
  PROVE  (CompareInv => CompareInv') /\ (Compare!Init => Compare!Init')
<1>1. Compare!TypeOK => Compare!TypeOK'
  BY DEF Compare!TypeOK
<1>2. Compare!PrefixOrder => Compare!PrefixOrder'
  BY DEF Compare!PrefixOrder, Compare!Swapped
<1>3. Compare!MaskExact => Compare!MaskExact'
  BY DEF Compare!MaskExact
<1>4. CompareSoFar => CompareSoFar'
  BY DEF CompareSoFar
<1>5. Compare!Init => Compare!Init'
  BY DEF Compare!Init
<1>6. QED
  BY <1>1, <1>2, <1>3, <1>4, <1>5 DEF CompareInv

(* A block that is not yet sliced stays one nothing was computed from.     *)
LEMMA SliceKeepsInv ==
  ASSUME PathInv, Slice, (Add!Init => AddInv)', (Compare!Init => CompareInv)'
  PROVE  PathInv'
<1>1. /\ stage # -2 /\ input' = input
      /\ UNCHANGED <<valid, op, addend, sum, abit, carry, weight, alval, arval, aoval>>
      /\ UNCHANGED <<cmp, bound, cbit, gt, eq, mask, clval, crval, count>>
  <2>1. (Stage \/ ClearHighPlanes) /\ UNCHANGED <<valid, addVars, cmpVars, count>>
    BY DEF Slice
  <2>2. stage # -2 /\ input' = input
    BY <2>1, LevelsAssumption DEF Stage, ClearHighPlanes
  <2>3. QED
    BY ZenonT(60), <2>1, <2>2 DEF addVars, cmpVars
<1>2. /\ SliceInv /\ Add!Init /\ Compare!Init
      /\ valid \subseteq Index /\ count \in -1 .. Width /\ (count >= 0 => cbit = -2)
      /\ legacy => \A r \in Index \ valid : input[r] = {}
  BY ZenonT(60), <1>1, PathParts
<1>3. SliceInv'
  BY ZenonT(60), <1>2, NextSliceInv DEF Slice, Next
<1>4. FieldPlanes' \in Planes
  <2>1. (TypeOK => FieldPlanes \in Planes)'
    BY FieldPlanesTyped, PTL
  <2>2. QED
    BY ZenonT(60), <1>3, <2>1 DEF SliceInv
<1>5. Add!Init'
  BY <1>1, <1>2, <1>4 DEF Add!Init, Add!Planes, Add!CarryIn, Planes
<1>6. Compare!Init'
  <2>1. LeftPlanes' \in Planes
    BY <1>1, <1>2, <1>4 DEF LeftPlanes, legacy, Add!Init, Add!Planes, Compare!Init, Compare!Planes, Planes
  <2>2. QED
    BY <1>1, <1>2, <2>1 DEF Compare!Init, Compare!Planes, Compare!Operands, Planes
<1>7. AddInv' /\ CompareInv'
  BY ZenonT(60), <1>5, <1>6
<1>8. count' \in -1 .. Width /\ ~ (count' >= 0)
  <2>1. cbit = Width - 1
    BY ZenonT(60), <1>2 DEF Compare!Init
  <2>2. cbit # -2
    BY <2>1, PlanesAssumption
  <2>3. QED
    BY ZenonT(60), <1>1, <1>2, <2>2
<1>9. legacy' => \A r \in Index \ valid' : input'[r] = {}
  BY ZenonT(60), <1>1, <1>2 DEF legacy
<1>10. valid' \subseteq Index /\ PathExact'
  BY ZenonT(60), <1>1, <1>2, <1>8 DEF PathExact
<1>11. QED
  BY ZenonT(60), <1>3, <1>5, <1>6, <1>7, <1>8, <1>9, <1>10, PathPartsNext

(* The arithmetic of an expression runs between the transpose and the      *)
(* comparison.                                                             *)
LEMMA ArithmeticKeepsInv ==
  ASSUME PathInv, Arithmetic, AddInv', (Compare!Init => CompareInv)'
  PROVE  PathInv'
<1>1. /\ stage = -2 /\ ~legacy /\ Add!Step
      /\ UNCHANGED <<data, input, planes, stage, valid, count>>
      /\ UNCHANGED <<cmp, bound, cbit, gt, eq, mask, clval, crval>>
  BY ZenonT(60) DEF Arithmetic, vars, cmpVars
<1>2. abit # Width
  <2>1. abit < Width
    BY ZenonT(60), <1>1 DEF Add!Step
  <2>2. QED
    BY <2>1, PlanesAssumption
<1>3. /\ SliceInv /\ Compare!Init
      /\ valid \subseteq Index /\ count \in -1 .. Width /\ (count >= 0 => cbit = -2)
  BY ZenonT(60), <1>1, <1>2, PathParts
<1>4. SliceInv'
  BY ZenonT(60), <1>1, <1>3, SliceRests
<1>5. Compare!Init'
  <2>1. sum' \in Planes
    BY DEF AddInv, Add!TypeOK, Add!Planes, Planes
  <2>2. LeftPlanes' \in Planes
    BY ZenonT(60), <1>1, <2>1 DEF LeftPlanes, legacy
  <2>3. QED
    BY <1>1, <1>3, <2>2 DEF Compare!Init, Compare!Planes, Compare!Operands, Planes
<1>6. CompareInv'
  BY ZenonT(60), <1>5
<1>7. count' \in -1 .. Width /\ ~ (count' >= 0)
  <2>1. cbit = Width - 1
    BY ZenonT(60), <1>3 DEF Compare!Init
  <2>2. cbit # -2
    BY <2>1, PlanesAssumption
  <2>3. QED
    BY ZenonT(60), <1>1, <1>3, <2>2
<1>8. ~legacy' /\ stage' = -2 /\ valid' \subseteq Index /\ PathExact'
  BY ZenonT(60), <1>1, <1>3, <1>7 DEF legacy, PathExact
<1>9. QED
  BY ZenonT(60), <1>4, <1>5, <1>6, <1>7, <1>8, PathPartsNext

(* The comparison runs on a sliced block, after the arithmetic.            *)
LEMMA ComparisonKeepsInv ==
  ASSUME PathInv, Comparison, CompareInv'
  PROVE  PathInv'
<1>1. /\ stage = -2 /\ (legacy \/ abit = Width)
      /\ UNCHANGED <<data, input, planes, stage, valid, count>>
      /\ UNCHANGED <<op, addend, sum, abit, carry, weight, alval, arval, aoval>>
      /\ Compare!Step \/ Compare!ThresholdStep \/ Compare!Finish
  BY ZenonT(60) DEF Comparison, vars, addVars
<1>2. cmp' = cmp /\ cbit # -2
  BY <1>1 DEF Compare!Step, Compare!ThresholdStep, Compare!Finish
<1>3. /\ SliceInv /\ AddInv
      /\ valid \subseteq Index /\ count \in -1 .. Width /\ (count >= 0 => cbit = -2)
      /\ legacy => \A r \in Index \ valid : input[r] = {}
  BY ZenonT(60), PathParts
<1>4. SliceInv' /\ FieldPlanes' = FieldPlanes
  BY ZenonT(60), <1>1, <1>3, SliceRests
<1>5. AddInv'
  BY ZenonT(60), <1>1, <1>3, <1>4, AddRests
<1>6. count' \in -1 .. Width /\ ~ (count' >= 0)
  BY ZenonT(60), <1>1, <1>2, <1>3
<1>7. legacy' = legacy
  BY ZenonT(60), <1>2 DEF legacy
<1>8. /\ stage' = -2 /\ (legacy' \/ abit' = Width)
      /\ valid' \subseteq Index /\ PathExact'
      /\ legacy' => \A r \in Index \ valid' : input'[r] = {}
  BY ZenonT(60), <1>1, <1>3, <1>6, <1>7 DEF PathExact
<1>9. QED
  BY ZenonT(60), <1>4, <1>5, <1>6, <1>8, PathPartsNext

(* The popcount keeps PathInv if it counts the rows it is about.           *)
LEMMA CountKeepsInv ==
  ASSUME PathInv, Count, count' = Cardinality(Kept), count' \in 0 .. Width
  PROVE  PathInv'
<1>1. /\ cbit = -2
      /\ UNCHANGED <<data, input, planes, stage, valid>>
      /\ UNCHANGED <<op, addend, sum, abit, carry, weight, alval, arval, aoval>>
      /\ UNCHANGED <<cmp, bound, cbit, gt, eq, mask, clval, crval>>
  BY ZenonT(60) DEF Count, vars, addVars, cmpVars
<1>2. /\ SliceInv /\ AddInv /\ CompareInv /\ valid \subseteq Index
      /\ stage # -2 => Add!Init
      /\ stage # -2 \/ ~ (legacy \/ abit = Width) => Compare!Init
      /\ legacy => \A r \in Index \ valid : input[r] = {}
  BY ZenonT(60), PathParts
<1>3. SliceInv' /\ FieldPlanes' = FieldPlanes
  BY ZenonT(60), <1>1, <1>2, SliceRests
<1>4. legacy' = legacy /\ LeftPlanes' = LeftPlanes
  BY ZenonT(60), <1>1, <1>3 DEF legacy, LeftPlanes
<1>5. AddInv' /\ (Add!Init => Add!Init')
  BY ZenonT(60), <1>1, <1>2, <1>3, AddRests
<1>6. CompareInv' /\ (Compare!Init => Compare!Init')
  BY ZenonT(60), <1>1, <1>2, <1>4, CompareRests
<1>7. PathExact'
  <2>1. \A r : LeftSide(r)' = LeftSide(r)
    BY ZenonT(60), <1>1, <1>4 DEF LeftSide, RowValue
  <2>2. Kept' = Kept
    BY ZenonT(60), <1>1, <2>1 DEF Kept
  <2>3. QED
    BY ZenonT(60), <2>2 DEF PathExact, Kept
<1>8. count' \in -1 .. Width
  OBVIOUS
<1>9. /\ valid' \subseteq Index /\ cbit' = -2
      /\ stage' # -2 => Add!Init'
      /\ stage' # -2 \/ ~ (legacy' \/ abit' = Width) => Compare!Init'
      /\ legacy' => \A r \in Index \ valid' : input'[r] = {}
  BY ZenonT(60), <1>1, <1>2, <1>4, <1>5, <1>6
<1>10. QED
  BY ZenonT(60), <1>3, <1>5, <1>6, <1>7, <1>8, <1>9, PathPartsNext

(* Nothing changes after the count.                                        *)
LEMMA StutterKeepsInv ==
  ASSUME PathInv, UNCHANGED pathVars
  PROVE  PathInv'
<1>1. /\ UNCHANGED <<data, input, planes, stage, valid, count>>
      /\ UNCHANGED <<op, addend, sum, abit, carry, weight, alval, arval, aoval>>
      /\ UNCHANGED <<cmp, bound, cbit, gt, eq, mask, clval, crval>>
  BY ZenonT(60) DEF pathVars, vars, addVars, cmpVars
<1>2. /\ SliceInv /\ AddInv /\ CompareInv
      /\ valid \subseteq Index /\ count \in -1 .. Width /\ PathExact
      /\ stage # -2 => Add!Init
      /\ stage # -2 \/ ~ (legacy \/ abit = Width) => Compare!Init
      /\ legacy => \A r \in Index \ valid : input[r] = {}
      /\ count >= 0 => cbit = -2
  BY ZenonT(60), PathParts
<1>3. SliceInv' /\ FieldPlanes' = FieldPlanes
  BY ZenonT(60), <1>1, <1>2, SliceRests
<1>4. legacy' = legacy /\ LeftPlanes' = LeftPlanes
  BY ZenonT(60), <1>1, <1>3 DEF legacy, LeftPlanes
<1>5. AddInv' /\ (Add!Init => Add!Init')
  BY ZenonT(60), <1>1, <1>2, <1>3, AddRests
<1>6. CompareInv' /\ (Compare!Init => Compare!Init')
  BY ZenonT(60), <1>1, <1>2, <1>4, CompareRests
<1>7. PathExact'
  <2>1. \A r : LeftSide(r)' = LeftSide(r)
    BY ZenonT(60), <1>1, <1>4 DEF LeftSide, RowValue
  <2>2. QED
    BY ZenonT(60), <1>1, <1>2, <2>1 DEF PathExact
<1>8. /\ valid' \subseteq Index /\ count' \in -1 .. Width /\ (count' >= 0 => cbit' = -2)
      /\ stage' # -2 => Add!Init'
      /\ stage' # -2 \/ ~ (legacy' \/ abit' = Width) => Compare!Init'
      /\ legacy' => \A r \in Index \ valid' : input'[r] = {}
  BY ZenonT(60), <1>1, <1>2, <1>4, <1>5, <1>6
<1>9. QED
  BY ZenonT(60), <1>3, <1>5, <1>6, <1>7, <1>8, PathPartsNext

-----------------------------------------------------------------------------
(* Numbers and their binary digits                                         *)

(* The library's facts about finite sets and well-founded relations.       *)
Sets == INSTANCE FiniteSetTheorems

(* They are about the finite sets and cardinalities of BlockPath.          *)
LEMMA SetsAgree == \A S : (Sets!IsFiniteSet(S) <=> IsFiniteSet(S)) /\ Sets!Cardinality(S) = Cardinality(S)
<1>1. \A S : Sets!IsFiniteSet(S) <=> IsFiniteSet(S)
  BY Zenon DEF IsFiniteSet, Sets!IsFiniteSet
<1>2. \A S : Sets!Cardinality(S) = Cardinality(S)
  BY Zenon DEF Cardinality, Sets!Cardinality, IsFiniteSet, Sets!IsFiniteSet
<1>3. QED
  BY Zenon, <1>1, <1>2

(* A nonempty set of natural numbers has a least element.                  *)
LEMMA LeastNatural ==
  ASSUME NEW T, T \subseteq Nat, T # {}
  PROVE  \E x \in T : \A y \in T : x <= y
<1> DEFINE R == Sets!OpToRel(<, Nat)
<1>1. Sets!IsWellFoundedOn(R, Nat)
  BY Sets!NatLessThanWellFounded DEF Sets!NatLessThanWellFounded
<1>2. \A x \in Nat, y \in Nat : <<y, x>> \in R <=> y < x
  BY DEF Sets!OpToRel
<1> HIDE DEF R
<1>3. PICK x \in T : \A y \in T : ~ (<<y, x>> \in R)
  BY ZenonT(60), <1>1, Sets!WFMin DEF Sets!WFMin
<1>4. \A y \in T : ~ (y < x)
  BY ZenonT(30), <1>2, <1>3
<1>5. QED
  BY <1>4

(* Induction, with a set in the place of the formula.                      *)
LEMMA SetInduction ==
  ASSUME NEW S, 0 \in S, \A n \in Nat : n \in S => n + 1 \in S
  PROVE  Nat \subseteq S
<1> SUFFICES ASSUME Nat \ S # {} PROVE FALSE
  OBVIOUS
<1>1. PICK x \in Nat \ S : \A y \in Nat \ S : x <= y
  BY ZenonT(60), LeastNatural
<1>2. x # 0 /\ x - 1 \in Nat /\ ~(x <= x - 1)
  BY <1>1
<1>3. x - 1 \in S
  BY <1>1, <1>2
<1>4. x - 1 + 1 = x
  BY <1>1
<1>5. QED
  BY <1>1, <1>2, <1>3, <1>4

(* Powers of two count the subsets of an interval.                         *)
LEMMA PowerCounts ==
  ASSUME NEW n \in Nat
  PROVE  /\ Sets!IsFiniteSet(SUBSET (1 .. n))
         /\ Sets!Cardinality(SUBSET (1 .. n)) = 2 ^ n
<1>1. Sets!IsFiniteSet(1 .. n) /\ Sets!Cardinality(1 .. n) = n
  BY Sets!FS_Interval DEF Sets!FS_Interval
<1>2. QED
  BY ZenonT(60), <1>1, Sets!FS_SUBSET DEF Sets!FS_SUBSET

(* A power with exponent 0 is 1.                                           *)
LEMMA PowerZero == 2 ^ 0 = 1
<1>1. SUBSET (1 .. 0) = {{}}
  OBVIOUS
<1>2. QED
  BY <1>1, PowerCounts, Sets!FS_Singleton DEF Sets!FS_Singleton

(* 2^(n+1) = 2 * 2^n: each subset of 1..n gives one of 1..n+1 without n+1, *)
(* and one with it.                                                        *)
LEMMA PowerStep ==
  ASSUME NEW n \in Nat
  PROVE  2 ^ n \in Nat /\ 2 ^ (n + 1) = 2 * 2 ^ n
<1> DEFINE A == SUBSET (1 .. n)
           B == {s \in SUBSET (1 .. n + 1) : n + 1 \in s}
           f == [s \in A |-> s \cup {n + 1}]
<1>1. Sets!IsFiniteSet(A) /\ Sets!Cardinality(A) = 2 ^ n /\ Sets!Cardinality(A) \in Nat
  BY ZenonT(60), PowerCounts, Sets!FS_CardinalityType DEF Sets!FS_CardinalityType
<1>2. f \in Sets!Bijection(A, B)
  <2>1. f \in [A -> B]
    OBVIOUS
  <2>2. ASSUME NEW s \in A, NEW t \in A, f[s] = f[t] PROVE s = t
    <3>1. n + 1 \notin s /\ n + 1 \notin t
      OBVIOUS
    <3>2. QED
      BY <2>2, <3>1
  <2>3. ASSUME NEW t \in B PROVE \E s \in A : f[s] = t
    <3>1. t \ {n + 1} \in A
      OBVIOUS
    <3>2. f[t \ {n + 1}] = t
      BY <3>1
    <3>3. QED
      BY ZenonT(60), <3>1, <3>2
  <2> HIDE DEF f, A, B
  <2>4. QED
    BY <2>1, <2>2, <2>3 DEF Sets!Bijection, Sets!Injection, Sets!Surjection, Sets!IsInjective
<1>3. Sets!IsFiniteSet(B) /\ Sets!Cardinality(B) = 2 ^ n
  <2>1. Sets!ExistsBijection(A, B)
    BY ZenonT(60), <1>2 DEF Sets!ExistsBijection
  <2> HIDE DEF A, B
  <2>2. QED
    BY <1>1, <2>1, Sets!FS_Bijection DEF Sets!FS_Bijection
<1>4. A \cap B = {} /\ A \cup B = SUBSET (1 .. n + 1)
  OBVIOUS
<1>5. Sets!Cardinality(A \cup B) = 2 ^ n + 2 ^ n - 0
  <2> HIDE DEF A, B
  <2>1. QED
    BY ZenonT(60), <1>1, <1>3, <1>4, Sets!FS_Union, Sets!FS_EmptySet DEF Sets!FS_Union, Sets!FS_EmptySet
<1>6. Sets!Cardinality(SUBSET (1 .. n + 1)) = 2 ^ (n + 1)
  <2>1. n + 1 \in Nat
    OBVIOUS
  <2>2. QED
    BY ZenonT(60), <2>1, PowerCounts
<1> DEFINE p == 2 ^ n
           q == 2 ^ (n + 1)
<1>7. p \in Nat /\ q = p + p - 0
  BY ZenonT(30), <1>1, <1>4, <1>5, <1>6
<1>8. p \in Nat /\ q = 2 * p
  <2> HIDE DEF p, q
  <2>1. QED
    BY <1>7
<1>9. QED
  BY <1>8

(* The recursive definition of LowNumber has a solution, on every          *)
(* interval.                                                               *)
LEMMA LowExists ==
  ASSUME NEW ones, NEW n \in Nat
  PROVE  \E h : h = [k \in 0 .. n |->
                      IF k = 0 THEN 0 ELSE h[k - 1] + (IF k - 1 \in ones THEN 2 ^ (k - 1) ELSE 0)]
<1> DEFINE Digit(k) == IF k - 1 \in ones THEN 2 ^ (k - 1) ELSE 0
           S == {m \in Nat :
                   \E h : h = [k \in 0 .. m |-> IF k = 0 THEN 0 ELSE h[k - 1] + Digit(k)]}
<1> HIDE DEF Digit
<1>1. 0 \in S
  <2> DEFINE h == [k \in 0 .. 0 |-> 0]
  <2>1. h = [k \in 0 .. 0 |-> IF k = 0 THEN 0 ELSE h[k - 1] + Digit(k)]
    OBVIOUS
  <2> HIDE DEF h
  <2>2. QED
    BY <2>1
<1>2. ASSUME NEW m \in Nat, m \in S PROVE m + 1 \in S
  <2>1. PICK h : h = [k \in 0 .. m |-> IF k = 0 THEN 0 ELSE h[k - 1] + Digit(k)]
    BY <1>2
  <2> DEFINE g == [k \in 0 .. (m + 1) |-> IF k = m + 1 THEN h[m] + Digit(k) ELSE h[k]]
  <2>2. \A k \in 0 .. (m + 1) : g[k] = IF k = 0 THEN 0 ELSE g[k - 1] + Digit(k)
    BY <2>1
  <2>3. g = [k \in 0 .. (m + 1) |-> g[k]]
    OBVIOUS
  <2> HIDE DEF g
  <2>4. g = [k \in 0 .. (m + 1) |-> IF k = 0 THEN 0 ELSE g[k - 1] + Digit(k)]
    BY <2>2, <2>3
  <2>5. QED
    BY <2>4
<1>3. n \in S
  <2> HIDE DEF S
  <2>1. QED
    BY <1>1, <1>2, SetInduction
<1>4. QED
  BY <1>3 DEF Digit

(* So the digits can be read off one after the other.                      *)
LEMMA LowUnfolds ==
  ASSUME NEW ones, NEW n \in Nat
  PROVE  /\ LowNumber(n, ones)[0] = 0
         /\ \A k \in 0 .. (n - 1) :
              LowNumber(n, ones)[k + 1]
                = LowNumber(n, ones)[k] + (IF k \in ones THEN 2 ^ k ELSE 0)
<1> DEFINE L == LowNumber(n, ones)
           Digit(k) == IF k - 1 \in ones THEN 2 ^ (k - 1) ELSE 0
<1>1. L = [k \in 0 .. n |-> IF k = 0 THEN 0 ELSE L[k - 1] + Digit(k)]
  BY ZenonT(60), LowExists DEF LowNumber
<1> HIDE DEF L, Digit
<1>2. \A k \in 0 .. (n - 1) : L[k + 1] = L[(k + 1) - 1] + Digit(k + 1)
  BY <1>1
<1>3. \A k \in 0 .. (n - 1) : (k + 1) - 1 = k
  OBVIOUS
<1>4. \A k \in 0 .. (n - 1) : L[k + 1] = L[k] + Digit(k + 1)
  BY <1>2, <1>3
<1>5. \A k \in 0 .. (n - 1) : Digit(k + 1) = IF k \in ones THEN 2 ^ k ELSE 0
  BY <1>3 DEF Digit
<1>6. L[0] = 0
  BY <1>1
<1>7. QED
  BY <1>4, <1>5, <1>6 DEF L

(* The low digits make a natural number.                                   *)
LEMMA LowIsNat ==
  ASSUME NEW ones, NEW n \in Nat, NEW k \in 0 .. n
  PROVE  LowNumber(n, ones)[k] \in Nat
<1> DEFINE L == LowNumber(n, ones)
           S == {m \in Nat : m <= n => L[m] \in Nat}
<1>1. L[0] = 0 /\ \A m \in 0 .. (n - 1) : L[m + 1] = L[m] + (IF m \in ones THEN 2 ^ m ELSE 0)
  BY LowUnfolds
<1> HIDE DEF L
<1>2. 0 \in S
  BY <1>1
<1>3. ASSUME NEW m \in Nat, m \in S PROVE m + 1 \in S
  <2>1. SUFFICES ASSUME m + 1 <= n PROVE L[m + 1] \in Nat
    OBVIOUS
  <2>2. m \in 0 .. (n - 1) /\ L[m] \in Nat
    BY <1>3, <2>1
  <2>3. (IF m \in ones THEN 2 ^ m ELSE 0) \in Nat
    BY PowerStep
  <2>4. QED
    BY <1>1, <2>2, <2>3
<1>4. k \in S
  <2> HIDE DEF S
  <2>1. QED
    BY <1>2, <1>3, SetInduction
<1>5. QED
  BY <1>4 DEF L

(* They depend on the digits below only.                                   *)
LEMMA LowAgrees ==
  ASSUME NEW A, NEW B, NEW n \in Nat, NEW k \in 0 .. n,
         \A j \in 0 .. (k - 1) : j \in A <=> j \in B
  PROVE  LowNumber(n, A)[k] = LowNumber(n, B)[k]
<1> DEFINE L == LowNumber(n, A)
           M == LowNumber(n, B)
           S == {m \in Nat : m <= k => L[m] = M[m]}
<1>1. L[0] = 0 /\ \A m \in 0 .. (n - 1) : L[m + 1] = L[m] + (IF m \in A THEN 2 ^ m ELSE 0)
  BY LowUnfolds
<1>2. M[0] = 0 /\ \A m \in 0 .. (n - 1) : M[m + 1] = M[m] + (IF m \in B THEN 2 ^ m ELSE 0)
  BY LowUnfolds
<1> HIDE DEF L, M
<1>3. 0 \in S
  BY <1>1, <1>2
<1>4. ASSUME NEW m \in Nat, m \in S PROVE m + 1 \in S
  <2>1. SUFFICES ASSUME m + 1 <= k PROVE L[m + 1] = M[m + 1]
    OBVIOUS
  <2>2. m \in 0 .. (n - 1) /\ m \in 0 .. (k - 1) /\ L[m] = M[m]
    BY <1>4, <2>1
  <2>3. QED
    BY <1>1, <1>2, <2>2
<1>5. k \in S
  <2> HIDE DEF S
  <2>1. QED
    BY <1>3, <1>4, SetInduction
<1>6. QED
  BY <1>5 DEF L, M

(* Without a one digit the number is zero.                                 *)
LEMMA LowOfNothing ==
  ASSUME NEW n \in Nat
  PROVE  LowNumber(n, {})[n] = 0
<1> DEFINE L == LowNumber(n, {})
           S == {m \in Nat : m <= n => L[m] = 0}
<1>1. L[0] = 0 /\ \A m \in 0 .. (n - 1) : L[m + 1] = L[m] + 0
  BY LowUnfolds
<1> HIDE DEF L
<1>2. 0 \in S
  BY <1>1
<1>3. ASSUME NEW m \in Nat, m \in S PROVE m + 1 \in S
  BY <1>1, <1>3
<1>4. n \in S
  <2> HIDE DEF S
  <2>1. QED
    BY <1>2, <1>3, SetInduction
<1>5. QED
  BY <1>4 DEF L

-----------------------------------------------------------------------------
(* The values of rows in planes                                            *)

(* The value in one more plane.                                            *)
LEMMA LowPlanesSteps ==
  ASSUME NEW p, NEW r
  PROVE  /\ LowPlanes(p, r, 0) = 0
         /\ LowPlanes(p, r, Width) = PlanesValue(p, r)
         /\ \A k \in 0 .. Width : LowPlanes(p, r, k) \in Nat
         /\ \A k \in 0 .. (Width - 1) :
              LowPlanes(p, r, k + 1) = LowPlanes(p, r, k) + (IF r \in p[k] THEN 2 ^ k ELSE 0)
<1> DEFINE ones == {b \in 0 .. (Width - 1) : r \in p[b]}
<1>1. Width \in Nat
  BY PlanesAssumption
<1>2. \A k : LowPlanes(p, r, k) = LowNumber(Width, ones)[k]
  BY DEF LowPlanes
<1>3. \A k \in 0 .. (Width - 1) : k \in ones <=> r \in p[k]
  OBVIOUS
<1>4. PlanesValue(p, r) = LowNumber(Width, ones)[Width]
  BY DEF PlanesValue, Number
<1> HIDE DEF ones
<1>5. QED
  BY SMTT(60), <1>1, <1>2, <1>3, <1>4, LowUnfolds, LowIsNat

(* The value depends on the planes below only.                             *)
LEMMA LowPlanesAgree ==
  ASSUME NEW p, NEW q, NEW r, NEW k \in 0 .. Width, \A j \in 0 .. (k - 1) : p[j] = q[j]
  PROVE  LowPlanes(p, r, k) = LowPlanes(q, r, k)
<1> DEFINE A == {b \in 0 .. (Width - 1) : r \in p[b]}
           B == {b \in 0 .. (Width - 1) : r \in q[b]}
<1>1. Width \in Nat
  BY PlanesAssumption
<1>2. \A j \in 0 .. (k - 1) : j \in A <=> j \in B
  BY <1>1
<1>3. LowPlanes(p, r, k) = LowNumber(Width, A)[k] /\ LowPlanes(q, r, k) = LowNumber(Width, B)[k]
  BY DEF LowPlanes
<1> HIDE DEF A, B
<1>4. QED
  BY <1>1, <1>2, <1>3, LowAgrees

(* A padded row of a block that is zero-padded has the value zero.         *)
LEMMA PaddingIsZero ==
  ASSUME NEW r, input[r] = {}
  PROVE  RowValue(r) = 0
<1>1. {b \in 0 .. (Width - 1) : IndexOf(b) \in planes \cap input[r]} = {}
  OBVIOUS
<1>2. QED
  BY <1>1, LowOfNothing, PlanesAssumption DEF RowValue, Number

-----------------------------------------------------------------------------
(* The block on its way                                                    *)

(* Before its first bit the arithmetic has read nothing.                   *)
LEMMA AddStarts == Add!Init => AddSoFar
<1> SUFFICES ASSUME Add!Init PROVE AddSoFar
  OBVIOUS
<1>1. /\ abit = 0 /\ weight = 1
      /\ \A r \in Index : alval[r] = 0 /\ arval[r] = 0 /\ aoval[r] = 0
  BY PathAssumption DEF Add!Init
<1>2. QED
  BY <1>1, PowerZero, LowPlanesSteps DEF AddSoFar

(* Nor has the comparison.                                                 *)
LEMMA CompareStarts == Compare!Init => CompareSoFar
<1> SUFFICES ASSUME Compare!Init PROVE CompareSoFar
  OBVIOUS
<1>1. /\ cbit = Width - 1
      /\ \A r \in Index : clval[r] = 0 /\ crval[r] = 0
  BY PathAssumption DEF Compare!Init
<1>2. (IF cbit = -2 THEN 0 ELSE cbit + 1) = Width
  BY <1>1, PlanesAssumption
<1>3. \A p, r : 0 * 2 ^ Width + LowPlanes(p, r, Width) = PlanesValue(p, r)
  <2>1. ASSUME NEW p, NEW r PROVE 0 * 2 ^ Width + LowPlanes(p, r, Width) = PlanesValue(p, r)
    <3> DEFINE w == 2 ^ Width
               l == LowPlanes(p, r, Width)
    <3>1. w \in Nat /\ l \in Nat /\ l = PlanesValue(p, r)
      BY PowerStep, LowPlanesSteps, PlanesAssumption
    <3> HIDE DEF w, l
    <3>2. 0 * w + l = l
      BY <3>1
    <3>3. QED
      BY <3>1, <3>2 DEF w, l
  <2>2. QED
    BY <2>1
<1>4. QED
  BY <1>1, <1>2, <1>3 DEF CompareSoFar

(* One bit of the arithmetic reads and writes one more plane.              *)
LEMMA AddAdvances ==
  ASSUME Add!TypeOK, AddSoFar, Add!Step
  PROVE  AddSoFar'
<1>1. /\ abit \in 0 .. (Width - 1) /\ abit' = abit + 1 /\ weight' = 2 * weight
      /\ FieldPlanes' = FieldPlanes /\ addend' = addend
  BY SMTT(60), PlanesAssumption DEF Add!TypeOK, Add!Step
<1>2. weight = 2 ^ abit /\ weight' = 2 ^ (abit + 1)
  BY SMTT(60), <1>1, PowerStep DEF AddSoFar
<1>3. \A j \in 0 .. (abit - 1) : sum'[j] = sum[j]
  BY SMTT(60), <1>1 DEF Add!Step, Add!TypeOK, Add!Planes
<1>4. ASSUME NEW r \in Index
      PROVE  /\ alval'[r] = LowPlanes(FieldPlanes, r, abit + 1)
             /\ arval'[r] = LowPlanes(addend, r, abit + 1)
             /\ aoval'[r] = LowPlanes(sum', r, abit + 1)
  <2>1. /\ alval'[r] = alval[r] + (IF r \in FieldPlanes[abit] THEN weight ELSE 0)
        /\ arval'[r] = arval[r] + (IF r \in addend[abit] THEN weight ELSE 0)
        /\ aoval'[r] = aoval[r] + (IF r \in sum'[abit] THEN weight ELSE 0)
    BY SMTT(60), PathAssumption DEF Add!Step, Add!Plus
  <2>2. /\ alval[r] = LowPlanes(FieldPlanes, r, abit)
        /\ arval[r] = LowPlanes(addend, r, abit)
        /\ aoval[r] = LowPlanes(sum, r, abit)
    BY DEF AddSoFar
  <2>3. LowPlanes(sum', r, abit) = LowPlanes(sum, r, abit)
    <3>1. abit \in 0 .. Width
      BY <1>1, PlanesAssumption
    <3>2. QED
      BY ZenonT(60), <1>3, <3>1, LowPlanesAgree
  <2>4. \A p : LowPlanes(p, r, abit + 1)
                 = LowPlanes(p, r, abit) + (IF r \in p[abit] THEN 2 ^ abit ELSE 0)
    BY ZenonT(60), <1>1, LowPlanesSteps
  <2>5. QED
    BY ZenonT(60), <1>2, <2>1, <2>2, <2>3, <2>4
<1>5. QED
  BY SMTT(60), <1>1, <1>2, <1>4 DEF AddSoFar

(* A number read most significant digit first.                             *)
LEMMA ReadDown ==
  ASSUME NEW c \in Nat, NEW w \in Nat, NEW l \in Nat, NEW one \in {0, 1}
  PROVE  (2 * c + one) * w + l = c * (2 * w) + (l + one * w)
  OBVIOUS

(* One bit of the comparison reads one plane less from the values.         *)
LEMMA CompareReads ==
  ASSUME NEW p, NEW r, NEW k \in 0 .. (Width - 1), NEW c \in Nat,
         c * 2 ^ (k + 1) + LowPlanes(p, r, k + 1) = PlanesValue(p, r)
  PROVE  (2 * c + (IF r \in p[k] THEN 1 ELSE 0)) * 2 ^ k + LowPlanes(p, r, k) = PlanesValue(p, r)
<1> DEFINE w == 2 ^ k
           l == LowPlanes(p, r, k)
           one == IF r \in p[k] THEN 1 ELSE 0
<1>1. w \in Nat /\ 2 ^ (k + 1) = 2 * w
  BY SMTT(60), PowerStep, PlanesAssumption
<1>2. l \in Nat /\ LowPlanes(p, r, k + 1) = l + (IF r \in p[k] THEN w ELSE 0)
  BY LowPlanesSteps, PlanesAssumption
<1>3. one \in {0, 1} /\ (IF r \in p[k] THEN w ELSE 0) = one * w
  <2> HIDE DEF w
  <2>1. QED
    BY <1>1
<1>4. c * (2 * w) + (l + one * w) = PlanesValue(p, r)
  BY ZenonT(60), <1>1, <1>2, <1>3
<1> HIDE DEF w, l, one
<1>5. (2 * c + one) * w + l = c * (2 * w) + (l + one * w)
  BY SMTT(60), <1>1, <1>2, <1>3, ReadDown
<1>6. (2 * c + one) * w + l = PlanesValue(p, r)
  BY <1>4, <1>5
<1>7. QED
  BY <1>6 DEF w, l, one

(* A plane of the comparison is a step of CompareLoop, and what has been   *)
(* compared are the planes read so far.                                    *)
LEMMA CompareAdvances ==
  ASSUME Compare!TypeOK, CompareSoFar, Compare!Step \/ Compare!ThresholdStep \/ Compare!Finish
  PROVE  CompareSoFar'
<1>1. LeftPlanes' = LeftPlanes /\ bound' = bound
  BY DEF Compare!Step, Compare!ThresholdStep, Compare!Finish
<1>2. CASE Compare!Finish
  <2>1. /\ cbit = -1 /\ cbit' = -2 /\ clval' = clval /\ crval' = crval
    BY <1>2 DEF Compare!Finish
  <2>2. (IF cbit = -2 THEN 0 ELSE cbit + 1) = 0 /\ (IF cbit' = -2 THEN 0 ELSE cbit' + 1) = 0
    BY SMTT(60), <2>1
  <2>3. QED
    BY SMTT(60), <1>1, <2>1, <2>2 DEF CompareSoFar
<1>3. CASE Compare!Step \/ Compare!ThresholdStep
  <2>1. /\ cbit \in 0 .. (Width - 1) /\ cbit' = cbit - 1
        /\ clval' = Compare!Shifted(clval, LeftPlanes[cbit])
        /\ crval' = Compare!Shifted(crval, bound[cbit])
    <3>1. /\ cbit >= 0 /\ cbit' = cbit - 1
          /\ clval' = Compare!Shifted(clval, LeftPlanes[cbit])
          /\ crval' = Compare!Shifted(crval, bound[cbit])
      BY SMTT(60), <1>3 DEF Compare!Step, Compare!ThresholdStep
    <3>2. cbit \in -2 .. (Width - 1)
      BY DEF Compare!TypeOK
    <3>3. \A w \in Nat : \A k \in -2 .. (w - 1) : k >= 0 => k \in 0 .. (w - 1)
      OBVIOUS
    <3>4. QED
      BY ZenonT(60), <3>1, <3>2, <3>3, PlanesAssumption
  <2>2. /\ (IF cbit = -2 THEN 0 ELSE cbit + 1) = cbit + 1
        /\ (IF cbit' = -2 THEN 0 ELSE cbit' + 1) = cbit
    BY <2>1
  <2>3. ASSUME NEW r \in Index
        PROVE  /\ clval'[r] * 2 ^ cbit + LowPlanes(LeftPlanes, r, cbit) = PlanesValue(LeftPlanes, r)
               /\ crval'[r] * 2 ^ cbit + LowPlanes(bound, r, cbit) = PlanesValue(bound, r)
    <3>1. clval[r] \in Nat /\ crval[r] \in Nat
      BY SMTT(60), PathAssumption DEF Compare!TypeOK
    <3>2. /\ clval'[r] = 2 * clval[r] + (IF r \in LeftPlanes[cbit] THEN 1 ELSE 0)
          /\ crval'[r] = 2 * crval[r] + (IF r \in bound[cbit] THEN 1 ELSE 0)
      BY SMTT(60), <2>1, PathAssumption DEF Compare!Shifted
    <3>3. /\ clval[r] * 2 ^ (cbit + 1) + LowPlanes(LeftPlanes, r, cbit + 1)
               = PlanesValue(LeftPlanes, r)
          /\ crval[r] * 2 ^ (cbit + 1) + LowPlanes(bound, r, cbit + 1) = PlanesValue(bound, r)
      BY ZenonT(30), <2>2 DEF CompareSoFar
    <3>4. (2 * clval[r] + (IF r \in LeftPlanes[cbit] THEN 1 ELSE 0)) * 2 ^ cbit
            + LowPlanes(LeftPlanes, r, cbit) = PlanesValue(LeftPlanes, r)
      BY ZenonT(60), <2>1, <3>1, <3>3, CompareReads
    <3>5. (2 * crval[r] + (IF r \in bound[cbit] THEN 1 ELSE 0)) * 2 ^ cbit
            + LowPlanes(bound, r, cbit) = PlanesValue(bound, r)
      BY ZenonT(60), <2>1, <3>1, <3>3, CompareReads
    <3>6. QED
      BY ZenonT(60), <3>2, <3>4, <3>5
  <2>4. QED
    BY ZenonT(60), <1>1, <2>2, <2>3 DEF CompareSoFar
<1>4. QED
  BY ZenonT(60), <1>2, <1>3

(* What the comparison compared, when it is done: the left side a scalar   *)
(* program would compute from the gathered values, and the bound.          *)
LEMMA ComparedValues ==
  ASSUME PathInv, Add!ArithmeticExact, cbit = -2, NEW r \in Index
  PROVE  clval[r] = LeftSide(r) /\ crval[r] = PlanesValue(bound, r) /\ crval[r] \in Nat
<1>1. /\ Sliced /\ AddInv /\ CompareInv
      /\ stage # -2 \/ ~ (legacy \/ abit = Width) => Compare!Init
  BY ZenonT(60), PathParts DEF SliceInv
<1>2. stage = -2 /\ (legacy \/ abit = Width)
  <2>1. ~Compare!Init
    <3>1. Compare!Init => cbit = Width - 1
      BY ZenonT(60) DEF Compare!Init
    <3>2. QED
      BY <3>1, PlanesAssumption
  <2>2. QED
    BY ZenonT(60), <1>1, <2>1
<1>3. clval[r] \in Nat /\ crval[r] \in Nat
  BY <1>1, PathAssumption DEF CompareInv, Compare!TypeOK
<1>4. clval[r] = PlanesValue(LeftPlanes, r) /\ crval[r] = PlanesValue(bound, r)
  <2>1. /\ clval[r] * 1 + 0 = PlanesValue(LeftPlanes, r)
        /\ crval[r] * 1 + 0 = PlanesValue(bound, r)
    <3>1. (IF cbit = -2 THEN 0 ELSE cbit + 1) = 0
      OBVIOUS
    <3>2. /\ clval[r] * 2 ^ 0 + LowPlanes(LeftPlanes, r, 0) = PlanesValue(LeftPlanes, r)
          /\ crval[r] * 2 ^ 0 + LowPlanes(bound, r, 0) = PlanesValue(bound, r)
      BY ZenonT(60), <1>1, <3>1 DEF CompareInv, CompareSoFar
    <3>3. QED
      BY ZenonT(60), <3>2, PowerZero, LowPlanesSteps
  <2>2. QED
    BY <1>3, <2>1
<1>5. PlanesValue(FieldPlanes, r) = RowValue(r)
  BY ZenonT(60), <1>1, <1>2, RowsInPlanes
<1>6. CASE legacy
  BY ZenonT(60), <1>3, <1>4, <1>5, <1>6 DEF LeftPlanes, LeftSide
<1>7. CASE ~legacy
  <2>1. abit = Width /\ LeftPlanes = sum
    BY ZenonT(60), <1>2, <1>7 DEF LeftPlanes
  <2>2. /\ weight = 2 ^ Width
        /\ alval[r] = RowValue(r) /\ arval[r] = PlanesValue(addend, r)
        /\ aoval[r] = PlanesValue(sum, r)
    BY ZenonT(60), <1>1, <1>5, <2>1, LowPlanesSteps DEF AddInv, AddSoFar
  <2>3. op \in {"ADD", "SUB"}
    BY ZenonT(60), <1>1 DEF AddInv, Add!TypeOK
  <2>4. aoval[r] = IF op = "ADD" THEN (alval[r] + arval[r]) % weight
                   ELSE (alval[r] - arval[r] - (IF r = FirstRow THEN 0 ELSE 1)) % weight
    BY SMTT(60), <2>1, <2>3, PathAssumption DEF Add!ArithmeticExact, Add!SumExact, Add!DifferenceByRow
  <2>5. QED
    BY ZenonT(60), <1>3, <1>4, <1>7, <2>1, <2>2, <2>4 DEF LeftSide
<1>8. QED
  BY ZenonT(60), <1>6, <1>7

(* A block has 2^Levels rows, and no set of them more.                     *)
LEMMA BlockSize ==
  ASSUME NEW rows \in SUBSET Index
  PROVE  Cardinality(rows) \in 0 .. Width
<1> DEFINE J == 0 .. (Levels - 1)
           f == [r \in Index |-> {j \in J : r[j]}]
<1>1. Sets!IsFiniteSet(J) /\ Sets!Cardinality(J) = Levels
  BY SMTT(60), LevelsAssumption, Sets!FS_Interval DEF Sets!FS_Interval
<1>2. Sets!IsFiniteSet(SUBSET J) /\ Sets!Cardinality(SUBSET J) = Width
  BY ZenonT(60), <1>1, Sets!FS_SUBSET, PathAssumption DEF Sets!FS_SUBSET
<1>3. f \in Sets!Injection(Index, SUBSET J)
  <2>1. f \in [Index -> SUBSET J]
    OBVIOUS
  <2>2. ASSUME NEW a \in Index, NEW b \in Index, f[a] = f[b] PROVE a = b
    <3>1. \A j \in J : j \in f[a] <=> a[j]
      OBVIOUS
    <3>2. \A j \in J : j \in f[b] <=> b[j]
      OBVIOUS
    <3>3. a \in [J -> BOOLEAN] /\ b \in [J -> BOOLEAN]
      BY DEF Index
    <3> HIDE DEF f, J
    <3>4. \A j \in J : a[j] = b[j]
      BY ZenonT(60), <2>2, <3>1, <3>2, <3>3
    <3>5. a = [j \in J |-> a[j]] /\ b = [j \in J |-> b[j]]
      BY ZenonT(30), <3>3
    <3>6. [j \in J |-> a[j]] = [j \in J |-> b[j]]
      BY ZenonT(30), <3>4
    <3>7. QED
      BY ZenonT(30), <3>5, <3>6
  <2> HIDE DEF f, J
  <2>3. QED
    BY <2>1, <2>2 DEF Sets!Injection, Sets!IsInjective
<1> HIDE DEF f, J
<1>4. Sets!IsFiniteSet(Index) /\ Sets!Cardinality(Index) <= Width
  BY SMTT(60), <1>2, <1>3, Sets!FS_Injection DEF Sets!FS_Injection
<1>5. /\ Sets!IsFiniteSet(rows) /\ Sets!Cardinality(rows) <= Sets!Cardinality(Index)
      /\ Sets!Cardinality(rows) \in Nat /\ Sets!Cardinality(Index) \in Nat
  BY SMTT(60), <1>4, Sets!FS_Subset, Sets!FS_CardinalityType DEF Sets!FS_Subset, Sets!FS_CardinalityType
<1>6. QED
  BY <1>4, <1>5, SetsAgree, PlanesAssumption

(* The popcount is of the mask for the legacy logic, whose padding never   *)
(* exceeds a threshold, and of the masked rows for an expression: of the   *)
(* rows it is about in both cases.                                         *)
LEMMA CountsKept ==
  ASSUME PathInv, Add!ArithmeticExact, Count
  PROVE  count' = Cardinality(Kept) /\ count' \in 0 .. Width
<1>1. cbit = -2 /\ count' = Cardinality(IF legacy THEN mask ELSE mask \cap valid)
  BY ZenonT(60) DEF Count
<1>2. /\ valid \subseteq Index /\ Compare!MaskExact
      /\ legacy => \A r \in Index \ valid : input[r] = {}
  BY ZenonT(60), PathParts DEF CompareInv
<1>3. mask = {r \in Index : Compare!Scalar(cmp, LeftSide(r), PlanesValue(bound, r))}
  <2>1. mask = {r \in Index : Compare!Scalar(cmp, clval[r], crval[r])}
    BY ZenonT(60), <1>1, <1>2, PathAssumption DEF Compare!MaskExact
  <2>2. \A r \in Index : clval[r] = LeftSide(r) /\ crval[r] = PlanesValue(bound, r)
    BY ZenonT(60), <1>1, ComparedValues
  <2>3. QED
    BY ZenonT(60), <2>1, <2>2
<1>4. (IF legacy THEN mask ELSE mask \cap valid) = Kept
  <2>1. CASE ~legacy
    BY ZenonT(60), <1>2, <1>3, <2>1 DEF Kept
  <2>2. CASE legacy
    <3>1. ASSUME NEW r \in Index, r \notin valid
          PROVE  ~Compare!Scalar(cmp, LeftSide(r), PlanesValue(bound, r))
      <4>1. LeftSide(r) = 0
        BY ZenonT(60), <1>2, <2>2, <3>1, PaddingIsZero DEF LeftSide
      <4>2. PlanesValue(bound, r) \in Nat /\ cmp = "THRESHOLD"
        BY ZenonT(60), <1>1, <2>2, ComparedValues DEF legacy
      <4>3. QED
        BY <4>1, <4>2 DEF Compare!Scalar
    <3>2. QED
      BY ZenonT(60), <1>2, <1>3, <2>2, <3>1 DEF Kept
  <2>3. QED
    BY ZenonT(60), <2>1, <2>2
<1>5. Kept \in SUBSET Index
  BY ZenonT(60), <1>2 DEF Kept
<1>6. QED
  BY ZenonT(60), <1>1, <1>4, <1>5, BlockSize

-----------------------------------------------------------------------------
(* The loops of the kernel                                                 *)

AddProofs ==
    INSTANCE AddLoopProofs WITH kind <- op, left <- FieldPlanes, right <- addend, out <- sum,
                                bit <- abit, lval <- alval, rval <- arval, oval <- aoval

CompareProofs ==
    INSTANCE CompareLoopProofs WITH kind <- cmp, left <- LeftPlanes, right <- bound, bit <- cbit,
                                    lval <- clval, rval <- crval

(* The arithmetic of a block is the loop of AddLoopProofs.                 *)
LEMMA AddIsLoop ==
  /\ Add!Init <=> AddProofs!Init
  /\ Add!Step <=> AddProofs!Step
  /\ Add!TypeOK /\ Add!CarryIdentity <=> AddProofs!LoopInv
<1>1. Add!Init <=> AddProofs!Init
  BY ZenonT(60) DEF Add!Init, AddProofs!Init, Add!Planes, AddProofs!Planes, Add!CarryIn, AddProofs!CarryIn
<1>2. Add!Step <=> AddProofs!Step
  BY DEF Add!Step, AddProofs!Step, Add!SumBit, AddProofs!SumBit, Add!CarryBit, AddProofs!CarryBit,
         Add!Eor, AddProofs!Eor, Add!PlaneB, AddProofs!PlaneB, Add!Plus, AddProofs!Plus
<1>3. Add!TypeOK <=> AddProofs!TypeOK
  BY DEF Add!TypeOK, AddProofs!TypeOK, Add!Planes, AddProofs!Planes
<1>4. Add!CarryIdentity <=> AddProofs!CarryIdentity
  BY DEF Add!CarryIdentity, AddProofs!CarryIdentity, Add!Units, AddProofs!Units,
         Add!One, AddProofs!One, Add!CarryIn, AddProofs!CarryIn
<1>5. QED
  BY ZenonT(60), <1>1, <1>2, <1>3, <1>4 DEF AddProofs!LoopInv

(* Its comparison is the loop of CompareLoopProofs.                        *)
LEMMA CompareIsLoop ==
  /\ Compare!Init <=> CompareProofs!Init
  /\ Compare!Step \/ Compare!ThresholdStep \/ Compare!Finish
       <=> CompareProofs!Step \/ CompareProofs!ThresholdStep \/ CompareProofs!Finish
  /\ Compare!TypeOK /\ Compare!PrefixOrder /\ Compare!MaskExact <=> CompareProofs!LoopInv
<1>1. Compare!Init <=> CompareProofs!Init
  BY DEF Compare!Init, CompareProofs!Init, Compare!Planes, CompareProofs!Planes,
         Compare!Kinds, CompareProofs!Kinds, Compare!Comparisons, CompareProofs!Comparisons,
         Compare!Operands, CompareProofs!Operands, Compare!ConstPlanes, CompareProofs!ConstPlanes
<1>2. Compare!Step <=> CompareProofs!Step
  BY ZenonT(60) DEF Compare!Step, CompareProofs!Step, Compare!GtBit, CompareProofs!GtBit,
         Compare!EqBit, CompareProofs!EqBit, Compare!Eor, CompareProofs!Eor,
         Compare!PlaneA, CompareProofs!PlaneA, Compare!PlaneB, CompareProofs!PlaneB,
         Compare!Swapped, CompareProofs!Swapped, Compare!Shifted, CompareProofs!Shifted,
         Compare!Comparisons, CompareProofs!Comparisons
<1>3. Compare!ThresholdStep <=> CompareProofs!ThresholdStep
  BY DEF Compare!ThresholdStep, CompareProofs!ThresholdStep,
         Compare!GtConstBit, CompareProofs!GtConstBit, Compare!EqConstBit, CompareProofs!EqConstBit,
         Compare!Shifted, CompareProofs!Shifted
<1>4. Compare!Finish <=> CompareProofs!Finish
  BY DEF Compare!Finish, CompareProofs!Finish
<1>5. Compare!TypeOK <=> CompareProofs!TypeOK
  BY DEF Compare!TypeOK, CompareProofs!TypeOK, Compare!Planes, CompareProofs!Planes,
         Compare!Kinds, CompareProofs!Kinds, Compare!Comparisons, CompareProofs!Comparisons,
         Compare!Operands, CompareProofs!Operands, Compare!ConstPlanes, CompareProofs!ConstPlanes
<1>6. Compare!PrefixOrder <=> CompareProofs!PrefixOrder
  BY DEF Compare!PrefixOrder, CompareProofs!PrefixOrder, Compare!Swapped, CompareProofs!Swapped
<1>7. Compare!MaskExact <=> CompareProofs!MaskExact
  BY DEF Compare!MaskExact, CompareProofs!MaskExact, Compare!Scalar, CompareProofs!Scalar
<1>8. QED
  BY ZenonT(60), <1>1, <1>2, <1>3, <1>4, <1>5, <1>6, <1>7 DEF CompareProofs!LoopInv

(* What AddLoopProofs and CompareLoopProofs show of them.                  *)
LEMMA AddLoopFacts ==
  /\ Add!Init => Add!TypeOK /\ Add!CarryIdentity
  /\ Add!TypeOK /\ Add!CarryIdentity /\ Add!Step => (Add!TypeOK /\ Add!CarryIdentity)'
  /\ Add!TypeOK /\ Add!CarryIdentity => Add!ArithmeticExact
<1>1. AddProofs!Init => AddProofs!LoopInv
  BY AddProofs!InitLoopInv, PlanesAssumption DEF AddProofs!InitLoopInv
<1>2. AddProofs!LoopInv /\ AddProofs!Step => AddProofs!LoopInv'
  BY AddProofs!NextLoopInv, PlanesAssumption DEF AddProofs!NextLoopInv, AddProofs!Next
<1>3. (Add!TypeOK /\ Add!CarryIdentity <=> AddProofs!LoopInv)'
  BY AddIsLoop, PTL
<1>4. AddProofs!LoopInv => AddProofs!SumExact /\ AddProofs!DifferenceByRow
  BY ZenonT(60), AddProofs!SumFromIdentity, AddProofs!DifferenceFromIdentity, PlanesAssumption
     DEF AddProofs!SumFromIdentity, AddProofs!DifferenceFromIdentity
<1>5. AddProofs!SumExact /\ AddProofs!DifferenceByRow <=> Add!ArithmeticExact
  BY DEF Add!ArithmeticExact, Add!SumExact, Add!DifferenceByRow,
         AddProofs!SumExact, AddProofs!DifferenceByRow
<1>6. QED
  BY ZenonT(60), <1>1, <1>2, <1>3, <1>4, <1>5, AddIsLoop

(* The same of the comparison and its loop.                                *)
LEMMA CompareLoopFacts ==
  /\ Compare!Init => Compare!TypeOK /\ Compare!PrefixOrder /\ Compare!MaskExact
  /\ /\ Compare!TypeOK /\ Compare!PrefixOrder /\ Compare!MaskExact
     /\ Compare!Step \/ Compare!ThresholdStep \/ Compare!Finish
     => (Compare!TypeOK /\ Compare!PrefixOrder /\ Compare!MaskExact)'
<1>1. CompareProofs!Init => CompareProofs!LoopInv
  BY CompareProofs!InitLoopInv, PlanesAssumption DEF CompareProofs!InitLoopInv
<1>2. /\ CompareProofs!LoopInv
      /\ CompareProofs!Step \/ CompareProofs!ThresholdStep \/ CompareProofs!Finish
      => CompareProofs!LoopInv'
  BY CompareProofs!NextLoopInv, PlanesAssumption DEF CompareProofs!NextLoopInv, CompareProofs!Next
<1>3. (Compare!TypeOK /\ Compare!PrefixOrder /\ Compare!MaskExact <=> CompareProofs!LoopInv)'
  BY CompareIsLoop, PTL
<1>4. QED
  BY ZenonT(60), <1>1, <1>2, <1>3, CompareIsLoop

-----------------------------------------------------------------------------
(* The block, end to end                                                   *)

(* PathInv holds of a gathered block.                                      *)
LEMMA InitPathInv == PathInit => PathInv
<1> SUFFICES ASSUME PathInit PROVE PathInv
  OBVIOUS
<1>1. Init /\ Add!Init /\ Compare!Init /\ count = -1 /\ valid \subseteq Index
  BY DEF PathInit
<1>2. SliceInv
  BY <1>1, InitSliceInv
<1>3. AddInv /\ CompareInv
  BY ZenonT(60), <1>1, AddLoopFacts, CompareLoopFacts, AddStarts, CompareStarts DEF AddInv, CompareInv
<1>4. count \in -1 .. Width /\ ~ (count >= 0)
  BY <1>1, PlanesAssumption
<1>5. legacy => \A r \in Index \ valid : input[r] = {}
  <2>1. PICK column \in Columns, simd5 \in BOOLEAN :
          (simd5 => ~legacy) /\ input \in Gathered(column, valid, simd5)
    BY DEF PathInit
  <2>2. QED
    BY <2>1 DEF Gathered, Zeros
<1>6. PathExact
  BY ZenonT(60), <1>4 DEF PathExact
<1>7. QED
  BY ZenonT(60), <1>1, <1>2, <1>3, <1>4, <1>5, <1>6, PathParts

(* Every step of a block preserves PathInv.                                *)
LEMMA NextPathInv == PathInv /\ [PathNext]_pathVars => PathInv'
<1>1. (Add!Init => AddInv)' /\ (Compare!Init => CompareInv)'
  <2>1. (Add!Init => AddInv) /\ (Compare!Init => CompareInv)
    BY ZenonT(60), AddLoopFacts, CompareLoopFacts, AddStarts, CompareStarts DEF AddInv, CompareInv
  <2>2. QED
    BY <2>1, PTL
<1> SUFFICES ASSUME PathInv, [PathNext]_pathVars PROVE PathInv'
  OBVIOUS
<1>2. AddInv /\ CompareInv
  BY ZenonT(60), PathParts
<1>3. CASE Slice
  BY ZenonT(60), <1>1, <1>3, SliceKeepsInv
<1>4. CASE Arithmetic
  <2>1. Add!Step
    BY ZenonT(60), <1>4 DEF Arithmetic
  <2>2. AddInv'
    BY ZenonT(60), <1>2, <2>1, AddLoopFacts, AddAdvances DEF AddInv
  <2>3. QED
    BY ZenonT(60), <1>1, <1>4, <2>2, ArithmeticKeepsInv
<1>5. CASE Comparison
  <2>1. Compare!Step \/ Compare!ThresholdStep \/ Compare!Finish
    BY ZenonT(60), <1>5 DEF Comparison
  <2>2. CompareInv'
    BY ZenonT(60), <1>2, <2>1, CompareLoopFacts, CompareAdvances DEF CompareInv
  <2>3. QED
    BY ZenonT(60), <1>5, <2>2, ComparisonKeepsInv
<1>6. CASE Count
  <2>1. Add!ArithmeticExact
    BY ZenonT(60), <1>2, AddLoopFacts DEF AddInv
  <2>2. QED
    BY ZenonT(60), <1>6, <2>1, CountsKept, CountKeepsInv
<1>7. CASE UNCHANGED pathVars
  BY ZenonT(60), <1>7, StutterKeepsInv
<1>8. QED
  BY ZenonT(60), <1>3, <1>4, <1>5, <1>6, <1>7 DEF PathNext, Counted

(* The inductive invariant: gather, slice, arithmetic, comparison and      *)
(* count follow each other, and each of them finds what the last one left. *)
THEOREM PathInvariant == PathSpec => []PathInv
<1>1. QED
  BY InitPathInv, NextPathInv, PTL DEF PathSpec

(* The mask of a block's comparison is exact.                              *)
THEOREM PathMaskIsExact == PathSpec => []MaskExact
<1>1. PathInv => MaskExact
  BY DEF PathInv
<1>2. QED
  BY <1>1, PathInvariant, PTL

(* Between two planes the sum so far and the carry are exact in every row  *)
(* of a block.                                                             *)
THEOREM PathCarryIsExact == PathSpec => []CarryIdentity
<1>1. PathInv => CarryIdentity
  BY DEF PathInv
<1>2. QED
  BY <1>1, PathInvariant, PTL

(* The arithmetic of a block is exact in every row.                        *)
THEOREM PathArithmeticIsExact == PathSpec => []ArithmeticExact
<1>1. PathInv => ArithmeticExact
  BY ZenonT(60), AddLoopFacts, PathParts DEF AddInv, ArithmeticExact
<1>2. QED
  BY <1>1, PathInvariant, PTL

(* End to end: the count of a block is the number of its rows for which    *)
(* the scalar comparison of the gathered values holds, padding excluded,   *)
(* for every block size 2^Levels.                                          *)
THEOREM CountIsExact == PathSpec => []PathExact
<1>1. PathInv => PathExact
  BY DEF PathInv
<1>2. QED
  BY <1>1, PathInvariant, PTL

=============================================================================
