----------------------------- MODULE BitSlicer -----------------------------
(***************************************************************************)
(* BitSlicer::slice and slice_n (src/compute/bit_slicer.cpp and            *)
(* bit_slicer_fast.cpp): the in-place transpose that turns a block of row  *)
(* values into bit-planes.                                                 *)
(*                                                                         *)
(* A block has as many rows as a value has bits, 2^Levels of them (64, so  *)
(* Levels = 6, in the code).  A row number and a bit number are written in *)
(* binary, as functions from the levels 0 .. Levels-1 to Booleans, because *)
(* the stage with stride 2^j pairs the indices that differ in bit j.  A    *)
(* word is the set of its one bits.                                        *)
(***************************************************************************)
EXTENDS Integers

CONSTANT Levels  \* stages of the transpose: 6 in the code

ASSUME LevelsAssumption == Levels \in Nat \ {0}

Index == [0 .. (Levels - 1) -> BOOLEAN]

Word == SUBSET Index

VARIABLES
    data,    \* out.data: index |-> word
    input,   \* what the block held when slice was called
    planes,  \* the planes slice_n keeps: the indices below its n
    stage    \* the stage to run next: Levels-1 down to 0, then -1

vars == <<data, input, planes, stage>>

-----------------------------------------------------------------------------

(* The index k + 2^j, for an index k whose bit j is zero.                  *)
Up(k, j) == [k EXCEPT ![j] = TRUE]

Down(k, j) == [k EXCEPT ![j] = FALSE]

Xor(a, b) == (a \ b) \cup (b \ a)

ShiftRight(a, j) == {c \in Index : ~c[j] /\ Up(c, j) \in a}

ShiftLeft(a, j) == {c \in Index : c[j] /\ Down(c, j) \in a}

(* The stage's mask constant: the bits whose index has bit j zero.         *)
Mask(j) == {c \in Index : ~c[j]}

(* vt of Stage5 .. Stage1, t of Stage0, for the pair of words k, k + 2^j.  *)
Difference(j, k) == Xor(ShiftRight(data[k], j), data[Up(k, j)]) \cap Mask(j)

-----------------------------------------------------------------------------

(* Mutant: the first stride is the size of the block.                      *)
InitExtraStage ==
    /\ input \in [Index -> Word]
    /\ data = input
    /\ planes = Index
    /\ stage = Levels

(* slice_n on any block: its memcpy, or slice's, makes the transpose an in *)
(* place one whether or not the caller passed two buffers.                 *)
Init ==
    /\ input \in [Index -> Word]
    /\ data = input
    /\ planes = Index
    /\ stage = Levels - 1

(* Mutant: the stage's mask is forgotten.                                  *)
StageUnmasked ==
    /\ stage >= 0
    /\ data' = [k \in Index |->
                  IF k[stage]
                  THEN Xor(data[k], Xor(ShiftRight(data[Down(k, stage)], stage), data[k]))
                  ELSE Xor(data[k], ShiftLeft(Difference(stage, k), stage))]
    /\ stage' = stage - 1
    /\ UNCHANGED <<input, planes>>

(* One stage, over all its pairs: they touch disjoint words, so their      *)
(* order, and the number of lanes of a vector, do not matter.              *)
Stage ==
    /\ stage >= 0
    /\ data' = [k \in Index |->
                  IF k[stage]
                  THEN Xor(data[k], Difference(stage, Down(k, stage)))
                  ELSE Xor(data[k], ShiftLeft(Difference(stage, k), stage))]
    /\ stage' = stage - 1
    /\ UNCHANGED <<input, planes>>

(* The indices below n.                                                    *)
Below(n) ==
    {b \in Index : \E j \in 0 .. (Levels - 1) :
                     ~b[j] /\ n[j] /\ \A i \in (j + 1) .. (Levels - 1) : b[i] = n[i]}

(* Mutant: the planes up to n are kept.                                    *)
ClearAboveHighPlane ==
    /\ stage = -1
    /\ \E n \in Index :
         /\ planes' = Below(n)
         /\ data' = [k \in Index |-> IF k \in Below(n) \cup {n} THEN data[k] ELSE {}]
    /\ stage' = -2
    /\ UNCHANGED input

(* slice_n clears the planes from its n on, if n is below the word size.   *)
ClearHighPlanes ==
    /\ stage = -1
    /\ \E kept \in {Below(n) : n \in Index} \cup {Index} :
         /\ planes' = kept
         /\ data' = [k \in Index |-> IF k \in kept THEN data[k] ELSE {}]
    /\ stage' = -2
    /\ UNCHANGED input

Done ==
    /\ stage = -2
    /\ UNCHANGED vars

Next == Stage \/ ClearHighPlanes \/ Done

Spec == Init /\ [][Next]_vars

-----------------------------------------------------------------------------
(* Properties                                                              *)

(* Type invariant of the block and of the stage counter.                   *)
TypeOK ==
    /\ data \in [Index -> Word]
    /\ input \in [Index -> Word]
    /\ planes \in SUBSET Index
    /\ stage \in -2 .. (Levels - 1)

(* The index whose bits above the stage come from a, the others from b.    *)
Mix(a, b) == [j \in 0 .. (Levels - 1) |-> IF j > stage THEN a[j] ELSE b[j]]

(* Before each stage the block is transposed in the levels already done:   *)
(* the bit at row r, column c is the input's at row Mix(c, r), column      *)
(* Mix(r, c).                                                              *)
PartlyTransposed ==
    stage >= -1 =>
      \A r, c \in Index : c \in data[r] <=> Mix(r, c) \in input[Mix(c, r)]

(* slice_n leaves in plane b exactly the rows whose value has bit b set,   *)
(* and clears the planes the caller did not ask for.                       *)
Sliced ==
    stage = -2 =>
      \A b \in Index :
        data[b] = IF b \in planes THEN {r \in Index : b \in input[r]} ELSE {}

=============================================================================
