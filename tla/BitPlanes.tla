----------------------------- MODULE BitPlanes -----------------------------
(***************************************************************************)
(* A column of a block in bit-sliced form: plane b holds bit b of the      *)
(* value of every row, as the set of the rows whose bit is one.            *)
(***************************************************************************)
EXTENDS Integers

CONSTANTS
    Rows,      \* rows of a block: 64 in the code
    FirstRow,  \* the row held in bit 0 of a register
    Width      \* bit-planes of a value: 64 in the code

ASSUME PlanesAssumption == Width \in Nat \ {0} /\ FirstRow \in Rows

Planes == [0 .. (Width - 1) -> SUBSET Rows]

(* A constant has the same bit in every row.                               *)
ConstPlanes == [0 .. (Width - 1) -> {{}, Rows}]

=============================================================================
