---------------------------- MODULE MCBlockPath ----------------------------
(***************************************************************************)
(* An instance of BlockPath: blocks of four rows of four bits, two stages  *)
(* of the transpose.                                                       *)
(***************************************************************************)
EXTENDS BlockPath

MCRows == Index

MCFirstRow == IndexOf(0)

Word4(v) == {IndexOf(b) : b \in {c \in 0 .. 3 : (v \div 2 ^ c) % 2 = 1}}

(* Any value in the first row, and others in the rows that follow.         *)
MCColumns ==
    {[r \in Index |-> Word4((x + 5 * RowNumber(r)) % 16)] : x \in 0 .. 15}

(* Other values, and the planes of an earlier block.                       *)
MCStale ==
    {[r \in Index |-> Word4((9 + 7 * RowNumber(r)) % 16)],
     [r \in Index |-> IF RowNumber(r) < 2 THEN Word4(15) ELSE {}]}

Const4(v) == [b \in 0 .. 3 |-> IF (v \div 2 ^ b) % 2 = 1 THEN Index ELSE {}]

(* Another field: a different value in each row.                           *)
Field4 == [b \in 0 .. 3 |-> {r \in Index : ((6 + 3 * RowNumber(r)) \div 2 ^ b) % 2 = 1}]

MCAddends == {Const4(11), Field4}

MCBounds == {Const4(0), Const4(6), Field4}

=============================================================================
