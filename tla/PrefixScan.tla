----------------------------- MODULE PrefixScan -----------------------------
(***************************************************************************)
(* The parallel carry computation of the generated Metal kernel: the steps *)
(* of kogge_stone_scan (the string that generate_msl_source of             *)
(* src/api/engine.cpp emits).  A lane of a SIMD-group holds one bit        *)
(* position of all rows; a register is the set of the rows whose bit is    *)
(* one.  g is what the lanes of a range generate, p what they propagate.   *)
(***************************************************************************)
EXTENDS Integers

CONSTANTS
    Rows,  \* rows of a block: 64 in the code
    Lanes  \* lanes of a SIMD-group: 32 in the code

ASSUME LanesAssumption == Lanes \in Nat \ {0}

LaneIds == 0 .. (Lanes - 1)

Registers == [LaneIds -> SUBSET Rows]

(* Mutant: the propagate masks are not combined.                           *)
ScanPFixed(p, d) == p

(* One stride d of the scan: shuffle_up by d, and the lanes below d keep   *)
(* what they have.                                                         *)
ScanG(g, p, d) ==
    [l \in LaneIds |-> IF l >= d THEN g[l] \cup (p[l] \cap g[l - d]) ELSE g[l]]

ScanP(p, d) == [l \in LaneIds |-> IF l >= d THEN p[l] \cap p[l - d] ELSE p[l]]

(* The second SIMD-group's carries once the first one's carry is known.    *)
Carried(g, p, carry) == [l \in LaneIds |-> g[l] \cup (carry \cap p[l])]

=============================================================================
