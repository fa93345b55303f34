----------------------------- MODULE KoggeStone -----------------------------
(***************************************************************************)
(* The Kogge-Stone scan of one SIMD-group, stride by stride.               *)
(***************************************************************************)
EXTENDS PrefixScan

VARIABLES
    g, p,          \* generate and propagate masks of the lanes
    cur_g, cur_p,  \* the scan's registers
    stride         \* the next stride

scanVars == <<g, p, cur_g, cur_p, stride>>

ScanInit ==
    /\ g \in Registers
    /\ p \in Registers
    /\ cur_g = g
    /\ cur_p = p
    /\ stride = 1

ScanNext ==
    /\ stride < Lanes
    /\ cur_g' = ScanG(cur_g, cur_p, stride)
    /\ cur_p' = ScanP(cur_p, stride)
    /\ stride' = 2 * stride
    /\ UNCHANGED <<g, p>>

ScanSpec == ScanInit /\ [][ScanNext]_scanVars

-----------------------------------------------------------------------------
(* Properties                                                              *)

(* The carry out of lane l when the carries c follow from g and p one lane *)
(* after the other, from the carry in, as in a ripple-carry adder.         *)
Ripples(c, carry) ==
    \A l \in LaneIds : c[l] = g[l] \cup (p[l] \cap (IF l = 0 THEN carry ELSE c[l - 1]))

(* After the last stride every lane holds the carry out of its bit that a  *)
(* ripple-carry adder without a carry in computes, and adding the carry of *)
(* the lower half gives that of a ripple-carry adder with this carry in.   *)
RippleCarry ==
    stride >= Lanes =>
      /\ Ripples(cur_g, {})
      /\ \A carry \in SUBSET Rows : Ripples(Carried(cur_g, cur_p, carry), carry)

=============================================================================
