-------------------------- MODULE KoggeStoneProofs --------------------------
(***************************************************************************)
(* The Kogge-Stone scan computes the ripple carries, for every number of   *)
(* lanes of a SIMD-group and every number of rows.                         *)
(*                                                                         *)
(* Before the stride d, a lane has combined itself with the d - 1 lanes    *)
(* below it, or with all of them if there are fewer.                       *)
(***************************************************************************)
EXTENDS KoggeStone, TLAPS

(* The lowest lane that lane l has combined.                               *)
Low(l, d) == IF l - d + 1 < 0 THEN 0 ELSE l - d + 1

(* Row r has a carry generated in a lane of i .. j and propagated to j.    *)
Generated(gen, prop, i, j, r) ==
    \E k \in i .. j : r \in gen[k] /\ \A m \in (k + 1) .. j : r \in prop[m]

(* Row r propagates a carry through the lanes i .. j.                      *)
Propagated(prop, i, j, r) == \A m \in i .. j : r \in prop[m]

(* What is known between two strides.                                      *)
ScanInv ==
    /\ g \in Registers /\ p \in Registers
    /\ cur_g \in Registers /\ cur_p \in Registers
    /\ stride \in Nat \ {0}
    /\ \A l \in LaneIds, r \in Rows :
         /\ r \in cur_g[l] <=> Generated(g, p, Low(l, stride), l, r)
         /\ r \in cur_p[l] <=> Propagated(p, Low(l, stride), l, r)

(* Before the first stride a lane has combined nothing but itself.         *)
LEMMA InitScanInv == ScanInit => ScanInv
<1> SUFFICES ASSUME ScanInit PROVE ScanInv
  OBVIOUS
<1>1. ASSUME NEW l \in LaneIds, NEW r \in Rows
      PROVE  /\ r \in cur_g[l] <=> Generated(g, p, Low(l, stride), l, r)
             /\ r \in cur_p[l] <=> Propagated(p, Low(l, stride), l, r)
  <2>1. l \in Nat /\ Low(l, 1) = l /\ stride = 1
    BY LanesAssumption DEF ScanInit, LaneIds, Low
  <2>2. Generated(g, p, l, l, r) <=> r \in g[l]
    BY <2>1 DEF Generated
  <2>3. Propagated(p, l, l, r) <=> r \in p[l]
    BY <2>1 DEF Propagated
  <2>4. QED
    BY <2>1, <2>2, <2>3 DEF ScanInit
<1>2. QED
  BY <1>1 DEF ScanInit, ScanInv

(* Two adjacent ranges of lanes combine as the scan combines them.         *)
LEMMA Combine ==
  ASSUME NEW i \in Nat, NEW h \in Nat, NEW j \in Nat, i < h, h <= j, NEW r
  PROVE  /\ Generated(g, p, i, j, r)
              <=> Generated(g, p, h, j, r) \/ (Propagated(p, h, j, r) /\ Generated(g, p, i, h - 1, r))
         /\ Propagated(p, i, j, r) <=> Propagated(p, h, j, r) /\ Propagated(p, i, h - 1, r)
<1>1. Propagated(p, i, j, r) <=> Propagated(p, h, j, r) /\ Propagated(p, i, h - 1, r)
  BY DEF Propagated
<1>2. ASSUME Generated(g, p, i, j, r)
      PROVE  Generated(g, p, h, j, r) \/ (Propagated(p, h, j, r) /\ Generated(g, p, i, h - 1, r))
  <2>1. PICK k \in i .. j : r \in g[k] /\ \A m \in (k + 1) .. j : r \in p[m]
    BY <1>2 DEF Generated
  <2>2. CASE k >= h
    BY <2>1, <2>2 DEF Generated
  <2>3. CASE k < h
    <3>1. k \in i .. (h - 1) /\ \A m \in (k + 1) .. (h - 1) : r \in p[m]
      BY <2>1, <2>3
    <3>2. Propagated(p, h, j, r)
      BY <2>1, <2>3 DEF Propagated
    <3>3. QED
      BY <2>1, <3>1, <3>2 DEF Generated
  <2>4. QED
    BY <2>2, <2>3
<1>3. ASSUME Generated(g, p, h, j, r)
      PROVE  Generated(g, p, i, j, r)
  <2>1. PICK k \in h .. j : r \in g[k] /\ \A m \in (k + 1) .. j : r \in p[m]
    BY <1>3 DEF Generated
  <2>2. k \in i .. j
    OBVIOUS
  <2>3. QED
    BY <2>1, <2>2 DEF Generated
<1>4. ASSUME Propagated(p, h, j, r), Generated(g, p, i, h - 1, r)
      PROVE  Generated(g, p, i, j, r)
  <2>1. PICK k \in i .. (h - 1) : r \in g[k] /\ \A m \in (k + 1) .. (h - 1) : r \in p[m]
    BY <1>4 DEF Generated
  <2>2. k \in i .. j
    OBVIOUS
  <2>3. ASSUME NEW m \in (k + 1) .. j
        PROVE  r \in p[m]
    <3>1. CASE m < h
      BY <2>1, <3>1
    <3>2. CASE m >= h
      BY <1>4, <3>2 DEF Propagated
    <3>3. QED
      BY <3>1, <3>2
  <2>4. QED
    BY <2>1, <2>2, <2>3 DEF Generated
<1>5. QED
  BY <1>1, <1>2, <1>3, <1>4

(* One stride doubles the lanes that a lane has combined.                  *)
LEMMA NextScanInv == ScanInv /\ [ScanNext]_scanVars => ScanInv'
<1> SUFFICES ASSUME ScanInv, [ScanNext]_scanVars PROVE ScanInv'
  OBVIOUS
<1>1. CASE ScanNext
  <2>1. cur_g' \in Registers /\ cur_p' \in Registers
    BY <1>1, LanesAssumption DEF ScanInv, ScanNext, ScanG, ScanP, Registers, LaneIds
  <2>2. ASSUME NEW l \in LaneIds, NEW r \in Rows
        PROVE  /\ r \in cur_g'[l] <=> Generated(g, p, Low(l, 2 * stride), l, r)
               /\ r \in cur_p'[l] <=> Propagated(p, Low(l, 2 * stride), l, r)
    <3>1. l \in Nat /\ stride \in Nat \ {0}
      BY DEF LaneIds, ScanInv
    <3>2. CASE l < stride
      <4>1. Low(l, 2 * stride) = 0 /\ Low(l, stride) = 0
        BY <3>1, <3>2 DEF Low
      <4>2. cur_g'[l] = cur_g[l] /\ cur_p'[l] = cur_p[l]
        BY <1>1, <3>1, <3>2 DEF ScanNext, ScanG, ScanP
      <4>3. QED
        BY <4>1, <4>2 DEF ScanInv
    <3>3. CASE l >= stride
      <4> DEFINE h == Low(l, stride)
                 e == l - stride
                 i == Low(l, 2 * stride)
      <4>1. /\ h \in Nat /\ i \in Nat /\ e \in LaneIds /\ h - 1 = e /\ h <= l /\ i < h
            /\ Low(e, stride) = i
        BY <3>1, <3>3, LanesAssumption DEF Low, LaneIds
      <4>2. /\ cur_g'[l] = cur_g[l] \cup (cur_p[l] \cap cur_g[e])
            /\ cur_p'[l] = cur_p[l] \cap cur_p[e]
        BY <1>1, <3>1, <3>3 DEF ScanNext, ScanG, ScanP
      <4>3. /\ r \in cur_g[l] <=> Generated(g, p, h, l, r)
            /\ r \in cur_p[l] <=> Propagated(p, h, l, r)
        BY DEF ScanInv
      <4>4. /\ r \in cur_g[e] <=> Generated(g, p, i, h - 1, r)
            /\ r \in cur_p[e] <=> Propagated(p, i, h - 1, r)
        BY <4>1 DEF ScanInv
      <4> HIDE DEF h, e, i
      <4>5. /\ Generated(g, p, i, l, r)
                 <=> Generated(g, p, h, l, r) \/ (Propagated(p, h, l, r) /\ Generated(g, p, i, h - 1, r))
            /\ Propagated(p, i, l, r) <=> Propagated(p, h, l, r) /\ Propagated(p, i, h - 1, r)
        BY <3>1, <4>1, Combine
      <4>6. QED
        BY <4>2, <4>3, <4>4, <4>5 DEF i
    <3>4. QED
      BY <3>1, <3>2, <3>3
  <2>3. /\ UNCHANGED <<g, p>> /\ stride' = 2 * stride
    BY <1>1 DEF ScanNext
  <2>4. QED
    BY <2>1, <2>2, <2>3 DEF ScanInv
<1>2. CASE UNCHANGED scanVars
  BY <1>2 DEF ScanInv, scanVars
<1>3. QED
  BY <1>1, <1>2

(* The scan's registers hold the carries that a ripple-carry adder         *)
(* computes, with and without a carry in: ADD and SUB of the Metal kernel  *)
(* get from log2(32) strides what the CPU's loop gets bit by bit.          *)
THEOREM ScanIsRippleCarry == ScanSpec => []RippleCarry
<1>1. ASSUME ScanInv
      PROVE  RippleCarry
  <2> SUFFICES ASSUME stride >= Lanes, NEW carry \in SUBSET Rows
               PROVE  /\ Ripples(cur_g, {})
                      /\ Ripples(Carried(cur_g, cur_p, carry), carry)
    BY DEF RippleCarry
  <2>1. \A l \in LaneIds : l \in Nat /\ Low(l, stride) = 0
    BY LanesAssumption, <1>1 DEF ScanInv, LaneIds, Low
  <2>2. \A l \in LaneIds, r \in Rows : /\ r \in cur_g[l] <=> Generated(g, p, 0, l, r)
                                       /\ r \in cur_p[l] <=> Propagated(p, 0, l, r)
    BY <1>1, <2>1 DEF ScanInv
  <2>3. ASSUME NEW l \in LaneIds, NEW r \in Rows, l > 0
        PROVE  /\ r \in cur_g[l] <=> r \in g[l] \/ (r \in p[l] /\ r \in cur_g[l - 1])
               /\ r \in cur_p[l] <=> r \in p[l] /\ r \in cur_p[l - 1]
    <3>1. /\ Generated(g, p, 0, l, r) <=> Generated(g, p, l, l, r) \/ (Propagated(p, l, l, r) /\ Generated(g, p, 0, l - 1, r))
          /\ Propagated(p, 0, l, r) <=> Propagated(p, l, l, r) /\ Propagated(p, 0, l - 1, r)
      BY <2>1, <2>3, Combine
    <3>2. (Generated(g, p, l, l, r) <=> r \in g[l]) /\ (Propagated(p, l, l, r) <=> r \in p[l])
      BY <2>1 DEF Generated, Propagated
    <3>3. l - 1 \in LaneIds
      BY <2>1, <2>3, LanesAssumption DEF LaneIds
    <3>4. QED
      BY <2>2, <3>1, <3>2, <3>3
  <2>4. ASSUME NEW r \in Rows
        PROVE  (r \in cur_g[0] <=> r \in g[0]) /\ (r \in cur_p[0] <=> r \in p[0])
    <3>1. 0 \in LaneIds
      BY LanesAssumption DEF LaneIds
    <3>2. QED
      BY <2>2, <3>1 DEF Generated, Propagated
  <2>5. \A l \in LaneIds : /\ g[l] \subseteq Rows /\ p[l] \subseteq Rows
                           /\ cur_g[l] \subseteq Rows /\ cur_p[l] \subseteq Rows
    BY <1>1 DEF ScanInv, Registers
  <2>6. Ripples(cur_g, {})
    <3> SUFFICES ASSUME NEW l \in LaneIds
                 PROVE  cur_g[l] = g[l] \cup (p[l] \cap (IF l = 0 THEN {} ELSE cur_g[l - 1]))
      BY DEF Ripples
    <3>1. CASE l = 0
      BY <2>4, <2>5, <3>1
    <3>2. CASE l > 0
      BY <2>1, <2>3, <2>5, <3>2
    <3>3. QED
      BY <2>1, <3>1, <3>2
  <2>7. Ripples(Carried(cur_g, cur_p, carry), carry)
    <3> DEFINE c == Carried(cur_g, cur_p, carry)
    <3> SUFFICES ASSUME NEW l \in LaneIds
                 PROVE  c[l] = g[l] \cup (p[l] \cap (IF l = 0 THEN carry ELSE c[l - 1]))
      BY DEF Ripples
    <3>1. c[l] = cur_g[l] \cup (carry \cap cur_p[l])
      BY DEF Carried
    <3>2. CASE l = 0
      BY <2>4, <2>5, <3>1, <3>2
    <3>3. CASE l > 0
      <4>1. l - 1 \in LaneIds
        BY <2>1, <3>3, LanesAssumption DEF LaneIds
      <4>2. c[l - 1] = cur_g[l - 1] \cup (carry \cap cur_p[l - 1])
        BY <4>1 DEF Carried
      <4> HIDE DEF c
      <4>3. \A r \in Rows :
              /\ r \in cur_g[l] <=> r \in g[l] \/ (r \in p[l] /\ r \in cur_g[l - 1])
              /\ r \in cur_p[l] <=> r \in p[l] /\ r \in cur_p[l - 1]
        BY <2>3, <3>3
      <4>4. QED
        BY <2>5, <3>1, <3>3, <4>1, <4>2, <4>3
    <3>4. QED
      BY <2>1, <3>2, <3>3
  <2>8. QED
    BY <2>6, <2>7
<1>2. QED
  BY <1>1, InitScanInv, NextScanInv, PTL DEF ScanSpec

=============================================================================
