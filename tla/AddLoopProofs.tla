--------------------------- MODULE AddLoopProofs ---------------------------
(***************************************************************************)
(* What compiled ADD and SUB nodes compute, for every width of the values  *)
(* and every number of rows in a block.                                    *)
(***************************************************************************)
EXTENDS AddLoop, TLAPS

(* What is known between two bits of the loop.                             *)
LoopInv == TypeOK /\ CarryIdentity

(* Before the first bit nothing is summed and only SUB has a carry.        *)
LEMMA InitLoopInv == Init => LoopInv
<1> SUFFICES ASSUME Init PROVE LoopInv
  OBVIOUS
<1>1. TypeOK
  BY PlanesAssumption DEF Init, TypeOK, Planes, CarryIn
<1>2. CarryIdentity
  BY PlanesAssumption DEF Init, CarryIdentity, CarryIn, Units, One
<1>3. QED
  BY <1>1, <1>2 DEF LoopInv

(* A bit of the loop leaves its variables well typed.                      *)
LEMMA StepTyped ==
  ASSUME TypeOK, Step
  PROVE  TypeOK'
<1>1. bit \in 0 .. (Width - 1) /\ bit' = bit + 1
  BY PlanesAssumption DEF TypeOK, Step
<1>2. left[bit] \in SUBSET Rows /\ PlaneB \in SUBSET Rows
  BY <1>1 DEF TypeOK, Planes, PlaneB
<1>3. carry' \in SUBSET Rows /\ SumBit(left[bit], PlaneB, carry) \in SUBSET Rows
  BY <1>2 DEF TypeOK, Step, CarryBit, SumBit, Eor
<1>4. out' \in Planes
  BY ZenonT(30), <1>3 DEF TypeOK, Step, Planes
<1>5. /\ lval' \in [Rows -> Nat] /\ rval' \in [Rows -> Nat] /\ oval' \in [Rows -> Nat]
      /\ weight' \in Nat \ {0}
  BY DEF TypeOK, Step, Plus
<1>6. QED
  BY <1>1, <1>3, <1>4, <1>5, PlanesAssumption DEF TypeOK, Step

(* One more bit keeps the identity: a full adder per row.                  *)
LEMMA StepIdentity ==
  ASSUME TypeOK, CarryIdentity, Step
  PROVE  CarryIdentity'
<1> DEFINE p == SumBit(left[bit], PlaneB, carry)
<1>1. bit \in 0 .. (Width - 1) /\ out'[bit] = p
  BY PlanesAssumption DEF TypeOK, Step, Planes
<1>2. SUFFICES ASSUME NEW r \in Rows
               PROVE  /\ lval'[r] < weight' /\ rval'[r] < weight' /\ oval'[r] < weight'
                      /\ kind = "ADD" =>
                           oval'[r] + (IF r \in carry' THEN weight' ELSE 0) = lval'[r] + rval'[r]
                      /\ kind = "SUB" =>
                           oval'[r] + (IF r \in carry' THEN weight' ELSE 0)
                             = lval'[r] + (weight' - 1 - rval'[r]) + One(CarryIn(kind), r)
  BY DEF CarryIdentity, Step, Units, One, CarryIn
<1> DEFINE l == lval[r]
           q == rval[r]
           o == oval[r]
           w == weight
           a == r \in left[bit]
           b == r \in right[bit]
           x == r \in carry
           i == One(CarryIn(kind), r)
<1>3. l \in Nat /\ q \in Nat /\ o \in Nat /\ w \in Nat \ {0} /\ i \in {0, 1}
  BY DEF TypeOK, One
<1>4. /\ lval'[r] = l + (IF a THEN w ELSE 0)
      /\ rval'[r] = q + (IF b THEN w ELSE 0)
      /\ oval'[r] = o + (IF r \in p THEN w ELSE 0)
      /\ weight' = 2 * w
  BY <1>1 DEF Step, Plus
<1>5. /\ l < w /\ q < w /\ o < w
      /\ kind = "ADD" => o + (IF x THEN w ELSE 0) = l + q
      /\ kind = "SUB" => o + (IF x THEN w ELSE 0) = l + (w - 1 - q) + i
  BY DEF CarryIdentity, Units
<1>6. CASE kind = "ADD"
  <2>1. /\ r \in p <=> ((a <=> b) <=> x)
        /\ r \in carry' <=> (a /\ b) \/ (~(a <=> b) /\ x)
    BY <1>6 DEF Step, SumBit, CarryBit, Eor, PlaneB
  <2> HIDE DEF l, q, o, w, a, b, x, i, p
  <2>2. QED
    BY <1>3, <1>4, <1>5, <1>6, <2>1
<1>7. CASE kind = "SUB"
  <2>1. /\ r \in p <=> ((a <=> ~b) <=> x)
        /\ r \in carry' <=> (a /\ ~b) \/ (~(a <=> ~b) /\ x)
    BY <1>7 DEF Step, SumBit, CarryBit, Eor, PlaneB
  <2> HIDE DEF l, q, o, w, a, b, x, p
  <2>2. /\ lval'[r] < weight' /\ rval'[r] < weight' /\ oval'[r] < weight'
        /\ oval'[r] + (IF r \in carry' THEN weight' ELSE 0)
             = lval'[r] + (weight' - 1 - rval'[r]) + i
    <3> HIDE DEF i
    <3>1. QED
      BY <1>3, <1>4, <1>5, <1>7, <2>1
  <2>3. QED
    BY <1>7, <2>2
<1>8. QED
  BY <1>6, <1>7 DEF TypeOK

(* Every step of the loop preserves the invariant.                         *)
LEMMA NextLoopInv == LoopInv /\ [Next]_vars => LoopInv'
<1> SUFFICES ASSUME LoopInv, [Next]_vars PROVE LoopInv'
  OBVIOUS
<1>1. CASE Step
  BY <1>1, StepTyped, StepIdentity DEF LoopInv
<1>2. CASE UNCHANGED vars
  BY <1>2 DEF LoopInv, vars, TypeOK, CarryIdentity, CarryIn, Units, One
<1>3. QED
  BY <1>1, <1>2 DEF Next, Done

(* The result and the carry together are always the sum of the operands.   *)
THEOREM CarryIdentityHolds == Spec => []CarryIdentity
<1>1. LoopInv => CarryIdentity
  BY DEF LoopInv
<1>2. QED
  BY <1>1, InitLoopInv, NextLoopInv, PTL DEF Spec

(* Residues: a number below w, plus nothing or one w, is the residue.      *)
LEMMA Residue ==
  ASSUME NEW w \in Nat \ {0}, NEW o \in Nat, NEW v \in Int, o < w,
         o = v \/ o + w = v \/ o = v + w
  PROVE  o = v % w
  OBVIOUS

(* The identity after the last bit, modulo the weight: ADD.                *)
LEMMA SumFromIdentity == LoopInv => SumExact
<1> SUFFICES ASSUME LoopInv, bit = Width, kind = "ADD", NEW r \in Rows
             PROVE  oval[r] = (lval[r] + rval[r]) % weight
  BY DEF SumExact
<1>1. oval[r] \in Nat /\ lval[r] \in Nat /\ rval[r] \in Nat /\ weight \in Nat \ {0}
  BY DEF LoopInv, TypeOK
<1>2. oval[r] < weight
      /\ (oval[r] = lval[r] + rval[r] \/ oval[r] + weight = lval[r] + rval[r])
  BY <1>1 DEF LoopInv, CarryIdentity, Units
<1>3. QED
  BY <1>1, <1>2, Residue

(* SUB: the carry-in is that of the row.                                   *)
LEMMA DifferenceFromIdentity == LoopInv => DifferenceByRow
<1> SUFFICES ASSUME LoopInv, bit = Width, kind = "SUB", NEW r \in Rows
             PROVE  oval[r] = (lval[r] - rval[r] - (IF r = FirstRow THEN 0 ELSE 1)) % weight
  BY DEF DifferenceByRow
<1> DEFINE v == lval[r] - rval[r] - (IF r = FirstRow THEN 0 ELSE 1)
<1>1. oval[r] \in Nat /\ lval[r] \in Nat /\ rval[r] \in Nat /\ weight \in Nat \ {0} /\ v \in Int
  BY DEF LoopInv, TypeOK
<1>2. oval[r] < weight /\ (oval[r] = v \/ oval[r] = v + weight)
  BY <1>1 DEF LoopInv, CarryIdentity, Units, One, CarryIn
<1> HIDE DEF v
<1>3. oval[r] = v % weight
  BY ZenonT(30), <1>1, <1>2, Residue
<1>4. QED
  BY <1>3 DEF v

(* A compiled ADD adds modulo 2^Width in every row.                        *)
THEOREM AddIsExact == Spec => []SumExact
<1>1. QED
  BY SumFromIdentity, InitLoopInv, NextLoopInv, PTL DEF Spec

(* A compiled SUB subtracts modulo 2^Width in the first row of a block,    *)
(* and subtracts one more in every other row: its carry-in reaches the     *)
(* first row only.                                                         *)
THEOREM SubByRow == Spec => []DifferenceByRow
<1>1. QED
  BY DifferenceFromIdentity, InitLoopInv, NextLoopInv, PTL DEF Spec

(* Together: what a compiled arithmetic node leaves in its planes.         *)
THEOREM ArithmeticIsExact == Spec => []ArithmeticExact
<1>1. ArithmeticExact <=> SumExact /\ DifferenceByRow
  BY DEF ArithmeticExact
<1>2. QED
  BY <1>1, AddIsExact, SubByRow, PTL

=============================================================================
