----------------------------- MODULE ExprKernel -----------------------------
(***************************************************************************)
(* One bit-sliced expression, from set_expression to the count of a block: *)
(* slot allocation and code generation (compile_expression of              *)
(* src/jit/compiler.cpp), the generated code on blocks of rows, and the    *)
(* aggregation of its result (execute and execute_native of                *)
(* src/api/engine.cpp).                                                    *)
(*                                                                         *)
(* The generated code is straight-line, so the compile-time bookkeeping of *)
(* the register cache and the registers' contents advance together, one    *)
(* expression node at a time.  A register or scratchpad slot is the set of *)
(* the rows whose bit is one.                                              *)
(***************************************************************************)
EXTENDS BitCircuits, ExprDag, FiniteSets

CONSTANTS
    Rows,       \* rows of a block: 0 .. 63 in the code
    Width,      \* bit-planes of a value: 64 in the code
    MaxSlots,   \* ScratchpadManager::MAX_SLOTS
    CacheRegs,  \* registers of ScratchpadCache: 8 in the code
    CarryRegs,  \* carry registers x23 .. x28: 6 in the code
    MaxFields,  \* distinct fields a kernel can address: 128 in the code
    Exprs,      \* the expressions considered
    Blocks,     \* contents of the first block: field -> row -> value
    MoreBlocks  \* contents of a second block

ASSUME KernelAssumption ==
    /\ Width \in Nat \ {0} /\ MaxSlots \in Nat /\ CarryRegs \in Nat /\ MaxFields \in Nat
    /\ CacheRegs \in Nat \ {0}

VARIABLES
    expr,      \* the expression
    all_nodes, \* its nodes in the order of the analysis
    phase,     \* "compile", "run", "counted", or "failed"
    pc,        \* position in all_nodes
    slot,      \* slot_id of the nodes
    eqSlot,    \* eq_slot_id
    carryReg,  \* carry_reg
    used,      \* used_ of the ScratchpadManager
    data,      \* the block's rows, padding included
    valid,     \* the rows of the block that are not padding
    scratch,   \* the scratchpad
    cache,     \* ScratchpadCache and the contents of its registers
    count,     \* what the block adds to total_matches
    second     \* the second block has begun

vars == <<expr, all_nodes, phase, pc, slot, eqSlot, carryReg, used, data, valid, scratch,
          cache, count, second>>

Bits == 0 .. (Width - 1)

Slots == 0 .. (MaxSlots - 1)

node == all_nodes[pc]

kind == expr[node].kind

arg(i) == expr[node].args[i]

-----------------------------------------------------------------------------
(* Compilation                                                             *)

FieldsOf(e) == {e[n].val : n \in {m \in DOMAIN e : e[m].kind = "LOAD"}}

EmptyCache ==
    [map |-> [s \in {} |-> 0],
     slotOf |-> [r \in 0 .. (CacheRegs - 1) |-> -1],
     val |-> [r \in 0 .. (CacheRegs - 1) |-> {}],
     next |-> 0]

Init ==
    /\ expr \in Exprs
    /\ all_nodes = AllNodes(expr)
    /\ phase = IF Cardinality(FieldsOf(expr)) > MaxFields THEN "failed" ELSE "compile"
    /\ pc = 1
    /\ slot = [n \in DOMAIN expr |-> -1]
    /\ eqSlot = [n \in DOMAIN expr |-> -1]
    /\ carryReg = [n \in DOMAIN expr |-> -1]
    /\ used = {}
    /\ data \in Blocks
    /\ valid \in {{r \in Rows : r < k} : k \in 1 .. Cardinality(Rows)}
    /\ scratch = [s \in Slots |-> {}]
    /\ cache = EmptyCache
    /\ count = 0
    /\ second = FALSE

(* Mutant: only the last slot of a block is tested.                        *)
alloc_block_last_free(busy) ==
    LET bases == {i \in Slots : /\ i % Width = 0
                                /\ i + Width <= MaxSlots
                                /\ i + Width - 1 \notin busy}
    IN  IF bases = {} THEN -1 ELSE Min(bases)

(* Mutant: the search runs one slot past the scratchpad.                   *)
alloc_slot_past_end(busy) ==
    IF 0 .. MaxSlots \subseteq busy THEN -1 ELSE Min((0 .. MaxSlots) \ busy)

alloc_slot(busy) == IF Slots \subseteq busy THEN -1 ELSE Min(Slots \ busy)

alloc_block(busy) ==
    LET bases == {i \in Slots : /\ i % Width = 0
                                /\ i + Width <= MaxSlots
                                /\ i .. (i + Width - 1) \cap busy = {}}
    IN  IF bases = {} THEN -1 ELSE Min(bases)

NextCarry == Cardinality({n \in DOMAIN expr : carryReg[n] >= 0})

(* What the prologue stores: 0 in every mask slot, ~0 in every eq slot.    *)
Prologue(mem) ==
    [s \in Slots |->
       IF \E n \in DOMAIN expr : IsMask(expr[n]) /\ slot[n] = s THEN {}
       ELSE IF \E n \in DOMAIN expr : eqSlot[n] = s THEN Rows
       ELSE mem[s]]

(* slot_id and eq_slot_id of the next node; -1 when no slot is left.       *)
SlotId == IF IsMask(expr[node]) THEN alloc_slot(used) ELSE alloc_block(used)

SlotsOf(n, base) == IF IsMask(expr[n]) THEN {base} ELSE base .. (base + Width - 1)

EqSlotId == IF kind \in Comparisons THEN alloc_slot(used \cup SlotsOf(node, SlotId)) ELSE -1

Fits == SlotId >= 0 /\ (kind \in Comparisons => EqSlotId >= 0)

(* Phase 1 of compile_expression for one node.                             *)
Allocate ==
    /\ phase = "compile"
    /\ pc <= Len(all_nodes)
    /\ ~IsLeaf(expr[node])
    /\ Fits
    /\ slot' = [slot EXCEPT ![node] = SlotId]
    /\ eqSlot' = [eqSlot EXCEPT ![node] = EqSlotId]
    /\ used' = used \cup SlotsOf(node, SlotId) \cup ({EqSlotId} \ {-1})
    /\ carryReg' = IF kind \in {"ADD", "SUB"} /\ NextCarry < CarryRegs
                   THEN [carryReg EXCEPT ![node] = NextCarry]
                   ELSE carryReg
    /\ pc' = pc + 1
    /\ UNCHANGED <<expr, all_nodes, phase, data, valid, scratch, cache, count, second>>

(* LOAD and CONST nodes take no slot.                                      *)
AllocateLeaf ==
    /\ phase = "compile"
    /\ pc <= Len(all_nodes)
    /\ IsLeaf(expr[node])
    /\ pc' = pc + 1
    /\ UNCHANGED <<expr, all_nodes, phase, slot, eqSlot, carryReg, used, data, valid,
                   scratch, cache, count, second>>

(* No slot is left: compile_expression returns nullptr.                    *)
AllocateFails ==
    /\ phase = "compile"
    /\ pc <= Len(all_nodes)
    /\ ~IsLeaf(expr[node])
    /\ ~Fits
    /\ phase' = "failed"
    /\ UNCHANGED <<expr, all_nodes, pc, slot, eqSlot, carryReg, used, data, valid,
                   scratch, cache, count, second>>

(* The kernel is called on the first block: its prologue.                  *)
Start ==
    /\ phase = "compile"
    /\ pc > Len(all_nodes)
    /\ phase' = "run"
    /\ pc' = 1
    /\ scratch' = Prologue(scratch)
    /\ UNCHANGED <<expr, all_nodes, slot, eqSlot, carryReg, used, data, valid, cache, count, second>>

-----------------------------------------------------------------------------
(* The generated code.  m is the memory and the register cache.            *)

Bind(c, s, v) ==
    LET hit == s \in DOMAIN c.map
        reg == IF hit THEN c.map[s] ELSE c.next
        kept == IF hit THEN DOMAIN c.map ELSE DOMAIN c.map \ {c.slotOf[reg]}
    IN  [map |-> [t \in kept \cup {s} |-> IF t = s THEN reg ELSE c.map[t]],
         slotOf |-> [c.slotOf EXCEPT ![reg] = s],
         val |-> [c.val EXCEPT ![reg] = v],
         next |-> IF hit THEN c.next ELSE (c.next + 1) % CacheRegs]

(* Mutant: a cached slot is rebound without writing it to the scratchpad.  *)
store_slot_cached(m, s, v) ==
    [mem |-> IF s \in DOMAIN m.cache.map THEN m.mem ELSE [m.mem EXCEPT ![s] = v],
     cache |-> Bind(m.cache, s, v)]

store_slot(m, s, v) ==
    [mem |-> [m.mem EXCEPT ![s] = v], cache |-> Bind(m.cache, s, v)]

(* load_slot: the value loaded, and the machine after it.                  *)
Loaded(m, s) == IF s \in DOMAIN m.cache.map THEN m.cache.val[m.cache.map[s]] ELSE m.mem[s]

load_slot(m, s) ==
    IF s \in DOMAIN m.cache.map THEN m ELSE [m EXCEPT !.cache = Bind(m.cache, s, m.mem[s])]

Bit(v, b) == (v \div 2^b) % 2 = 1

(* Planes of an operand, read from the block, the code or the scratchpad.  *)
PlanesOf(n) ==
    [b \in Bits |->
       CASE expr[n].kind = "LOAD" -> {r \in Rows : Bit(data[expr[n].val][r], b)}
         [] expr[n].kind = "CONST" -> IF Bit(expr[n].val, b) THEN Rows ELSE {}
         [] OTHER -> scratch[slot[n] + b]]

Machine == [mem |-> scratch, cache |-> cache]

(* The unrolled loops; see AddLoop and CompareLoop.                        *)
Added(a, b, carry) ==
    FoldLeft(LAMBDA acc, k : [out |-> [acc.out EXCEPT ![k] = SumBit(a[k], b[k], acc.carry)],
                              carry |-> CarryBit(a[k], b[k], acc.carry)],
             [out |-> a, carry |-> carry],
             [i \in 1 .. Width |-> i - 1]).out

Compared(a, b, gt, eq) ==
    FoldLeft(LAMBDA acc, k : [gt |-> GtBit(acc.gt, acc.eq, a[k], b[k]),
                              eq |-> EqBit(acc.eq, a[k], b[k])],
             [gt |-> gt, eq |-> eq],
             [i \in 1 .. Width |-> Width - i])

SumNode == SumOf(expr)

(* The nodes the engine evaluates itself: the SUM at the root, its SELECT  *)
(* operands, and the ADD of a constant above it.                           *)
SkipJit ==
    IF SumNode = 0 THEN {}
    ELSE {Root(expr), SumNode}
           \cup {n \in ToSet(expr[SumNode].args) : expr[n].kind = "SELECT"}

Running == phase = "run" /\ pc <= Len(all_nodes)

Become(m) == scratch' = m.mem /\ cache' = m.cache /\ pc' = pc + 1

Idle == UNCHANGED <<expr, all_nodes, phase, slot, eqSlot, carryReg, used, data, valid, count, second>>

(* No code of its own: leaves, skipped nodes, and nodes of the kinds for   *)
(* which the chain of branches has none.  A later node that reads the      *)
(* planes of such a node finds what its slots held before.                 *)
Skip ==
    /\ Running
    /\ IsLeaf(expr[node]) \/ node \in SkipJit \cup NoCode(expr)
    /\ Become(Machine)
    /\ Idle

(* The scratchpad with the node's planes in its block.                     *)
Stored(out) ==
    [s \in Slots |-> IF s \in SlotsOf(node, slot[node]) THEN out[s - slot[node]] ELSE scratch[s]]

(* ADD and SUB.  Without a carry register the code indexes carry_regs      *)
(* at -1, and the planes are whatever the code emitted for it computes.    *)
Arithmetic ==
    /\ Running
    /\ kind \in {"ADD", "SUB"} /\ node \notin SkipJit
    /\ LET a == PlanesOf(arg(1))
           b == [k \in Bits |-> IF kind = "SUB" THEN Rows \ PlanesOf(arg(2))[k]
                                ELSE PlanesOf(arg(2))[k]]
       IN  \E out \in IF carryReg[node] >= 0
                      THEN {Added(a, b, IF kind = "SUB" THEN {0} ELSE {})}
                      ELSE [Bits -> SUBSET Rows] :
             Become([Machine EXCEPT !.mem = Stored(out)])
    /\ Idle

(* GT, LT, GE, LE and EQ.                                                  *)
Comparison ==
    LET s == slot[node]
        e == eqSlot[node]
        m1 == load_slot(Machine, e)
        m2 == load_slot(m1, s)
        x == PlanesOf(arg(IF kind \in {"LT", "LE"} THEN 2 ELSE 1))
        y == PlanesOf(arg(IF kind \in {"LT", "LE"} THEN 1 ELSE 2))
        masks == Compared(x, y, Loaded(m1, s), Loaded(Machine, e))
        m3 == store_slot(store_slot(m2, s, masks.gt), e, masks.eq)
        m4 == load_slot(m3, s)
        m5 == load_slot(m4, e)
    IN  /\ Running
        /\ kind \in Comparisons
        /\ Become(CASE kind \in {"GT", "LT"} -> m3
                    [] kind = "EQ" -> store_slot(m5, s, Loaded(m4, e))
                    [] kind \in {"GE", "LE"} ->
                         store_slot(m5, s, Loaded(m3, s) \cup Loaded(m4, e)))
        /\ Idle

(* AND, OR and NOT.                                                        *)
Logic ==
    LET l == slot[arg(1)]
        m1 == load_slot(Machine, l)
    IN  /\ Running
        /\ kind \in {"AND", "OR", "NOT"}
        /\ IF kind = "NOT"
           THEN Become(store_slot(m1, slot[node], Rows \ Loaded(Machine, l)))
           ELSE LET r == slot[arg(2)]
                    v == Loaded(m1, r)
                IN  Become(store_slot(load_slot(m1, r), slot[node],
                             IF kind = "AND" THEN Loaded(Machine, l) \cap v
                             ELSE Loaded(Machine, l) \cup v))
        /\ Idle

(* SELECT: the condition through the cache, the planes past it.            *)
Select ==
    LET c == slot[arg(3)]
        a == PlanesOf(arg(1))
        b == PlanesOf(arg(2))
    IN  /\ Running
        /\ kind = "SELECT" /\ node \notin SkipJit
        /\ Become([load_slot(Machine, c) EXCEPT
                     !.mem = Stored([k \in Bits |-> MuxBit(Loaded(Machine, c), a[k], b[k])])])
        /\ Idle

-----------------------------------------------------------------------------
(* Aggregation                                                             *)

Popcount(mask) == Cardinality(mask \cap valid)

(* The hybrid popcount aggregator.                                         *)
Hybrid(mem) ==
    LET operands == expr[SumNode].args
    IN  base_sum(expr) * Cardinality(valid)
          + MapThenSumSet(LAMBDA i : Popcount(mem[slot[mask_to_popcount(expr, operands[i])]])
                                       * delta_weight(expr, operands[i]),
                          DOMAIN operands)

(* The BITPLANE result of the root is copied to the first slots.           *)
Returned ==
    IF IsMask(expr[Root(expr)]) \/ SumNode # 0 THEN scratch
    ELSE [s \in Slots |-> IF s \in Bits THEN scratch[slot[Root(expr)] + s] ELSE scratch[s]]

Count ==
    /\ phase = "run"
    /\ pc > Len(all_nodes)
    /\ scratch' = Returned
    /\ count' = IF IsMask(expr[Root(expr)]) THEN Popcount(scratch[slot[Root(expr)]])
                ELSE IF SumNode # 0 THEN Hybrid(scratch)
                ELSE MapThenSumSet(LAMBDA b : Popcount(scratch'[b]) * 2^b, Bits)
    /\ phase' = "counted"
    /\ UNCHANGED <<expr, all_nodes, pc, slot, eqSlot, carryReg, used, data, valid, cache, second>>

(* Mutant: the next block finds the masks of the last one.                 *)
NextBlockNoPrologue ==
    /\ phase = "counted"
    /\ ~second
    /\ data' \in MoreBlocks
    /\ scratch' \in {scratch, [s \in Slots |-> {}]}
    /\ second' = TRUE
    /\ phase' = "run"
    /\ pc' = 1
    /\ count' = 0
    /\ cache' = EmptyCache
    /\ UNCHANGED <<expr, all_nodes, slot, eqSlot, carryReg, used, valid>>

(* The next block.  execute clears the scratchpad before each block,       *)
(* execute_native does not.                                                *)
NextBlock ==
    /\ phase = "counted"
    /\ ~second
    /\ data' \in MoreBlocks
    /\ scratch' \in {Prologue(scratch), Prologue([s \in Slots |-> {}])}
    /\ second' = TRUE
    /\ phase' = "run"
    /\ pc' = 1
    /\ count' = 0
    /\ cache' = EmptyCache
    /\ UNCHANGED <<expr, all_nodes, slot, eqSlot, carryReg, used, valid>>

Done ==
    /\ phase = "failed" \/ (phase = "counted" /\ second)
    /\ UNCHANGED vars

Next ==
    \/ Allocate \/ AllocateLeaf \/ AllocateFails \/ Start
    \/ Skip \/ Arithmetic \/ Comparison \/ Logic \/ Select
    \/ Count \/ NextBlock \/ Done

Spec == Init /\ [][Next]_vars

-----------------------------------------------------------------------------
(* Properties                                                              *)

(* Type invariant of the compiler and of the kernel.                       *)
TypeOK ==
    /\ expr \in Exprs
    /\ phase \in {"compile", "run", "counted", "failed"}
    /\ pc \in 1 .. (Len(all_nodes) + 1)
    /\ slot \in [DOMAIN expr -> Slots \cup {-1}]
    /\ eqSlot \in [DOMAIN expr -> Slots \cup {-1}]
    /\ carryReg \in [DOMAIN expr -> -1 .. (CarryRegs - 1)]
    /\ used \subseteq Slots
    /\ valid \subseteq Rows
    /\ scratch \in [Slots -> SUBSET Rows]
    /\ count \in Int /\ second \in BOOLEAN

Claimed(n) == (IF slot[n] < 0 THEN {} ELSE SlotsOf(n, slot[n])) \cup ({eqSlot[n]} \ {-1})

(* The scratchpad slots of two nodes never overlap, lie in the scratchpad, *)
(* and the two masks of a comparison are two slots.                        *)
SlotsDisjoint ==
    /\ \A n \in DOMAIN expr : Claimed(n) \subseteq used /\ (slot[n] >= 0 => slot[n] # eqSlot[n])
    /\ \A n, m \in DOMAIN expr : n # m => Claimed(n) \cap Claimed(m) = {}

(* A slot the cache knows is in one register only, and that register holds *)
(* what the scratchpad holds: code that reads the scratchpad directly and  *)
(* code that goes through the cache see the same mask.                     *)
CacheCoherent ==
    phase = "run" =>
      \A s \in DOMAIN cache.map :
        cache.slotOf[cache.map[s]] = s /\ cache.val[cache.map[s]] = scratch[s]

RowResult(r) == CpuResult(expr, [f \in DOMAIN data |-> data[f][r]], r, 2^Width)

AllCarriesAssigned ==
    \A n \in DOMAIN expr : expr[n].kind \in {"ADD", "SUB"} /\ slot[n] >= 0 => carryReg[n] >= 0

(* The count of a block is the sum over its rows, padding excluded, of the *)
(* value a scalar program computes: the matches of a mask, the total of an *)
(* arithmetic result, the weighted votes of a SUM; also in a second block  *)
(* that finds the scratchpad of the first one.  Expressions with an        *)
(* operator that has no code, or with more additions than carry registers, *)
(* are left out.                                                           *)
CountExact ==
    phase = "counted" /\ AllCarriesAssigned /\ NoCode(expr) = {} => count = MapThenSumSet(RowResult, valid)

=============================================================================
