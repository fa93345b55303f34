----------------------------- MODULE GpuKernel -----------------------------
(***************************************************************************)
(* The Metal kernel of an expression in ExecutionMode::GPU_THROUGHPUT, as  *)
(* generate_msl_source of src/api/engine.cpp writes it, on one block.      *)
(*                                                                         *)
(* A threadgroup has one thread per bit position, in two SIMD-groups.  The *)
(* lanes of a SIMD-group run in lockstep; the SIMD-groups run freely       *)
(* between two threadgroup barriers and meet in threadgroup memory.  In    *)
(* the final aggregation thread r stands for row r.                        *)
(***************************************************************************)
EXTENDS PrefixScan, BitCircuits, ExprDag, FiniteSets

CONSTANTS
    SchemaFields,  \* fields of the schema: num_fields of the kernel
    Exprs,         \* the expressions considered
    Columns,       \* contents of two consecutive blocks: field -> block -> row -> value
    RowCounts      \* rows of a call: at least one, at most two blocks

Simds == {0, 1}

Threads == 0 .. (2 * Lanes - 1)

(* As many rows as threads, and as many bits.                              *)
ASSUME GpuAssumption ==
    /\ Rows = Threads
    /\ SchemaFields \in Nat
    /\ RowCounts \subseteq 1 .. (2 * Cardinality(Threads))

Modulus == 2 ^ (2 * Lanes)

VARIABLES
    expr,
    post_order,    \* its nodes, children first
    row_count,     \* rows of the call
    block_idx,     \* the block of this threadgroup
    data,          \* the rows of the blocks, padding included
    junk,          \* what memory nobody wrote holds
    lends,         \* the GPU lets a shuffle read the register of an inactive lane
    reg,           \* scratchpad: node -> thread -> mask
    at,            \* SIMD-group -> node it is at and stage within the node
    arrived,       \* SIMD-group -> barriers it has reached
    gen, prop,     \* SIMD-group -> g and p of an addition
    cur_g, cur_p,  \* SIMD-group -> registers of the scan
    stride,        \* SIMD-group -> next stride of the scan
    shared_A, shared_B, shared_carry, shared_sums,  \* threadgroup memory
    output         \* output_masks[block_idx]

private == <<reg, gen, prop, cur_g, cur_p, stride>>

shared == <<shared_A, shared_B, shared_carry, shared_sums>>

fixed == <<expr, post_order, row_count, block_idx, data, junk, lends>>

vars == <<fixed, private, at, arrived, shared, output>>

-----------------------------------------------------------------------------

ThreadsOf(s) == (s * Lanes) .. (s * Lanes + Lanes - 1)

(* field_idx: the fields in the order in which the analysis meets them.    *)
FieldOrder == FoldLeft(LAMBDA seq, n : IF expr[n].kind = "LOAD" /\ ~Contains(seq, expr[n].val)
                                       THEN Append(seq, expr[n].val) ELSE seq,
                       <<>>, post_order)

FieldIdx(f) == (CHOOSE i \in DOMAIN FieldOrder : FieldOrder[i] = f) - 1

Bit(v, b) == (v \div 2^b) % 2 = 1

num_blocks(rows) == (rows + 2 * Lanes - 1) \div (2 * Lanes)

(* The rows of block k that are rows of the call.                          *)
RowsOf(k) == {r \in Rows : 2 * Lanes * k + r < row_count}

(* gather_field zero-fills the last block.                                 *)
Padded(columns) ==
    [f \in DOMAIN columns |->
       [k \in 0 .. 1 |-> [r \in Rows |-> IF r \in RowsOf(k) THEN columns[f][k][r] ELSE 0]]]

(* The plane b at field position i of columns.  execute lays a block out   *)
(* with the fields of the expression; past the buffer lies anything.       *)
Plane(i, b) ==
    LET num_fields == Len(FieldOrder)
        block == i \div num_fields
    IN  IF block >= num_blocks(row_count) THEN junk
        ELSE {r \in Rows : Bit(data[FieldOrder[(i % num_fields) + 1]][block][r], b)}

Init ==
    /\ expr \in Exprs
    /\ post_order = AllNodes(expr)
    /\ row_count \in RowCounts
    /\ block_idx \in 0 .. (num_blocks(row_count) - 1)
    /\ data \in {Padded(c) : c \in Columns}
    /\ junk \in {{}, Rows}
    /\ lends \in BOOLEAN
    /\ reg = [n \in DOMAIN expr |-> [b \in Threads |-> {}]]
    /\ at = [s \in Simds |-> [pos |-> 1, stage |-> "start"]]
    /\ arrived = [s \in Simds |-> 0]
    /\ gen = [s \in Simds |-> [l \in LaneIds |-> {}]]
    /\ prop = gen /\ cur_g = gen /\ cur_p = gen
    /\ stride = [s \in Simds |-> 1]
    /\ shared_A = [b \in Threads |-> junk] /\ shared_B = shared_A
    /\ shared_carry = junk
    /\ shared_sums = [s \in Simds |-> 0]
    /\ output = 0

AtNode(s, stage) == at[s].pos <= Len(post_order) /\ at[s].stage = stage

node(s) == expr[post_order[at[s].pos]]

Operand(s, i) == reg[node(s).args[i]]

Goto(s, stage) == at' = [at EXCEPT ![s].stage = stage]

Advance(s) == at' = [at EXCEPT ![s] = [pos |-> @.pos + 1, stage |-> "start"]]

(* threadgroup_barrier: reached, and crossed once both groups reached it.  *)
Arrive(s, stage) ==
    /\ Goto(s, stage)
    /\ arrived' = [arrived EXCEPT ![s] = @ + 1]

Crossed(s) == \A t \in Simds : arrived[t] >= arrived[s]

(* The SIMD-group's threads hold value[b] in the node's slot.              *)
Hold(s, value) ==
    reg' = [reg EXCEPT ![post_order[at[s].pos]] =
              [b \in Threads |-> IF b \in ThreadsOf(s) THEN value[b] ELSE @[b]]]

(* What thread b computes for a node that needs no other thread.  The      *)
(* other kinds emit nothing, and the slot keeps its initial zero.          *)
LocalValue(s, b) ==
    LET n == node(s)
        x(i) == Operand(s, i)[b]
    IN  CASE n.kind = "LOAD" -> Plane(block_idx * SchemaFields + FieldIdx(n.val), b)
          [] n.kind = "CONST" -> IF Bit(n.val, b) THEN Rows ELSE {}
          [] n.kind = "AND" -> x(1) \cap x(2)
          [] n.kind = "OR" -> x(1) \cup x(2)
          [] n.kind = "NOT" -> Rows \ x(1)
          [] n.kind = "SELECT" -> MuxBit(x(3), x(1), x(2))
          [] OTHER -> {}

Local(s) ==
    /\ AtNode(s, "start")
    /\ node(s).kind \notin Comparisons \cup {"ADD", "SUB"}
    /\ Hold(s, [b \in Threads |-> LocalValue(s, b)])
    /\ Advance(s)
    /\ UNCHANGED <<fixed, gen, prop, cur_g, cur_p, stride, arrived, shared, output>>

-----------------------------------------------------------------------------
(* Comparisons, through threadgroup memory                                 *)

Own(s, memory, value) ==
    [b \in Threads |-> IF b \in ThreadsOf(s) THEN value[b] ELSE memory[b]]

Share(s) ==
    /\ AtNode(s, "start")
    /\ node(s).kind \in Comparisons
    /\ shared_A' = Own(s, shared_A, Operand(s, 1))
    /\ shared_B' = Own(s, shared_B, Operand(s, 2))
    /\ Arrive(s, "shared")
    /\ UNCHANGED <<fixed, private, shared_carry, shared_sums, output>>

(* The loop over all planes, from the most significant one.  mask_lt is    *)
(* mask_gt with the planes exchanged.                                      *)
Compared(a, b) ==
    FoldLeft(LAMBDA acc, k : [gt |-> GtBit(acc.gt, acc.eq, a[k], b[k]),
                              eq |-> EqBit(acc.eq, a[k], b[k])],
             [gt |-> {}, eq |-> Rows],
             [i \in 1 .. (2 * Lanes) |-> 2 * Lanes - i])

ComparisonMask(kind) ==
    LET m == IF kind \in {"LT", "LE"} THEN Compared(shared_B, shared_A)
             ELSE Compared(shared_A, shared_B)
    IN  CASE kind \in {"GT", "LT"} -> m.gt
          [] kind \in {"GE", "LE"} -> m.gt \cup m.eq
          [] kind = "EQ" -> m.eq

(* Mutant: no barrier after the loop.                                      *)
CompareSharedNoBarrier(s) ==
    /\ AtNode(s, "shared")
    /\ Crossed(s)
    /\ Hold(s, [b \in Threads |-> ComparisonMask(node(s).kind)])
    /\ Advance(s)
    /\ UNCHANGED <<fixed, gen, prop, cur_g, cur_p, stride, arrived, shared, output>>

CompareShared(s) ==
    /\ AtNode(s, "shared")
    /\ Crossed(s)
    /\ Hold(s, [b \in Threads |-> ComparisonMask(node(s).kind)])
    /\ Arrive(s, "compared")
    /\ UNCHANGED <<fixed, gen, prop, cur_g, cur_p, stride, shared, output>>

LeaveComparison(s) ==
    /\ AtNode(s, "compared")
    /\ Crossed(s)
    /\ Advance(s)
    /\ UNCHANGED <<fixed, private, arrived, shared, output>>

-----------------------------------------------------------------------------
(* ADD and SUB                                                             *)

(* The right operand's planes, complemented for SUB.                       *)
Addend(s, b) == IF node(s).kind = "SUB" THEN Rows \ Operand(s, 2)[b] ELSE Operand(s, 2)[b]

(* Lane l of SIMD-group s is thread s * Lanes + l.                         *)
Propagate(s) ==
    [l \in LaneIds |-> Eor(Operand(s, 1)[s * Lanes + l], Addend(s, s * Lanes + l))]

Generate(s) ==
    [l \in LaneIds |->
       LET both == Operand(s, 1)[s * Lanes + l] \cap Addend(s, s * Lanes + l)
       IN  IF node(s).kind = "SUB" /\ s = 0 /\ l = 0 THEN both \cup Propagate(s)[0] ELSE both]

BeginScan(s) ==
    /\ AtNode(s, "start")
    /\ node(s).kind \in {"ADD", "SUB"}
    /\ gen' = [gen EXCEPT ![s] = Generate(s)]
    /\ prop' = [prop EXCEPT ![s] = Propagate(s)]
    /\ cur_g' = [cur_g EXCEPT ![s] = Generate(s)]
    /\ cur_p' = [cur_p EXCEPT ![s] = Propagate(s)]
    /\ stride' = [stride EXCEPT ![s] = 1]
    /\ Goto(s, "scan")
    /\ UNCHANGED <<fixed, reg, arrived, shared, output>>

Scan(s) ==
    /\ AtNode(s, "scan")
    /\ stride[s] < Lanes
    /\ cur_g' = [cur_g EXCEPT ![s] = ScanG(cur_g[s], cur_p[s], stride[s])]
    /\ cur_p' = [cur_p EXCEPT ![s] = ScanP(cur_p[s], stride[s])]
    /\ stride' = [stride EXCEPT ![s] = 2 * @]
    /\ UNCHANGED <<fixed, reg, gen, prop, at, arrived, shared, output>>

(* The last lane of the first SIMD-group publishes its carry.              *)
PublishCarry(s) ==
    /\ AtNode(s, "scan")
    /\ stride[s] >= Lanes
    /\ shared_carry' = IF s = 0 THEN cur_g[s][Lanes - 1] ELSE shared_carry
    /\ Arrive(s, "published")
    /\ UNCHANGED <<fixed, private, shared_A, shared_B, shared_sums, output>>

(* Mutant: the barrier before shared_carry is read is missing.             *)
TakeCarryEarly(s) ==
    /\ AtNode(s, "published")
    /\ cur_g' = IF s = 0 THEN cur_g
                ELSE [cur_g EXCEPT ![s] = Carried(cur_g[s], cur_p[s], shared_carry)]
    /\ Goto(s, "carried")
    /\ UNCHANGED <<fixed, reg, gen, prop, cur_p, stride, arrived, shared, output>>

(* The second SIMD-group reads shared_carry a first time.                  *)
TakeCarry(s) ==
    /\ AtNode(s, "published")
    /\ Crossed(s)
    /\ cur_g' = IF s = 0 THEN cur_g
                ELSE [cur_g EXCEPT ![s] = Carried(cur_g[s], cur_p[s], shared_carry)]
    /\ Goto(s, "carried")
    /\ UNCHANGED <<fixed, reg, gen, prop, cur_p, stride, arrived, shared, output>>

(* The carry into lane l: of the first lane of the first SIMD-group none,  *)
(* or 1ULL for SUB, which is a one in row 0 only; of the first lane of the *)
(* second SIMD-group shared_carry, read a second time; of every other lane *)
(* that of the lane below, by a shuffle in the branch that the first lane  *)
(* does not take: what lane 1 reads from the inactive lane 0 is undefined. *)
CarryIn(s, l) ==
    IF l > 1 \/ (l = 1 /\ lends) THEN cur_g[s][l - 1]
    ELSE IF l = 1 THEN junk
    ELSE IF s = 1 THEN shared_carry
    ELSE IF node(s).kind = "SUB" THEN {0} ELSE {}

(* No barrier follows.                                                     *)
AddCarry(s) ==
    /\ AtNode(s, "carried")
    /\ Hold(s, [b \in Threads |-> SumBit(Operand(s, 1)[b], Addend(s, b), CarryIn(s, b % Lanes))])
    /\ Advance(s)
    /\ UNCHANGED <<fixed, gen, prop, cur_g, cur_p, stride, arrived, shared, output>>

-----------------------------------------------------------------------------
(* The aggregator: thread r sums row r, and both SIMD-groups reduce.       *)

(* Without a SUM at the root there is nothing to add.                      *)
row_sum(r) ==
    IF SumOf(expr) = 0 THEN 0
    ELSE LET operands == expr[SumOf(expr)].args
         IN  base_sum(expr)
               + MapThenSumSet(LAMBDA i :
                   IF r \in reg[mask_to_popcount(expr, operands[i])][r]
                   THEN delta_weight(expr, operands[i]) ELSE 0, DOMAIN operands)

(* shuffle_down by d: a lane without a partner gets its own value back.    *)
ShuffleDown(v, d) == [l \in LaneIds |-> IF l + d < Lanes THEN v[l + d] ELSE v[l]]

Halvings ==
    SetToSortSeq({d \in 1 .. (Lanes - 1) : \E k \in 0 .. Lanes : d = 2^k}, LAMBDA x, y : x > y)

Reduced(v) ==
    FoldLeft(LAMBDA w, d : [l \in LaneIds |-> w[l] + ShuffleDown(w, d)[l]], v, Halvings)[0]

Reduce(s) ==
    /\ at[s] = [pos |-> Len(post_order) + 1, stage |-> "start"]
    /\ shared_sums' = [shared_sums EXCEPT ![s] = Reduced([l \in LaneIds |-> row_sum(s * Lanes + l)])]
    /\ Arrive(s, "reduced")
    /\ UNCHANGED <<fixed, private, shared_A, shared_B, shared_carry, output>>

Output(s) ==
    /\ at[s].stage = "reduced"
    /\ Crossed(s)
    /\ output' = IF s = 0 THEN shared_sums[0] + shared_sums[1] ELSE output
    /\ Goto(s, "end")
    /\ UNCHANGED <<fixed, private, arrived, shared>>

Finished == \A s \in Simds : at[s].stage = "end"

Done == Finished /\ UNCHANGED vars

Next ==
    \/ \E s \in Simds :
         \/ Local(s)
         \/ Share(s) \/ CompareShared(s) \/ LeaveComparison(s)
         \/ BeginScan(s) \/ Scan(s) \/ PublishCarry(s) \/ TakeCarry(s) \/ AddCarry(s)
         \/ Reduce(s) \/ Output(s)
    \/ Done

Spec == Init /\ [][Next]_vars

-----------------------------------------------------------------------------
(* Properties                                                              *)

(* Type invariant of the kernel.                                           *)
TypeOK ==
    /\ reg \in [DOMAIN expr -> [Threads -> SUBSET Rows]]
    /\ \A s \in Simds :
         /\ at[s].pos \in 1 .. (Len(post_order) + 1)
         /\ arrived[s] \in 0 .. (2 * Len(post_order) + 1)
    /\ {gen[s] : s \in Simds} \cup {prop[s] : s \in Simds} \subseteq Registers
    /\ {cur_g[s] : s \in Simds} \cup {cur_p[s] : s \in Simds} \subseteq Registers
    /\ shared_A \in [Threads -> SUBSET Rows] /\ shared_B \in [Threads -> SUBSET Rows]
    /\ shared_carry \subseteq Rows
    /\ shared_sums \in [Simds -> Int] /\ output \in Int

(* While a SIMD-group may still read the planes of a comparison, the       *)
(* shared arrays hold the operands of that comparison in every thread: the *)
(* other group neither lags behind nor overwrites them for a later one.    *)
OperandsShared ==
    \A s \in Simds :
      AtNode(s, "shared") /\ Crossed(s) =>
        shared_A = Operand(s, 1) /\ shared_B = Operand(s, 2)

Scan1(s) ==
    INSTANCE KoggeStone WITH g <- gen[s], p <- prop[s], cur_g <- cur_g[s], cur_p <- cur_p[s],
                             stride <- stride[s]

(* The scan leaves in each lane of a SIMD-group the carry that the CPU's   *)
(* ripple-carry loop computes from the same planes.                        *)
RippleCarry == \A s \in Simds : AtNode(s, "scan") => Scan1(s)!RippleCarry

(* Between two additions there is a comparison, whose barriers keep the    *)
(* first group from overwriting shared_carry while the second reads it.    *)
CarriesSeparated ==
    LET adds == {i \in DOMAIN post_order : expr[post_order[i]].kind \in {"ADD", "SUB"}}
    IN  \A i, j \in adds :
          i < j => \E k \in i .. j : expr[post_order[k]].kind \in Comparisons

(* Block 1 starts where the kernel looks for it only if the expression     *)
(* uses every field of the schema.                                         *)
BlocksFound == block_idx = 0 \/ SchemaFields = Len(FieldOrder)

(* The count of the block on the CPU: the rows' results (CountExact of     *)
(* ExprKernel), padding rows excluded.                                     *)
CpuRow(r) == CpuResult(expr, [f \in DOMAIN data |-> data[f][block_idx][r]], r, Modulus)

CpuCount == MapThenSumSet(CpuRow, RowsOf(block_idx))

(* What makes a query one on which the two may differ.                     *)
Deviations == {"carry", "shuffle", "difference", "padding", "result", "layout"}

Exposed(d) ==
    CASE d = "carry" -> ~CarriesSeparated
      [] d = "shuffle" -> ~lends /\ \E n \in DOMAIN expr : expr[n].kind \in {"ADD", "SUB"}
      [] d = "difference" -> \E n \in DOMAIN expr : expr[n].kind = "SUB"
      [] d = "padding" -> \E r \in Rows \ RowsOf(block_idx) : CpuRow(r) # 0
      [] d = "result" -> SumOf(expr) = 0
      [] d = "layout" -> ~BlocksFound

Exposures == {d \in Deviations : Exposed(d)}

(* In every interleaving of the SIMD-groups the block's output is the      *)
(* count that the CPU computes for the block, the sum of the scalar values *)
(* of its rows, unless the query has one of the six features named above:  *)
(* two additions without a comparison in between, a shuffle that does not  *)
(* lend an inactive lane's register, a SUB, padding rows of zeros that     *)
(* score, a root that is not a SUM, fewer fields than the schema in a      *)
(* later block.                                                            *)
GpuExact == Finished /\ Exposures = {} => output = CpuCount

=============================================================================
