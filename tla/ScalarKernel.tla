---------------------------- MODULE ScalarKernel ----------------------------
(***************************************************************************)
(* The code generated for ExecutionMode::SCALAR: a loop over the rows of a *)
(* block that evaluates the nodes of the expression in post-order, keeps   *)
(* intermediate values in the scratchpad and gathers the result of each    *)
(* row into a mask (compile_scalar_expression of src/jit/compiler.cpp).    *)
(***************************************************************************)
EXTENDS ExprDag

CONSTANTS
    NumRows,  \* rows of a block: 64 in the code
    Width,    \* bits of a register: 64 in the code
    Exprs,    \* the expressions considered
    Blocks    \* contents of a block: field -> row -> value

VARIABLES
    expr,
    data,
    row,        \* row_index
    pc,         \* position in all_nodes
    mem,        \* the scratchpad slot of each node
    val_res,    \* the result register
    final_mask  \* the rows gathered so far

vars == <<expr, data, row, pc, mem, val_res, final_mask>>

Modulus == 2^Width

RowIds == 0 .. (NumRows - 1)

all_nodes == AllNodes(expr)

node == expr[all_nodes[pc]]

(* val_res holds anything when the kernel is entered.                      *)
Init ==
    /\ expr \in Exprs
    /\ data \in Blocks
    /\ row = 0
    /\ pc = 1
    /\ mem = [n \in DOMAIN expr |-> 0]
    /\ val_res \in {0, Modulus - 1}
    /\ final_mask = {}

get_operand(i) ==
    LET n == node.args[i]
    IN  CASE expr[n].kind = "LOAD" -> data[expr[n].val][row]
          [] expr[n].kind = "CONST" -> expr[n].val % Modulus
          [] OTHER -> mem[n]

(* Mutant: the comparisons of GE and GT share a condition code.            *)
ResultStrictGe ==
    LET l == get_operand(1)
        r == get_operand(2)
    IN  CASE node.kind = "ADD" -> (l + r) % Modulus
          [] node.kind = "SUB" -> (l - r) % Modulus
          [] node.kind = "GE" -> Bool(l > r)
          [] node.kind \in Comparisons \ {"GE"} -> Bool(Compare(node.kind, l, r))
          [] node.kind = "AND" -> IF l = 1 THEN r ELSE 0
          [] node.kind = "OR" -> IF l = 1 THEN 1 ELSE r
          [] node.kind = "SELECT" -> IF mem[node.args[3]] # 0 THEN l ELSE r
          [] OTHER -> val_res

(* The switch on the node's kind; a kind without a case, NOT among them,   *)
(* leaves val_res as the last node set it.  AND and OR are bitwise, on     *)
(* masks that are 0 or 1.                                                  *)
Result ==
    LET l == get_operand(1)
        r == get_operand(2)
    IN  CASE node.kind = "ADD" -> (l + r) % Modulus
          [] node.kind = "SUB" -> (l - r) % Modulus
          [] node.kind \in Comparisons -> Bool(Compare(node.kind, l, r))
          [] node.kind = "AND" -> IF l = 1 THEN r ELSE 0
          [] node.kind = "OR" -> IF l = 1 THEN 1 ELSE r
          [] node.kind = "SELECT" -> IF mem[node.args[3]] # 0 THEN l ELSE r
          [] OTHER -> val_res

Evaluate ==
    /\ row < NumRows
    /\ pc <= Len(all_nodes)
    /\ val_res' = Result
    /\ mem' = IF IsLeaf(node) THEN mem ELSE [mem EXCEPT ![all_nodes[pc]] = Result]
    /\ pc' = pc + 1
    /\ UNCHANGED <<expr, data, row, final_mask>>

(* lsl by the row's index and orr: the higher bits of a value that is not  *)
(* 0 or 1 reach the following rows.                                        *)
Gather ==
    /\ row < NumRows
    /\ pc > Len(all_nodes)
    /\ final_mask' = final_mask \cup
         {r \in RowIds : r >= row /\ r - row < Width /\ (val_res \div 2^(r - row)) % 2 = 1}
    /\ row' = row + 1
    /\ pc' = 1
    /\ UNCHANGED <<expr, data, mem, val_res>>

Done ==
    /\ row = NumRows
    /\ UNCHANGED vars

Next == Evaluate \/ Gather \/ Done

Spec == Init /\ [][Next]_vars

-----------------------------------------------------------------------------
(* Properties                                                              *)

Matches(r) ==
    ScalarValue(expr, Root(expr), [f \in DOMAIN data |-> data[f][r]], Modulus,
                LAMBDA x, y : x - y) = 1

(* The mask of a SCALAR expression of the operators that have scalar code  *)
(* (NOT and SUM have none) holds the rows done so far for which the        *)
(* expression is true, and no other: no slot or register of one row        *)
(* reaches the next.                                                       *)
ScalarExact ==
    (\A n \in DOMAIN expr : expr[n].kind \notin Uncoded \cup {"NOT", "SUM"})
      => final_mask = {r \in RowIds : r < row /\ Matches(r)}

=============================================================================
