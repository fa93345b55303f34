------------------------------ MODULE ExprDag ------------------------------
(***************************************************************************)
(* Expressions of the engine (include/apex/jit/ir.hpp, src/jit/jit.cpp)    *)
(* and the analysis pass that both compilers share (ExpressionAnalyzer of  *)
(* src/jit/compiler.cpp).                                                  *)
(*                                                                         *)
(* The builders append nodes to the global pool and take pointers to nodes *)
(* that already exist, so an expression is a sequence of nodes whose       *)
(* arguments have smaller indices; a node may be shared.  The last node is *)
(* the root.  A node is [kind, args, val]: args lists left, right, cond    *)
(* (or the operands of SUM), val is the field of a LOAD, the value of a    *)
(* CONST and the weight of an operand of SUM.                              *)
(***************************************************************************)
EXTENDS Integers, Sequences, SequencesExt, FiniteSetsExt

Comparisons == {"GT", "LT", "GE", "LE", "EQ"}

(* Kinds that the builders offer and the analysis accepts, and for which   *)
(* no back end has code.                                                   *)
Uncoded == {"MUL", "POPCNT", "LSL", "LSR", "INFERENCE_COUNT"}

Masks == Comparisons \cup {"AND", "OR", "NOT"}

(* result_kind of a node.                                                  *)
IsMask(node) == node.kind \in Masks

IsLeaf(node) == node.kind \in {"LOAD", "CONST"}

Node(kind, args, val) == [kind |-> kind, args |-> args, val |-> val]

Load(field) == Node("LOAD", <<>>, field)

Const(value) == Node("CONST", <<>>, value)

Root(expr) == Len(expr)

(* Depth-first visit, children first, each node once.                      *)
RECURSIVE analyze(_, _, _)
analyze(expr, n, all_nodes) ==
    IF Contains(all_nodes, n) THEN all_nodes
    ELSE Append(FoldLeft(LAMBDA seq, m : analyze(expr, m, seq), all_nodes, expr[n].args), n)

AllNodes(expr) == analyze(expr, Root(expr), <<>>)

(* The SUM that the engine aggregates itself: the root, or under a root    *)
(* ADD of a constant; 0 if there is none.                                  *)
SumOf(expr) ==
    LET root == expr[Root(expr)]
    IN  IF root.kind = "SUM" THEN Root(expr)
        ELSE IF /\ root.kind = "ADD"
                /\ expr[root.args[1]].kind = "SUM"
                /\ expr[root.args[2]].kind = "CONST"
        THEN root.args[1] ELSE 0

(* The nodes that get slots and no code: those of an Uncoded kind, and a   *)
(* SUM that is not the one the engine aggregates.                          *)
NoCode(expr) ==
    {n \in DOMAIN expr : \/ expr[n].kind \in Uncoded
                         \/ expr[n].kind = "SUM" /\ n # SumOf(expr)}

(* STEP 4 of set_expression, and again generate_msl_source: what the       *)
(* engine adds in every row, and per operand of SUM the node whose mask it *)
(* counts and the weight of a row in that mask.                            *)
BaseOf(expr, n) ==
    IF expr[n].kind = "SELECT" /\ expr[expr[n].args[2]].kind = "CONST"
    THEN expr[expr[n].args[2]].val ELSE 0

base_sum(expr) ==
    LET operands == expr[SumOf(expr)].args
    IN  (IF SumOf(expr) = Root(expr) THEN 0 ELSE expr[expr[Root(expr)].args[2]].val)
          + MapThenSumSet(LAMBDA i : BaseOf(expr, operands[i]), DOMAIN operands)

mask_to_popcount(expr, n) == IF expr[n].kind = "SELECT" THEN expr[n].args[3] ELSE n

delta_weight(expr, n) ==
    IF expr[n].kind = "SELECT" /\ expr[expr[n].args[1]].kind = "CONST"
    THEN expr[expr[n].args[1]].val - BaseOf(expr, n)
    ELSE expr[n].val - BaseOf(expr, n)

-----------------------------------------------------------------------------
(* Reference: the value of an expression in one row, as a scalar program   *)
(* would compute it.  A mask is 1 or 0.  Uncoded kinds have no value.      *)

Bool(b) == IF b THEN 1 ELSE 0

Compare(kind, x, y) ==
    CASE kind = "GT" -> x > y
      [] kind = "LT" -> x < y
      [] kind = "GE" -> x >= y
      [] kind = "LE" -> x <= y
      [] kind = "EQ" -> x = y

(* row[f] is the value of field f, modulus 2^(bits of a value), and Minus  *)
(* what SUB computes before it wraps.                                      *)
ScalarValue(expr, root, row, modulus, Minus(_, _)) ==
    LET value[n \in DOMAIN expr] ==
          LET node == expr[n]
              arg(i) == value[node.args[i]]
          IN  CASE node.kind = "LOAD" -> row[node.val]
                [] node.kind = "CONST" -> node.val % modulus
                [] node.kind = "ADD" -> (arg(1) + arg(2)) % modulus
                [] node.kind = "SUB" -> Minus(arg(1), arg(2)) % modulus
                [] node.kind \in Comparisons -> Bool(Compare(node.kind, arg(1), arg(2)))
                [] node.kind = "AND" -> Bool(arg(1) = 1 /\ arg(2) = 1)
                [] node.kind = "OR" -> Bool(arg(1) = 1 \/ arg(2) = 1)
                [] node.kind = "NOT" -> 1 - arg(1)
                [] node.kind = "SELECT" -> IF arg(3) = 1 THEN arg(1) ELSE arg(2)
                [] node.kind = "SUM" ->
                     MapThenSumSet(LAMBDA i :
                       IF IsMask(expr[node.args[i]])
                       THEN arg(i) * expr[node.args[i]].val
                       ELSE arg(i), DOMAIN node.args)
    IN  value[root]

(* What SUB subtracts in row r on top of its right operand in the bit-     *)
(* sliced CPU kernel: see DifferenceByRow of module AddLoop.               *)
Borrow(r) == IF r = 0 THEN 0 ELSE 1

(* The value that execute counts for row r in ExecutionMode::BIT_SLICED.   *)
(* A root ADD that the engine evaluates itself does not wrap.              *)
CpuResult(expr, row, r, modulus) ==
    LET value(n) == ScalarValue(expr, n, row, modulus, LAMBDA x, y : x - y - Borrow(r))
    IN  IF SumOf(expr) \in {0, Root(expr)} THEN value(Root(expr))
        ELSE value(SumOf(expr)) + expr[expr[Root(expr)].args[2]].val

=============================================================================
