---------------------------- MODULE BitCircuits ----------------------------
(***************************************************************************)
(* The bit-sliced circuits that the JIT emits for one bit position         *)
(* (src/jit/compiler.cpp, src/jit/circuit_library.cpp).  A 64-bit register *)
(* holds one bit of 64 rows: it is modelled by the set of the rows whose   *)
(* bit is one, so that orr, and, bic and eor are set operations.           *)
(***************************************************************************)

Eor(a, b) == (a \ b) \cup (b \ a)

(* The greater-than mask after one more bit, most significant bit first.   *)
GtBit(gt, eq, a, b) == gt \cup ((a \ b) \cap eq)

EqBit(eq, a, b) == eq \ Eor(a, b)

(* The same for a constant whose bit is t, as compile_comparison emits it. *)
GtConstBit(gt, eq, a, t) == IF t THEN gt ELSE gt \cup (eq \cap a)

EqConstBit(eq, a, t) == IF t THEN eq \cap a ELSE eq \ a

(* Full adder.                                                             *)
SumBit(a, b, carry) == Eor(Eor(a, b), carry)

CarryBit(a, b, carry) == (a \cap b) \cup (Eor(a, b) \cap carry)

(* cond ? a : b                                                            *)
MuxBit(cond, a, b) == (cond \cap a) \cup (b \ cond)

=============================================================================
