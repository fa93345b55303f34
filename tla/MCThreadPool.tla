---------------------------- MODULE MCThreadPool ----------------------------
(* Small instances of ThreadPool for TLC.                                  *)
EXTENDS ThreadPool, TLC

PoolSymmetry == Permutations(Workers) \cup Permutations(Callers)

(* num_threads as callers pass it, the out-of-range values included.       *)
AnyThreads == {-1, 1, 2, 3}

=============================================================================
