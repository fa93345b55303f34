\* Safety of two concurrent callers on a pool of two workers, where the
\* allocation of a scratchpad may fail in any of them.
SPECIFICATION Spec
CONSTANTS
  Workers = {w1, w2}
  Callers = {c1, c2}
  BlockRows = 2
  RowCounts = {0, 1, 5}
  ThreadCounts <- AnyThreads
  FieldCounts = {0, 1}
  MaxRuns = 1
  AllocMayFail = TRUE
SYMMETRY PoolSymmetry
INVARIANTS
  NoDanglingTask
  NoLostWakeup
  NeverOvercounts
  IInv
