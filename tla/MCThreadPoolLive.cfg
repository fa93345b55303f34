\* Liveness and refinement; every caller runs twice, so that a caller can
\* refill the pool while another one waits for it to be idle.  Calls over no rows
\* do not touch the pool.
SPECIFICATION FairSpec
CONSTANTS
  Workers = {w1, w2}
  Callers = {c1, c2}
  BlockRows = 2
  RowCounts = {5}
  ThreadCounts = {2}
  FieldCounts = {0, 1}
  MaxRuns = 2
  AllocMayFail = FALSE
INVARIANT
  ExactCount
PROPERTIES
  EveryRunReturns
  DestructorReturns
  ImplementsCountService
