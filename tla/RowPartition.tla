---------------------------- MODULE RowPartition ----------------------------
(***************************************************************************)
(* How ParallelRunner::run (src/compute/parallel_runner.cpp) splits the    *)
(* rows 0 .. n-1 of a data set into the half-open row ranges it hands to   *)
(* the thread pool.  Every range but the last starts and ends on a block   *)
(* boundary, because a kernel call consumes one block of rows (64 in the   *)
(* code, the constant BlockRows here).  And how the engine splits blocks:  *)
(* execute_native_parallel for its threads, execute in GPU mode for the    *)
(* workers that slice the rows (src/api/engine.cpp).                       *)
(***************************************************************************)
EXTENDS Integers

CONSTANT BlockRows  \* rows per kernel call: 64 in the code

ASSUME BlockAssumption == BlockRows \in Nat \ {0}

-----------------------------------------------------------------------------

(* `if (num_threads <= 0) num_threads = 1;`                                *)
NumThreads(k) == IF k <= 0 THEN 1 ELSE k

(* Rounded down to a block boundary, but never zero.                       *)
RowsPerThread(n, k) ==
    LET aligned == ((n \div k) \div BlockRows) * BlockRows
    IN  IF aligned = 0 THEN BlockRows ELSE aligned

ChunkStart(n, k, t) == t * RowsPerThread(n, k)

(* Mutant: the last thread does not take the remainder.                    *)
ChunkEndNoRemainder(n, k, t) ==
    LET end == ChunkStart(n, k, t) + RowsPerThread(n, k)
    IN  IF end > n THEN n ELSE end

(* Mutant: the end of a range is taken to be inclusive.                    *)
ChunkEndInclusive(n, k, t) ==
    LET end == ChunkStart(n, k, t) + RowsPerThread(n, k)
    IN  IF end >= n \/ t = k - 1 THEN n ELSE end + 1

(* The last thread takes the remainder, and no range passes the end.       *)
ChunkEnd(n, k, t) ==
    LET end == ChunkStart(n, k, t) + RowsPerThread(n, k)
    IN  IF end > n \/ t = k - 1 THEN n ELSE end

(* Mutant: only the break at the first empty range ends the loop.          *)
MoreChunksUnbounded(n, k, t) == ChunkStart(n, k, t) < n

(* The loop runs while t < num_threads and breaks at the first empty range.*)
MoreChunks(n, k, t) == t < k /\ ChunkStart(n, k, t) < n

(* worker_thread walks its range in blocks; the last block may be short.   *)
BlockBases(start, end) ==
    {row \in start .. (end - 1) : (row - start) % BlockRows = 0}

RowsInChunk(row, end) == IF end - row < BlockRows THEN end - row ELSE BlockRows

RowsVisited(start, end) ==
    UNION {row .. (row + RowsInChunk(row, end) - 1) : row \in BlockBases(start, end)}

-----------------------------------------------------------------------------

(* Thread t of k in execute_native_parallel; the last takes the remainder. *)
NativeStart(n, k, t) == (n \div k) * t

NativeEnd(n, k, t) == IF t = k - 1 THEN n ELSE NativeStart(n, k, t) + n \div k

(* Worker w of k in execute.                                               *)
SliceStart(n, k, w) == (n * w) \div k

SliceEnd(n, k, w) == (n * (w + 1)) \div k

=============================================================================
