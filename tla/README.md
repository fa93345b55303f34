# AarchGate in TLA+

A verification development for AarchGate: TLA+ modules of its parts, TLC
configurations that check them on small instances, and TLAPS proofs of the
results that matter most for every value of the constants. Paths below are
relative to the repository root.

## The system

AarchGate has two halves.

**The vector engine.** A caller registers schemas (`core/registry.cpp`), builds
an expression tree (`jit/jit.cpp`), and hands it to `ApexEngine::set_expression`
(`api/engine.cpp`), which has `jit/compiler.cpp` compile it. In `BIT_SLICED`
mode a block of 64 rows is transposed into 64 bit-planes
(`compute/bit_slicer.cpp`) and the kernel computes on all rows of the block at
once, one plane after the other; in `SCALAR` mode the kernel loops over the
rows. `execute` runs blocks one after the other, `execute_parallel` splits the
rows over a process-wide thread pool (`compute/parallel_runner.cpp`), and
`GPU_THROUGHPUT` sends planes to Metal (`gpu/metal_device.mm`), where a kernel
generated for the expression (`generate_msl_source`) gives a block to two
SIMD-groups with one lane per bit. A C API and the Java and Python bindings wrap
the engine.

**The npm sandbox daemon.** `host/main.cpp` boots a micro-VM
(`host/vm_controller.mm`). In the guest, kernel probes (`guest/tracer.bpf.c`) put
system call events into a ring buffer, and an agent (`guest/agent.cpp`) streams
them over vsock. The host's reader thread cuts the stream into events, classifies each (`host/policy_engine.cpp`), stops
the VM at once on a violation, and otherwise queues the record for a worker that evaluates batches of 64 with a
compiled expression of the engine. Events and state changes are published for a
dashboard (`host/monitor.cpp`).

### Inventory

| Part | State | Operations | What is hard | Modules |
|---|---|---|---|---|
| Thread pool, `ParallelRunner` | task queue, active count, results on the callers' stacks | run, enqueue, wait_all, worker loop, destructor | callers share one pool and one idle condition; wakeups; failing allocation; the row split's seams | `RowPartition`, `ThreadPool`, `CountService` |
| Bit slicer | a block of words, in place | six stages, plane clearing | a wrong mask shows in few positions | `BitSlicer`, `BitPlanes` |
| Comparison and arithmetic code | masks, carry, planes | one step per bit | order of updates, equality, wrap-around, carry-in | `BitCircuits`, `CompareLoop`, `AddLoop` |
| A block from rows to count | gather buffer, planes, masks | gather, slice, add, compare, count | padding, stale rows, masks at the seams of the parts | `BlockPath` |
| Expression compiler and kernel | slots, register cache, scratchpad | allocate, one step per node, aggregate, next block | slot overlap, stale registers, state left by the last block | `ExprDag`, `ExprKernel` |
| Scalar kernel | result register, slots, row index | one step per node, gather | values leaking from node to node and row to row; agreement with the bit-sliced kernel | `ScalarKernel`, `ExecutionModes` |
| GPU kernel | planes in lanes, threadgroup memory | one step per statement and SIMD-group | missing barriers, the prefix scan, the layout of blocks, agreement with the CPU | `GpuKernel`, `PrefixScan`, `KoggeStone`, `GpuParity` |
| Engine, registry, C API, pipeline cache | maps by schema name, gather buffers, pipelines | every call of the API, from several threads | long legal call sequences; what was looked up then and is used now; shared buffers and an unlocked cache | `EngineApi`, `ApiPromises` |
| Policy engine | process tree | classify, evaluate a batch | two statements of one rule | `PolicyEngine` |
| Daemon and VM controller | reader, worker, stoppers, run loop, collector | start, receive, stop, shutdown | several threads in `stop` at once; shutdown while stopping; lost wakeups | `SandboxDaemon` |
| Guest tracer, agent, stream, reader | ring buffer, partly written record, receive buffer | reserve, submit, connect, poll, write, read, cut | processors in any order, short writes, records cut anywhere, ends of either side | `GuestTelemetry` |
| Dashboard | counters, process tree, VM status | publish, take, draw | lost messages, late start, events out of order | `Monitor` |
| ESF manager, memory views, node pool, bindings | - | - | - | not modelled |

PROJECT.json lists every component with its sources, the hazards of the code at
their lines, and the definition-to-source map.

## Modules and how they correspond to the code

**RowPartition** has the arithmetic of `ParallelRunner::run`: `NumThreads` (a
non-positive request is one thread), `RowsPerThread` (rounded down to blocks, at
least one block), `ChunkStart`, `ChunkEnd` (the last chunk takes the remainder)
and `MoreChunks` (the loop's test); and the two other splits of the engine, of
blocks among the threads of `execute_native_parallel` (`NativeStart`, `NativeEnd`)
and among the workers that prepare a GPU batch (`SliceStart`, `SliceEnd`).

**ThreadPool** has the pool and its callers. Each critical section under
`queue_mutex_` is one action; a notification made after the unlock is another. A
condition variable is the set of threads asleep on it, and spurious wakeups are
actions. A task carries its caller and slot, standing for the two pointers into
the caller's stack; a count over a range is the set of rows counted, so that a
wrong sum is visible as a row counted twice or not at all. A worker returns at once
when the expression refers to no field, and when its scratchpad cannot be allocated:
such a task counts no rows (`CountedRows`). **CountService** is
the abstract specification: a caller asks, and gets each of its rows counted
once, or 0 for an expression without fields, as if it were alone. How a worker
gathers and slices its blocks is what `BlockPath` has of `process_chunk_expr`; the
worker's own copy of that code is not modelled again.

**BitSlicer** writes row and bit numbers in binary, as functions from levels to
Booleans: the stage with stride 2^j pairs indices that differ in level j, and one
action covers the NEON and the scalar form of the stages. A word is the set of
its one bits, shifts move bits and drop those that leave the word.

**BitCircuits** has the Boolean circuits as set operations (a register is the set
of rows whose bit is one). **CompareLoop** and **AddLoop** are the unrolled loops
of one node; history variables `lval`, `rval`, `oval` and `weight` hold the
scalar values of the bits handled so far. **BlockPath** composes them: one block
is gathered (by `gather_field`, which zero-fills a short block, or by the loop for
five contiguous fields, which leaves in the rows past the end what the buffer held from
earlier blocks, any of the buffers in `Stale`), sliced by
`BitSlicer`, optionally added to or subtracted from by `AddLoop`, compared by
`CompareLoop` and counted, with or without a row mask. **BitPlanes** has the
values that planes hold.

**ExprDag** has expression trees, the analysis order and the reference
semantics `ScalarValue`. Values are compared as unsigned numbers, as every back end
does, although README.md:471 calls them "fixed-point integers (`int64_t`)"; the
reference takes the code's order. Five kinds the builders offer (`Uncoded`: MUL, POPCNT,
LSL, LSR, INFERENCE_COUNT), and a SUM below the root, get slots and no code: a
node of these kinds reads as whatever its slots hold (`Skip` of `ExprKernel`), and the
properties on counts do not speak of expressions that use one. **ExprKernel** allocates slots and carry registers node
by node, runs the emitted code node by node on two successive blocks with the
register cache (`load_slot`, `store_slot`, round-robin eviction), and aggregates
as the engine does (population count of a mask, weighted planes, hybrid sums of
a forest). A node without a carry register computes arbitrary planes, since the
code reads `carry_regs[-1]`; the run has an expression with one addition too many.
**ScalarKernel** is the row loop of the scalar
compiler. **ExecutionModes** runs both kernels on the same block, as an engine in
each of its two CPU modes.

**GpuKernel** is the kernel that `generate_msl_source` writes, on one block: two
SIMD-groups take its statements independently and meet at the barriers; the
lanes of one group go in lockstep, as SIMD-groups do. `shared_A`, `shared_B` and
`shared_carry` are the threadgroup memory. **PrefixScan** has `kogge_stone_scan`
and **KoggeStone** is the scan of one group as a specification of its own, which
`GpuKernel` instantiates for each group. In
`(lane_id == 0) ? 0ULL : shuffle_up_64(cur_g, 1)` lane 0 does not take part in
the shuffle, and what lane 1 then reads is undefined: `lends` chooses whether this GPU
lends the register of the inactive lane, and where it does not lane 1 reads anything. The
result is compared with the CPU's count of the same rows (`CpuCount`), not with a
reference of its own; `Exposures` lists the six features of a query on which the two may
differ. **GpuParity** asks one query after another, each with exactly one of these
features.

**EngineApi** has the maps of `ApexEngine`, the registry, and the pipeline cache
of the Metal singleton, with one action per API call, of any of several threads.
A call that gathers into the engine's buffers is two or more steps, in which
another thread's rows can take the place of its own. A dispatch to the GPU that finds no
pipeline looks up, compiles and inserts in steps of their own, without a lock, as
`MetalDevice::dispatch` does. An execution is recorded
as what it ran, with which layouts and on which form of data; what a kernel
computes is the matter of the other modules. `execute` picks any schema with an
expression, the order of a hash map. Where the code has no defined behaviour left,
`process` says why and nothing follows: an engine deleted twice or during an
execution, a threshold of `set_logic` executed although the JIT returned no kernel
for it, two threads in the pipeline map while one inserts. **ApiPromises** notes which
sentences of docs/SDK_REFERENCE.md the calls so far have broken.

**PolicyEngine** has the classification of events and the compiled rule;
**SandboxDaemon** composes it with the collector and the VM controller as built
for Apple. Threads: main, reader, worker, and a detached stopper per violation;
`stopping[t]` is where thread t is inside `VMController::stop`. A second `join` of
the reader throws and ends the process. `stop`'s test of `vm` and the stop
request are one step. Virtualization.framework, the run loop and the condition
variable are external: completion handlers are delivered when main runs its
queue (in `CFRunLoopRun`, or spinning in `stop` itself), closing the descriptor
ends the reader's `read`, and `wait` may wake spuriously. In mock mode the
generator sends only events of the two harmless kinds of its script. The history
variable `late` records that the guest connected after a `stop` had passed its
joins; `live` in a queued record is what `running` was when it was classified.

**GuestTelemetry** has the probes on each processor (reserving a record and
submitting it are two steps), the ring buffer, the agent's `main` with its
connection attempts, failures and signals, the stream, on which a record is `Size`
chunks, and the reader, whose `read` returns any part of what was sent. The ring
buffer and vsock are external: records leave in the order they were reserved, a
record not yet submitted holds up those behind it, and a full buffer refuses.
**Monitor** has what the daemon's threads publish, the iceoryx queue (external:
a loan may fail, a message without a subscriber is gone, a full queue drops its
oldest) and the dashboard's model. There a stop of the VM is one step, since
`SandboxDaemon` has it in detail; around it the collector's worker takes the steps of
the code, alert (`WorkerAlerts`), stop (`WorkerStops`) and wake of main (`WorkerEnds`),
with main anywhere. The dashboard's counters include that of MTE_TRAP (`CountedTypes`),
a type the agent never sends. **TelemetryPath** composes the two: the record
the reader cuts is the event `add_event` publishes. The history variables
`accepted`, `delivered`, `short` and `lost` say which records entered the ring, which
reached the daemon, and whether a write was short or a message did not arrive.

The modules meet as the code does: `ExprKernel` uses the circuits that
`CompareLoop` and `AddLoop` show correct one loop at a time, and its reference
takes the subtraction `AddLoop` establishes; `BlockPath`, `ExecutionModes` and
`TelemetryPath` are compositions; `ThreadPool` takes a kernel's count as given;
`SandboxDaemon` and `Monitor` extend `PolicyEngine`.

## Runs

Each run is a configuration of an `MC` module (or of `ApiPromises`); all finish
within four minutes, most within one. A run that is violated states the sentence in a
weak form, so that one counterexample exhibits every finding listed for it.

| Run | Instance | Shows |
|---|---|---|
| `pool_safety` | 2 workers, 2 callers, blocks of 2 rows, 0, 1 or 5 rows, -1, 1, 2 or 3 threads, expressions with and without a field, failing allocations | no task outlives its run, no wakeup is lost, no row is counted twice or for another run; the inductive invariant |
| `pool_liveness` | the same pool, two runs of 5 rows per caller, allocations succeed | exact counts, every run returns, the destructor returns, refinement of `CountService` |
| `block_path` | blocks of 4 rows of 4 bits, full and short, with stale rows | transposition level by level; comparison and arithmetic against scalar values; from rows to count, no padding row counts; the inductive invariant |
| `execution_modes` | 2 rows of 2 bits, 2 cache registers, 2 carry registers, 15 slots, every node kind that has code and some that have none | slots are disjoint, the cache is coherent, each kernel counts what a scalar program does, and the two modes agree |
| `gpu_kernel` | 2 SIMD-groups of 4 lanes, 8 rows of 8 bits, full and padded blocks | operands are complete when read, the scan is a ripple carry, the output is the CPU's count in every interleaving, unless the query has one of the six features of `Exposures` |
| `engine_api` | 1 engine, 2 schemas, 2 layouts, 2 expressions and one that does not compile, `BIT_SLICED` and `GPU_THROUGHPUT`, 2 calling threads | expressions have a kernel, one layout per execution, an execution runs the expression bound to its schema or one dispatched to the GPU under the same name, which overlapping calls read their own rows, what brings the process down; the inductive invariant |
| `sandbox_daemon` | 3 events, batches of 2, both modes | batches are not stranded, the two forms of the rule agree, stop silences the reader, violations end the VM, batch violations end the daemon; the inductive invariant |
| `telemetry` | 3 events on 2 processors, a ring of 2, messages and log of 2, one fault | records arrive whole, in order and all; the process tree is a forest; a kill is shown and stays shown |
| `node_kinds` | one expression with SUB and NOT | violated: neither CPU mode counts what is documented |
| `gpu_parity` | as `gpu_kernel`, five queries in a row | violated: GPU and CPU differ on a root without SUM, padding rows, a field left out, SUB, and two additions in a row |
| `api_promises` | 1 engine, 1 schema, 1 caller, all modes | violated: four sentences of the SDK reference fail |
| `daemon_stop_spin` | as `sandbox_daemon` | violated: a thread in `stop` can wait for ever |

### Bounds, and why they are enough

- *Pool.* Two callers are what it takes for one run to see another's tasks, two
  workers for a pool that is half idle. Blocks of 2 rows with 5 rows give a
  short last block, more threads than chunks, and a remainder for the last
  thread; -1 is the out-of-range request. Two runs per caller (`MaxRuns`) let a
  caller refill the pool while another waits for it. Workers and callers are
  symmetric in the safety run only. A call over no rows does not touch the pool, so
  the liveness run has calls of 5 rows only.
- *Block path.* The steps treat rows and bits alike; 4 by 4 is the smallest block
  with two different stages, tells row 0 from the others, and has a first, middle
  and last bit. The proofs lift these bounds. Columns, addends and bounds are a
  choice of values with equal, smaller, larger and wrapping pairs.
- *Kernel.* Two cache registers force evictions with three live masks; 15 slots
  leave an odd hole after the aligned blocks and let one expression run out;
  two fields let another exceed the limit, and two carry registers a third run out of
  them. The second block meets a scratchpad
  cleared (`execute`) or not (`execute_native`).
- *GPU.* 4 lanes give the scan two strides, a short and a longer one, as 32 give
  it five; 2 groups are what the code has. Two blocks and an expression that
  leaves a field out show the layout. The scan is proved for any number of lanes.
  All expressions are of kinds that have code.
- *Engine.* Two threads are what it takes to overlap. Threads, layouts, schemas and
  the expressions that compile are symmetric. `SCALAR` is left out: the calls treat it as
  `BIT_SLICED`, but for the form of the data, on which no property of the run depends
  (`api_promises` has all three modes). `FiveSet` bounds what is set in the engine
  at a time: schemas registered, different layouts and expressions count once,
  thresholds twice, and the sum is at most 5. That allows two schemas with an
  expression each, two schemas with different layouts and an expression, a schema
  registered twice, and a threshold next to an expression; not two thresholds. The
  proof needs none of these bounds.
- *Daemon.* `MaxEvents` 3 and `Batch` 2 allow a full batch and one event more,
  and up to three stoppers next to main and the worker. 64 becomes 2 because
  only full or not full is ever tested.
- *Telemetry.* `Size` 2 lets a record be cut and `Window` 2 lets a write block with
  a record half sent; `RingSlots` 2 fills with 3 events, `Retries` 2 has a retry and
  an end, `QueueSize` and `LogSize` 2 overflow. `MaxFaults` 1 bounds failed loans, a
  late start, and signals and failures of agent and monitor together: one fault
  in every place, not two in a row. The events are an EXEC, a violation by the
  same process, and a child that may be seen before its parent.

Deadlock is checked except in two modules. In `EngineApi` a program may stop
calling, with its engines destroyed. In `SandboxDaemon` the hang that
`daemon_stop_spin` reports is a deadlock.

### Fairness

`ThreadPool`: weak fairness of each worker's and each caller's steps once it is
inside `run`, and of the destructor's: threads that can run do. No fairness is
assumed of starting a run, or of spurious wakeups. `SandboxDaemon`: weak fairness
of reader, worker, main and each stopper, and of the VM answering a stop request
while main runs its queue; strong fairness of `Push`, which needs `mutex_` while
the worker may take it again and again on spurious wakeups: a mutex that keeps
being released is acquired. Nobody has to connect, send, close or signal.
`TelemetryPath`: weak fairness of the disjunction of all threads' own steps: as
long as some thread can run, one does. This is less than fairness of each thread
and enough, because no such step can be repeated for ever. Nothing has to be
connected, subscribed, signalled, or fail.

## Proofs

Eight modules hold proofs, all checked to the last leaf.

- **ThreadPoolProofs.** For any finite non-empty set of workers, any callers,
  row counts and thread counts. The properties are not inductive: that no task
  dangles needs the worker count to be exact, and that the count is exact needs
  every slot handed out to be either outstanding or filled. `IInv` adds where
  the split loop is (`SplitInv`), what each slot holds (`SlotInv`), that queued and
  running tasks are those of their callers' current runs (`QueueInv`,
  `RunningInv`), and that the destructor runs with no caller inside (`DtorInv`).
  It is proved action by action (`InvariantHolds`), and `TypeCorrect`,
  `TasksNeverDangle`, `ActiveCountExact`, `WakeupsNotLost` and `RunNeverOvercounts`
  follow. The lemmas on steps take what they use of cardinalities as the
  hypothesis `Counting`, which `CountingHolds` discharges from the library at the end.
  The splits: `SplitIsPartition` shows that for every n, every k and every block
  size the ranges are disjoint, within 0..n-1, and cover it;
  `NativeSplitIsPartition` and `SliceSplitIsPartition` show that each block belongs
  to exactly one thread, or worker, also when there are fewer blocks.
  `RunCountsExactly` combines the invariant with `SplitIsPartition`;
  `PoolImplementsCountService` shows each step a step or a stutter of
  `CountService`. The last two assume that allocations succeed
  (`~AllocMayFail`), without which the code returns a partial count.
- **CompareLoopProofs.** `PrefixOrderHolds`: the masks order the prefixes, in
  every row, for every width. `ComparisonIsExact` follows.
- **AddLoopProofs.** `CarryIdentityHolds`: result plus weighted carry is the sum
  of the operands so far. With all values below the weight, `AddIsExact` and
  `SubByRow` follow, and `ArithmeticIsExact` is both, as the invariant the run
  checks. The history variable `weight` keeps the argument linear.
- **BlockPathProofs.** A block from the caller's rows to its count, for every
  block size 2^`Levels`, every number of planes and all contents of columns and
  buffers. `TransposeByLevels`: bit c of word k is the input's with the levels done
  exchanged between k and c; `SliceIsExact` is its last case. `PathInvariant` is the
  inductive `PathInv`, which the run checks too: the parts run one after the other
  (a part that has not begun is in its initial state), the transposition's and the
  two loops' own invariants hold, the rows past the end are zero where no mask
  removes them, and `AddSoFar` and `CompareSoFar` tie the values the loops
  accumulate to the planes: the arithmetic has read the k lowest digits of each
  row, the comparison the others. Digits become numbers by induction
  over the planes: `LowNumber` is a recursive function, its equations come from
  `SetInduction` (a set of naturals with 0 and successors is all of them, by the
  least counterexample), and `LowPlanesSteps` states them once for the rest. The steps of
  the loops are the steps of `AddLoop` and `CompareLoop` under the renaming that
  `BlockPath` makes (`AddIsLoop`, `CompareIsLoop`), so that the theorems of their proof
  modules apply. `PathMaskIsExact`, `PathCarryIsExact` and `PathArithmeticIsExact`
  follow, and `CountIsExact`: the count is that of a scalar program over the rows that
  are not padding.
- **EngineApiProofs.** For any engines, schemas, layouts, expressions and calling
  threads, with or without a Metal device. `OneLayout`, `RunsBoundExpression` and
  `OwnRows` speak of the last answer and are not inductive: an execution reads the maps
  when it begins, and the buffers or the pipeline cache later. `IInv` (checked by the
  run) adds that the descriptors kept with stored logic are those of the registry
  (`LogicInv`); that an execution in progress either has been disturbed or is the only
  one on its engine's buffers, which hold its rows, and is `Coherent` (`CallInv`); that a
  pipeline, cached or being built, is one of an expression dispatched under the name of its
  schema, and that one thread at most is inserting (`PipelineInv`); and what the four
  ways out of defined behaviour come from (`DownInv`): among them is no expression that
  runs without a kernel. `EngineInvariant` proves it call by call, and
  `OffsetsMatchStride`, `PipelinesAreOfTheirSchema` and `RowsAreTheCallers` follow.
- **KoggeStoneProofs.** `ScanIsRippleCarry`: the invariant is that a lane's masks
  are those of the interval of lanes within the strides done so far; two adjacent
  intervals combine into one, and the interval from lane 0 is the ripple carry.
  For any number of lanes and any set of rows.
- **SandboxDaemonProofs.** For any events, any number of them (and so of threads
  inside `stop`) and any batch size. `BatchesNotStranded`, `FastPathIsComplete` and
  `StopIsQuiet` are not inductive. The first two need what `add_event` holds between
  classifying an event and queueing it (`PushInv`, and `TreeInv` for the flags the
  classification reads); the third needs that nobody is in `stop` before the start
  (`StartInv`), that a VM still starting does not run (`StartingInv`), and that once a
  thread is past the joins there is no reader left but a late one (`JoinInv`). `DaemonInvariant` proves them together as `IInv`, which the
  run checks too. `StopIsQuiet` has the exception the property names: a guest that
  connects after a `stop` has passed its joins (`late`).
- **TelemetryPathProofs.** `StreamIsInOrder`: for any processors, programs, record
  size, ring, window and number of attempts, through faults, signals and a closed
  connection. The invariant `PathInv` counts chunks from the first record of all:
  what was cut are the first records (`DeliveredInv`), each chunk in the stream or
  in the reader's buffer is at the place its record and number give it
  (`InFlightInv`), and as long as the agent can write, the ring holds exactly the
  records after those sent (`RingInv`). `Cut` then takes the chunks of the next
  record and no others. It quantifies over all numbers, so no run lists it;
  with the numbers bounded TLC confirms it on the instance of `telemetry`.
  `KilledStaysKilled` and `TreeIsForest` are about the dashboard at the other end, for
  any queue, log and faults. One turn of the polling loop folds all waiting messages
  into the model, so the invariant `DashboardInv` speaks of the model after each of
  them (`Reached`): the start of the VM is the first message of all, while nothing
  is lost a kill comes after the violation it follows, and the process tree is a
  forest. That a
  child seen before its parent, or twice, keeps it one is shown for `TreeEntry` by
  itself; the condition on sets of processes in `ProcessForest` says that there is
  no cycle, without counting.

`ScanIsRippleCarry` is about the scan by itself; `GpuKernel` instantiates it, and its
run checks the same formula with the scan fed by the rest of the kernel.

The assumptions on constants (`BlockAssumption`, `PoolAssumption`,
`LevelsAssumption`, `PlanesAssumption`, `PathAssumption`, `LanesAssumption`,
`ApiAssumption`, `DaemonAssumption`, `GuestAssumption`) say that sizes are positive
naturals (a record at least two chunks), a block has as many rows as a word has
bits and that number is a power of two, the workers finite and not empty, the
first row a row, `BIT_SLICED` (the mode of a new engine) one of the modes, and
events records of the known kinds, of processes that are not their own parents
(the tracer reads the thread group of the task and that of its real parent).

### Only model-checked

Liveness under fairness (`EveryRunReturns`, `DestructorReturns`,
`ViolationStopsVM`, `BatchKillEnds`, `RecordsDelivered`, `KillShown`) is out of the
prover's reach, as is ENABLED. `ExprDag` declares a RECURSIVE operator, and the
prover loses its SMT solver in a module that reaches one, so nothing that extends it
(`ExprKernel`, `ScalarKernel`, `ExecutionModes`, `GpuKernel`) holds a theorem: `TypeOK`,
`SlotsDisjoint`, `CacheCoherent`, `CountExact`, `ScalarExact`, `ModesAgree`,
`OperandsShared`, `RippleCarry` of the composed kernel and `GpuExact` stay with TLC. This
is why the scan is a module of its own. The induction theorems of the library
take an operator as parameter, which the installed provers cannot instantiate;
where a proof needs induction over data (the value of a row of planes) it
goes through sets instead, as described for `BlockPathProofs`.

## Where the code and what is said of it differ

Four runs show disagreements (see the findings of PROJECT.json):

1. `node_kinds`. `SUB` writes its carry-in to row 0 only (`jit/compiler.cpp:508`), so
   that every other row of a block is one too small. `SubByRow` proves exactly what it
   computes, and `CountExact` takes that as the meaning of SUB. The scalar compiler has
   no case for NOT (`jit/compiler.cpp:827`). On an expression with both, neither mode
   counts what is documented.
2. `daemon_stop_spin`. `VMController::stop` runs the calling thread's run loop where its
   comment speaks of the main one (`host/vm_controller.mm:248`); a worker that is
   stopping the VM when main leaves its loop spins for ever, and main waits for it.
3. `gpu_parity`. README.md:23 promises "bit-perfect, deterministic results across CPU
   and GPU". An expression without a SUM at its root gives 0; padding rows count
   as rows of zeros; blocks after the first are found only if the expression uses every
   field of the schema; SUB inverts the last bit of the difference in every row but
   row 0 (the CPU is one too small there); and the code for an addition reads
   `shared_carry` after its only barrier (`api/engine.cpp:919`), so that with two
   additions in a row the first SIMD-group may overwrite it before the second has read
   it. `GpuExact` holds for queries with none of these features, on a GPU on which a
   shuffle reads an inactive lane's register; the run does not use the sixth, undefined,
   case as evidence.
4. `api_promises`. Of docs/SDK_REFERENCE.md: a second `apex_destroy` deletes the engine
   again (line 68); `apex_set_logic` returns 0 when nothing was set (line 155); after a
   second `apex_set_logic` the GPU evaluates the first expression, cached by
   schema name (line 145); and `apex_execute_parallel` hands rows to a kernel compiled for
   planes in `GPU_THROUGHPUT` mode (line 244).

Others met on the way are hazards without a run of their own: partial counts on
failing allocation, more additions in an expression than carry registers, node kinds
without code, a threshold without a kernel, a registered schema replaced by half,
threads that share an engine's gather buffers or meet in the pipeline cache, and a
short write of the agent, which is
not resumed and misframes the rest of the stream. The models contain these behaviours
(or say in a hazard's note that they do not), and the properties state what holds
despite them, each exception named in the property: `AllCarriesAssigned` and `NoCode` in
`CountExact`, `mixed` in `OneLayout`, `dispatched` in `RunsBoundExpression`, `late` in
`StopSilencesReader`, `short` in `StreamInOrder`, `lost` in `KilledIsFinal` and
`KillShown`, `Exposures` in `GpuExact`, NOT, SUB and kinds without code in
`ModesAgree`. What such an exception excludes is described, not shown correct.

## Not modelled

Instruction encoding (asmjit), Metal's buffers and queue, `kernels/bit_sliced.metal`
(which the engine does not load), `run_with_stats`' cycle counts, the rendering
of the dashboard apart from the VM's status, the Endpoint Security callback
(stateless), the argument conversions of the bindings, and the multiplier and
carry-save circuits that no expression reaches. `NodePool` is not modelled: trees
are values in the models, so that running out of nodes (nothing calls `reset`
while the pool lives) is not seen. The limit
of 8 fields in the native paths is not modelled. What a program does after its
behaviour has become undefined (a destroyed engine used again, two threads in one map) is
not modelled: `EngineApi` stops there and says why, elsewhere a hazard's note does. The
copy of the gather loop in `parallel_runner.cpp`, which pads every short block, is not
modelled beside that of the engine.

## Plan

Done: both halves with their compositions, both CPU modes and the GPU kernel,
the telemetry from probe to dashboard, concurrent callers of an engine; proofs
for the pool, the splits, a block from rows to count, the scan of the GPU, the
engine's calls, the daemon, the telemetry stream and the dashboard. Next:

1. **The node pool and recompilation.** `NodePool` at its limit, trees compiled
   twice with `carry_reg`, `eq_slot_id` and `skip_jit` left over, extending
   `ExprKernel`.
2. **Abstract specification of the daemon**: running, stopping, stopped, refined
   by `SandboxDaemon`, and its composition with `TelemetryPath`.
3. **Proofs**: slot disjointness and cache coherence of `ExprKernel`, and
   `OperandsShared` of `GpuKernel`, with the trees of `ExprDag` walked without a
   RECURSIVE operator.
