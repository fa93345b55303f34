----------------------------- MODULE ThreadPool -----------------------------
(***************************************************************************)
(* The process-wide ThreadPool of src/compute/parallel_runner.cpp and the  *)
(* callers of ParallelRunner::run that share it.                           *)
(*                                                                         *)
(* Every critical section under queue_mutex_ is one action; what the code  *)
(* does outside the mutex (cv_.notify_one in enqueue, cv_.notify_all in    *)
(* the destructor, worker_thread itself) is an action of its own.  A       *)
(* condition variable is the set of the threads blocked on it: a thread    *)
(* whose predicate is false blocks ("asleep"), a notification or a         *)
(* spurious wakeup sends it back to re-testing the predicate.              *)
(*                                                                         *)
(* A run's TaskConfig and its results vector live on the stack of the      *)
(* calling thread; a task carries pointers to both, modelled by the name   *)
(* of the caller and the index of the result slot.  A kernel's count over  *)
(* a range is abstracted to the set of the rows it counted, so that a sum  *)
(* of counts is the number of times each row was counted.                  *)
(***************************************************************************)
EXTENDS RowPartition, Sequences, FiniteSets

CONSTANTS
    Workers,       \* the pool's threads: hardware_concurrency() of them
    Callers,       \* application threads that call ParallelRunner::run
    RowCounts,     \* values of total_rows a caller may pass
    ThreadCounts,  \* values of num_threads a caller may pass
    FieldCounts,   \* numbers of fields the expressions of the callers refer to
    MaxRuns,       \* bound: calls of run per caller
    AllocMayFail   \* whether posix_memalign may fail in worker_thread

ASSUME PoolAssumption ==
    /\ IsFiniteSet(Workers) /\ Workers # {}
    /\ RowCounts \subseteq Nat
    /\ ThreadCounts \subseteq Int
    /\ FieldCounts \subseteq Nat
    /\ MaxRuns \in Nat
    /\ AllocMayFail \in BOOLEAN

VARIABLES
    tasks,           \* tasks_: FIFO queue of WorkerTask
    active_workers,  \* active_workers_
    stop,            \* stop_
    wpc,             \* where each worker is in worker_loop
    wtask,           \* the WorkerTask a worker holds
    cpc,             \* where each caller is in run
    job,             \* total_rows, num_threads, fields.size() of a caller's run
    next,            \* the split loop's t (active_tasks once it ends)
    results,         \* results vector: slot |-> rows counted into it
    answer,          \* value returned last: row |-> times counted
    runs,            \* calls completed, for MaxRuns
    dpc              \* where the pool's destructor is

poolVars == <<tasks, active_workers, stop, wpc, wtask>>
callVars == <<cpc, job, next, results, answer, runs>>
vars == <<poolVars, callVars, dpc>>

NoTask == [caller |-> "none", slot |-> 0, start |-> 0, end |-> 0]

NoJob == [n |-> 0, k |-> 1, f |-> 0]

-----------------------------------------------------------------------------

Init ==
    /\ tasks = <<>>
    /\ active_workers = 0
    /\ stop = FALSE
    /\ wpc = [w \in Workers |-> "test"]
    /\ wtask = [w \in Workers |-> NoTask]
    /\ cpc = [c \in Callers |-> "idle"]
    /\ job = [c \in Callers |-> NoJob]
    /\ next = [c \in Callers |-> 0]
    /\ results = [c \in Callers |-> <<>>]
    /\ answer = [c \in Callers |-> <<>>]
    /\ runs = [c \in Callers |-> 0]
    /\ dpc = "live"

-----------------------------------------------------------------------------
(* ParallelRunner::run                                                     *)

(* Argument checks, then a fresh results vector with zeroed slots.         *)
RunBegin(c) ==
    /\ cpc[c] = "idle"
    /\ dpc = "live"
    /\ runs[c] < MaxRuns
    /\ \E n \in RowCounts \ {0}, k \in ThreadCounts, f \in FieldCounts :
         /\ job' = [job EXCEPT ![c] = [n |-> n, k |-> NumThreads(k), f |-> f]]
         /\ results' = [results EXCEPT ![c] = [t \in 0 .. (NumThreads(k) - 1) |-> {}]]
    /\ next' = [next EXCEPT ![c] = 0]
    /\ cpc' = [cpc EXCEPT ![c] = "split"]
    /\ UNCHANGED <<poolVars, answer, runs, dpc>>

(* `if (total_rows == 0) return 0;`: the pool is not touched.              *)
RunEmpty(c) ==
    /\ cpc[c] = "idle"
    /\ dpc = "live"
    /\ runs[c] < MaxRuns
    /\ 0 \in RowCounts
    /\ job' = [job EXCEPT ![c] = NoJob]
    /\ answer' = [answer EXCEPT ![c] = [r \in {} |-> 0]]
    /\ runs' = [runs EXCEPT ![c] = @ + 1]
    /\ UNCHANGED <<poolVars, cpc, next, results, dpc>>

TaskOf(c, t) ==
    [caller |-> c, slot |-> t,
     start |-> ChunkStart(job[c].n, job[c].k, t),
     end |-> ChunkEnd(job[c].n, job[c].k, t)]

(* ThreadPool::enqueue, under the mutex.                                   *)
Enqueue(c) ==
    /\ cpc[c] = "split"
    /\ tasks' = Append(tasks, TaskOf(c, next[c]))
    /\ next' = [next EXCEPT ![c] = @ + 1]
    /\ cpc' = [cpc EXCEPT ![c] = "notify"]
    /\ UNCHANGED <<active_workers, stop, wpc, wtask, job, results, answer, runs, dpc>>

(* cv_.notify_one() after the unlock; then the split loop's own test.      *)
NotifyOne(c) ==
    /\ cpc[c] = "notify"
    /\ \/ \E w \in Workers :
            /\ wpc[w] = "asleep"
            /\ wpc' = [wpc EXCEPT ![w] = "test"]
       \/ /\ \A w \in Workers : wpc[w] # "asleep"
          /\ UNCHANGED wpc
    /\ cpc' = [cpc EXCEPT ![c] =
                 IF MoreChunks(job[c].n, job[c].k, next[c]) THEN "split" ELSE "wait"]
    /\ UNCHANGED <<tasks, active_workers, stop, wtask, job, next, results, answer, runs, dpc>>

(* Mutant: wait_all looks at the queue only.                               *)
QueueEmpty == tasks = <<>>

(* The predicate of wait_all speaks of the whole pool, not of one caller.  *)
AllIdle == tasks = <<>> /\ active_workers = 0

WaitAll(c) ==
    /\ cpc[c] = "wait"
    /\ cpc' = [cpc EXCEPT ![c] = IF AllIdle THEN "sum" ELSE "asleep"]
    /\ UNCHANGED <<poolVars, job, next, results, answer, runs, dpc>>

(* How often each row of the run was counted by the slots summed up.       *)
CountOf(n, slots, res) ==
    [r \in 0 .. (n - 1) |-> Cardinality({t \in slots : r \in res[t]})]

(* The sum over the active_tasks slots; the results vector is destroyed.   *)
Aggregate(c) ==
    /\ cpc[c] = "sum"
    /\ answer' = [answer EXCEPT ![c] =
                    CountOf(job[c].n, 0 .. (next[c] - 1), results[c])]
    /\ results' = [results EXCEPT ![c] = <<>>]
    /\ runs' = [runs EXCEPT ![c] = @ + 1]
    /\ cpc' = [cpc EXCEPT ![c] = "idle"]
    /\ UNCHANGED <<poolVars, job, next, dpc>>

-----------------------------------------------------------------------------
(* ThreadPool::worker_loop                                                 *)

(* The wait predicate fails: the worker blocks on cv_.                     *)
WorkerSleep(w) ==
    /\ wpc[w] = "test"
    /\ ~stop /\ tasks = <<>>
    /\ wpc' = [wpc EXCEPT ![w] = "asleep"]
    /\ UNCHANGED <<tasks, active_workers, stop, wtask, callVars, dpc>>

WorkerExit(w) ==
    /\ wpc[w] = "test"
    /\ stop /\ tasks = <<>>
    /\ wpc' = [wpc EXCEPT ![w] = "exited"]
    /\ UNCHANGED <<tasks, active_workers, stop, wtask, callVars, dpc>>

(* Pop a task and count this worker as active, in one critical section.    *)
WorkerTake(w) ==
    /\ wpc[w] = "test"
    /\ tasks # <<>>
    /\ wtask' = [wtask EXCEPT ![w] = Head(tasks)]
    /\ tasks' = Tail(tasks)
    /\ active_workers' = active_workers + 1
    /\ wpc' = [wpc EXCEPT ![w] = "run"]
    /\ UNCHANGED <<stop, callVars, dpc>>

(* worker_thread writes its count through the task's result pointer; when  *)
(* the scratchpad cannot be allocated, or the expression refers to no      *)
(* field, it writes 0 and returns.                                         *)
CountedRows(task) ==
    {IF job[task.caller].f = 0 THEN {} ELSE RowsVisited(task.start, task.end)}
      \cup (IF AllocMayFail THEN {{}} ELSE {})

WorkerRun(w) ==
    /\ wpc[w] = "run"
    /\ \E rows \in CountedRows(wtask[w]) :
         results' = [results EXCEPT ![wtask[w].caller][wtask[w].slot] = rows]
    /\ wpc' = [wpc EXCEPT ![w] = "done"]
    /\ UNCHANGED <<tasks, active_workers, stop, wtask, cpc, job, next, answer, runs, dpc>>

(* Mutant: no notify_all when the pool becomes idle.                       *)
WorkerFinishSilent(w) ==
    /\ wpc[w] = "done"
    /\ active_workers' = active_workers - 1
    /\ wpc' = [wpc EXCEPT ![w] = "test"]
    /\ wtask' = [wtask EXCEPT ![w] = NoTask]
    /\ UNCHANGED <<tasks, stop, cpc, job, next, results, answer, runs, dpc>>

(* The worker that leaves the pool idle wakes every thread in wait_all;    *)
(* its task variable is local to the loop body.                            *)
WorkerFinish(w) ==
    /\ wpc[w] = "done"
    /\ active_workers' = active_workers - 1
    /\ cpc' = IF tasks = <<>> /\ active_workers' = 0
              THEN [c \in Callers |-> IF cpc[c] = "asleep" THEN "wait" ELSE cpc[c]]
              ELSE cpc
    /\ wpc' = [wpc EXCEPT ![w] = "test"]
    /\ wtask' = [wtask EXCEPT ![w] = NoTask]
    /\ UNCHANGED <<tasks, stop, job, next, results, answer, runs, dpc>>

-----------------------------------------------------------------------------
(* Spurious wakeups of std::condition_variable::wait: external.            *)

SpuriousWorker(w) ==
    /\ wpc[w] = "asleep"
    /\ wpc' = [wpc EXCEPT ![w] = "test"]
    /\ UNCHANGED <<tasks, active_workers, stop, wtask, callVars, dpc>>

SpuriousCaller(c) ==
    /\ cpc[c] = "asleep"
    /\ cpc' = [cpc EXCEPT ![c] = "wait"]
    /\ UNCHANGED <<poolVars, job, next, results, answer, runs, dpc>>

-----------------------------------------------------------------------------
(* ~ThreadPool: the pool is a function-local static, destroyed when main   *)
(* has returned, so that no thread is inside run any more.                 *)

DtorStop ==
    /\ dpc = "live"
    /\ \A c \in Callers : cpc[c] = "idle"
    /\ stop' = TRUE
    /\ dpc' = "notify"
    /\ UNCHANGED <<tasks, active_workers, wpc, wtask, callVars>>

(* Mutant: notify_one instead of notify_all.                               *)
DtorNotifyOne ==
    /\ dpc = "notify"
    /\ \E w \in Workers : wpc' = [wpc EXCEPT ![w] = IF @ = "asleep" THEN "test" ELSE @]
    /\ dpc' = "join"
    /\ UNCHANGED <<tasks, active_workers, stop, wtask, callVars>>

DtorNotify ==
    /\ dpc = "notify"
    /\ wpc' = [w \in Workers |-> IF wpc[w] = "asleep" THEN "test" ELSE wpc[w]]
    /\ dpc' = "join"
    /\ UNCHANGED <<tasks, active_workers, stop, wtask, callVars>>

DtorJoin ==
    /\ dpc = "join"
    /\ \A w \in Workers : wpc[w] = "exited"
    /\ dpc' = "destroyed"
    /\ UNCHANGED <<poolVars, callVars>>

(* The process is gone: the only state in which nothing more happens.      *)
Terminated ==
    /\ dpc = "destroyed"
    /\ UNCHANGED vars

-----------------------------------------------------------------------------

CallerStep(c) == Enqueue(c) \/ NotifyOne(c) \/ WaitAll(c) \/ Aggregate(c)

WorkerStep(w) ==
    WorkerSleep(w) \/ WorkerExit(w) \/ WorkerTake(w) \/ WorkerRun(w) \/ WorkerFinish(w)

Next ==
    \/ \E c \in Callers :
         RunBegin(c) \/ RunEmpty(c) \/ CallerStep(c) \/ SpuriousCaller(c)
    \/ \E w \in Workers : WorkerStep(w) \/ SpuriousWorker(w)
    \/ DtorStop
    \/ DtorNotify
    \/ DtorJoin
    \/ Terminated

Spec == Init /\ [][Next]_vars

(* The scheduler runs every thread that is not blocked; nobody has to call *)
(* run, to wake spuriously, or to exit the process.                        *)
Fairness ==
    /\ \A c \in Callers : WF_vars(CallerStep(c))
    /\ \A w \in Workers : WF_vars(WorkerStep(w))
    /\ WF_vars(DtorNotify)
    /\ WF_vars(DtorJoin)

FairSpec == Spec /\ Fairness

-----------------------------------------------------------------------------
(* Properties                                                              *)

InRun(c) == cpc[c] \in {"split", "notify", "wait", "asleep"}

Slots(c) == 0 .. (job[c].k - 1)

WorkerTask == [caller : Callers, slot : Nat, start : Nat, end : Nat]

(* Type invariant of the pool, of its callers and of its destructor.       *)
TypeOK ==
    /\ tasks \in Seq(WorkerTask)
    /\ active_workers \in Int
    /\ stop \in BOOLEAN
    /\ wpc \in [Workers -> {"test", "asleep", "run", "done", "exited"}]
    /\ wtask \in [Workers -> WorkerTask \cup {NoTask}]
    /\ cpc \in [Callers -> {"idle", "split", "notify", "wait", "asleep", "sum"}]
    /\ job \in [Callers -> [n : Nat, k : Nat \ {0}, f : Nat]]
    /\ next \in [Callers -> Nat]
    /\ runs \in [Callers -> Nat]
    /\ dpc \in {"live", "notify", "join", "destroyed"}
    /\ results = [c \in Callers |-> results[c]]
    /\ answer = [c \in Callers |-> answer[c]]
    /\ \A c \in Callers : cpc[c] # "idle" => results[c] \in [Slots(c) -> SUBSET Nat]

(* The tasks that some worker will still dereference: queued, or popped    *)
(* and inside worker_thread.                                               *)
Queued == {tasks[i] : i \in DOMAIN tasks}
Running == {w \in Workers : wpc[w] = "run"}
Busy == {w \in Workers : wpc[w] \in {"run", "done"}}

(* No worker ever dereferences the config or the result slot of a run that *)
(* has returned: a task that is queued or running belongs to a caller that *)
(* is still inside run and has not yet begun to read its results, although *)
(* wait_all waits for the pool as a whole and not for the caller's tasks.  *)
NoDanglingTask ==
    /\ \A task \in Queued : InRun(task.caller)
    /\ \A w \in Running : InRun(wtask[w].caller)

(* active_workers_ counts the workers between their two critical sections, *)
(* so that wait_all's test sees every task that was popped and not yet     *)
(* finished, whatever the interleaving of the workers.                     *)
ActiveIsBusy == active_workers = Cardinality(Busy)

(* No lost wakeup: while a task is queued some worker is awake, or the     *)
(* caller that queued it is about to call notify_one; and no caller sleeps *)
(* in wait_all while the pool is idle.                                     *)
NoLostWakeup ==
    /\ tasks # <<>> =>
         \/ \E w \in Workers : wpc[w] \in {"test", "run", "done"}
         \/ \E c \in Callers : cpc[c] = "notify"
    /\ AllIdle => \A c \in Callers : cpc[c] # "asleep"

(* Each row once, or no row when the expression refers to no field.        *)
Count(j) == [r \in 0 .. (j.n - 1) |-> IF j.f = 0 THEN 0 ELSE 1]

(* run returns the count of its own rows, each row counted exactly once,   *)
(* with any number of threads asked for and any other callers in the pool; *)
(* for an expression without fields it returns 0.                          *)
ExactCount ==
    \A c \in Callers : cpc[c] = "idle" /\ runs[c] > 0 => answer[c] = Count(job[c])

(* Even when worker_thread cannot allocate its scratchpad, a row is never  *)
(* counted twice and never credited to another run's answer.               *)
NeverOvercounts ==
    \A c \in Callers :
      cpc[c] = "idle" /\ runs[c] > 0 =>
        /\ DOMAIN answer[c] = 0 .. (job[c].n - 1)
        /\ \A r \in DOMAIN answer[c] : answer[c][r] <= 1

(* Every call of run returns, as long as each caller calls it finitely     *)
(* often: wait_all needs a moment at which the whole pool is idle.         *)
EveryRunReturns == \A c \in Callers : InRun(c) ~> cpc[c] = "idle"

(* ~ThreadPool joins every worker: no worker misses stop_.                 *)
DestructorReturns == dpc = "notify" ~> dpc = "destroyed"

(* ParallelRunner::run implements CountService: the concurrent callers     *)
(* cannot tell the shared pool from a private, exact count of their rows.  *)
Abstract ==
    INSTANCE CountService WITH
      busy <- {c \in Callers : cpc[c] # "idle"},
      query <- [c \in Callers |-> [n |-> job[c].n, f |-> job[c].f]],
      reply <- answer

ImplementsCountService == Abstract!Spec

-----------------------------------------------------------------------------
(* The inductive invariant behind the safety properties.                   *)

(* A task's pointers and range are those its caller's current run gave it. *)
Valid(task) ==
    /\ task \in WorkerTask
    /\ InRun(task.caller)
    /\ task.slot < next[task.caller]
    /\ task = TaskOf(task.caller, task.slot)

Outstanding(c, t) ==
    \/ \E i \in DOMAIN tasks : tasks[i].caller = c /\ tasks[i].slot = t
    \/ \E w \in Running : wtask[w].caller = c /\ wtask[w].slot = t

(* Where the split loop is, and what it has handed out so far.             *)
SplitInv(c) ==
    /\ job[c].n > 0
    /\ next[c] <= job[c].k
    /\ \A t \in 0 .. (next[c] - 1) : MoreChunks(job[c].n, job[c].k, t)
    /\ cpc[c] = "split" => MoreChunks(job[c].n, job[c].k, next[c])
    /\ cpc[c] \in {"wait", "asleep", "sum"} => ~MoreChunks(job[c].n, job[c].k, next[c])

(* Every slot handed out is either still outstanding or has its count.     *)
SlotInv(c) ==
    \A t \in 0 .. (next[c] - 1) :
      Outstanding(c, t) \/ results[c][t] \in CountedRows(TaskOf(c, t))

QueueInv == \A i \in DOMAIN tasks : Valid(tasks[i])

RunningInv == \A w \in Running : Valid(wtask[w])

CallInv == \A c \in Callers : cpc[c] # "idle" => SplitInv(c) /\ SlotInv(c)

(* The destructor runs, and workers leave, only when nobody is inside run. *)
DtorInv ==
    /\ stop <=> dpc # "live"
    /\ stop => \A c \in Callers : cpc[c] = "idle"
    /\ \A w \in Workers : wpc[w] = "exited" => stop

(* Between two critical sections of the pool: the tasks in flight belong   *)
(* to live runs, every slot is accounted for, the worker count is exact,   *)
(* and the destructor runs only when no caller is inside run.              *)
IInv ==
    /\ TypeOK
    /\ ActiveIsBusy
    /\ QueueInv
    /\ RunningInv
    /\ CallInv
    /\ NoLostWakeup
    /\ DtorInv

=============================================================================
