-------------------------- MODULE ThreadPoolProofs --------------------------
(***************************************************************************)
(* The split of ParallelRunner::run is a partition, and ThreadPool is safe *)
(* for any number of workers and callers, any row and thread counts and    *)
(* any block size.  The proofs about the pool go through IInv.             *)
(***************************************************************************)
EXTENDS ThreadPool, TLAPS

-----------------------------------------------------------------------------
(* A thread's share of the rows                                            *)

(* A thread's share is at least one row, so the split loop advances.       *)
LEMMA ShareIsPositive ==
  ASSUME NEW n \in Nat, NEW k \in Nat \ {0}
  PROVE  RowsPerThread(n, k) \in Nat \ {0}
<1> DEFINE q == (n \div k) \div BlockRows
<1>1. n \div k \in Nat
  OBVIOUS
<1>2. q \in Nat
  BY <1>1, BlockAssumption
<1>3. q * BlockRows \in Nat
  BY <1>2, BlockAssumption
<1>4. QED
  BY <1>3, BlockAssumption DEF RowsPerThread

(* The quotient and remainder of a row by a thread's share.                *)
LEMMA QuotientBounds ==
  ASSUME NEW r \in Nat, NEW p \in Nat \ {0}
  PROVE  /\ r \div p \in Nat
         /\ (r \div p) * p <= r
         /\ r < (r \div p) * p + p
  OBVIOUS

(* A chunk ends where the next one starts, or at the end of the data.      *)
LEMMA ChunkBounds ==
  ASSUME NEW n \in Nat, NEW k \in Nat \ {0}, NEW t \in Nat
  PROVE  /\ ChunkStart(n, k, t) \in Nat
         /\ ChunkEnd(n, k, t) \in Nat
         /\ ChunkEnd(n, k, t) <= n
         /\ t < k - 1 => ChunkEnd(n, k, t) <= ChunkStart(n, k, t + 1)
<1> DEFINE p == RowsPerThread(n, k)
<1>1. p \in Nat \ {0}
  BY ShareIsPositive
<1>2. t * p \in Nat /\ (t + 1) * p = t * p + p
  BY <1>1
<1> HIDE DEF p
<1>3. ChunkStart(n, k, t) = t * p /\ ChunkStart(n, k, t + 1) = (t + 1) * p
  BY DEF ChunkStart, p
<1>4. QED
  BY <1>1, <1>2, <1>3 DEF ChunkEnd, p

(* Blocks of a worker's loop: the rows visited are exactly the rows of its *)
(* range, the short last block and its masked padding included.            *)
LEMMA VisitedIsRange ==
  ASSUME NEW s \in Nat, NEW e \in Nat
  PROVE  RowsVisited(s, e) = s .. (e - 1)
<1>1. ASSUME NEW r \in RowsVisited(s, e)
      PROVE  r \in s .. (e - 1)
  <2>1. PICK b \in BlockBases(s, e) : r \in b .. (b + RowsInChunk(b, e) - 1)
    BY DEF RowsVisited
  <2>2. b \in s .. (e - 1)
    BY DEF BlockBases
  <2>3. QED
    BY <2>1, <2>2, BlockAssumption DEF RowsInChunk
<1>2. ASSUME NEW r \in s .. (e - 1)
      PROVE  r \in RowsVisited(s, e)
  <2> DEFINE q == (r - s) \div BlockRows
             b == s + q * BlockRows
  <2>1. q \in Nat /\ q * BlockRows <= r - s /\ r - s < q * BlockRows + BlockRows
    BY QuotientBounds, BlockAssumption
  <2> HIDE DEF q
  <2>2. q * BlockRows \in Nat
    BY <2>1, BlockAssumption
  <2>3. b \in s .. (e - 1) /\ b - s = q * BlockRows
    BY <2>1, <2>2
  <2>4. (q * BlockRows) % BlockRows = 0
    BY <2>1, BlockAssumption
  <2>5. b \in BlockBases(s, e)
    BY <2>3, <2>4 DEF BlockBases
  <2>6. r \in b .. (b + RowsInChunk(b, e) - 1)
    BY <2>1, <2>2, <2>3, BlockAssumption DEF RowsInChunk
  <2> HIDE DEF b
  <2>7. QED
    BY <2>5, <2>6 DEF RowsVisited
<1>3. QED
  BY ZenonT(30), <1>1, <1>2
-----------------------------------------------------------------------------
(* Every step of the pool preserves IInv                                   *)

(* What the proofs use of cardinalities: of sets of workers, and of the    *)
(* slots that count a row.  CountingHolds shows it.                        *)
Counting ==
  /\ Cardinality({}) = 0
  /\ \A x : Cardinality({x}) = 1
  /\ \A S \in SUBSET Workers :
       /\ Cardinality(S) \in Nat
       /\ Cardinality(S) = 0 <=> S = {}
       /\ \A w \in Workers \ S : Cardinality(S \cup {w}) = Cardinality(S) + 1
       /\ \A w \in S : Cardinality(S \ {w}) = Cardinality(S) - 1

(* The workers inside a task are workers.                                  *)
LEMMA BusyWorkers == Busy \in SUBSET Workers
  BY DEF Busy

(* IInv holds in the initial state: an idle pool without callers.          *)
LEMMA InitInv ==
  ASSUME Counting
  PROVE  Init => IInv
<1> SUFFICES ASSUME Init PROVE IInv
  OBVIOUS
<1> USE DEF Init
<1>1. TypeOK
  <2>1. tasks \in Seq(WorkerTask)
    OBVIOUS
  <2>2. job \in [Callers -> [n : Nat, k : Nat \ {0}, f : Nat]]
    BY DEF NoJob
  <2>3. /\ wpc \in [Workers -> {"test", "asleep", "run", "done", "exited"}]
        /\ wtask \in [Workers -> WorkerTask \cup {NoTask}]
        /\ cpc \in [Callers -> {"idle", "split", "notify", "wait", "asleep", "sum"}]
        /\ next \in [Callers -> Nat]
        /\ runs \in [Callers -> Nat]
    OBVIOUS
  <2>4. \A c \in Callers : cpc[c] = "idle"
    OBVIOUS
  <2>5. active_workers \in Int /\ dpc \in {"live", "notify", "join", "destroyed"}
    OBVIOUS
  <2>6. stop \in BOOLEAN
    BY ZenonT(30)
  <2>7. results = [c \in Callers |-> results[c]] /\ answer = [c \in Callers |-> answer[c]]
    OBVIOUS
  <2> HIDE DEF Init
  <2>8. QED
    BY <2>1, <2>2, <2>3, <2>4, <2>5, <2>6, <2>7 DEF TypeOK
<1>2. ActiveIsBusy
  <2>1. Busy = {}
    BY DEF Busy
  <2>2. QED
    BY <2>1 DEF ActiveIsBusy, Counting
<1>3. QueueInv /\ RunningInv
  BY DEF QueueInv, RunningInv, Running
<1>4. CallInv /\ DtorInv
  BY DEF CallInv, DtorInv
<1>5. NoLostWakeup
  BY DEF NoLostWakeup
<1>6. QED
  BY <1>1, <1>2, <1>3, <1>4, <1>5 DEF IInv

(* Workers that do not enter or leave a task leave the count unchanged.    *)
LEMMA SameBusy ==
  ASSUME ActiveIsBusy, active_workers' = active_workers, Busy' = Busy
  PROVE  ActiveIsBusy'
  BY DEF ActiveIsBusy

(* When wait_all finds the pool idle, no task of any run is outstanding.   *)
LEMMA IdleMeansDone ==
  ASSUME Counting, IInv, AllIdle
  PROVE  Queued = {} /\ Running = {} /\ DOMAIN tasks = {}
<1>1. tasks = <<>>
  BY DEF AllIdle
<1>2. DOMAIN tasks = {}
  BY <1>1
<1>3. Busy = {}
  BY ZenonT(30), BusyWorkers DEF Counting, IInv, ActiveIsBusy, AllIdle
<1>4. QED
  BY <1>2, <1>3 DEF Queued, Running, Busy

(* Steps that leave the tasks in flight and the runs alone keep what IInv  *)
(* says of them.                                                           *)
LEMMA FlightFrame ==
  ASSUME QueueInv, RunningInv, CallInv,
         UNCHANGED <<tasks, wtask, cpc, job, next, results>>,
         Running' = Running
  PROVE  QueueInv' /\ RunningInv' /\ CallInv'
<1>1. QueueInv' /\ RunningInv'
  BY SMTT(60) DEF QueueInv, RunningInv, Valid, InRun, TaskOf
<1>2. CallInv'
  BY DEF CallInv, SplitInv, SlotInv, Outstanding, CountedRows, TaskOf
<1>3. QED
  BY SMTT(60), <1>1, <1>2

(* A worker that blocks, wakes or exits (WorkerSleep, WorkerExit and       *)
(* SpuriousWorker) preserves IInv.                                         *)
LEMMA WorkerIdleInv ==
  ASSUME IInv, NEW w \in Workers,
         WorkerSleep(w) \/ WorkerExit(w) \/ SpuriousWorker(w)
  PROVE  IInv'
<1> USE DEF WorkerSleep, WorkerExit, SpuriousWorker, callVars
<1>1. UNCHANGED <<tasks, active_workers, stop, wtask, cpc, job, next, results, answer, runs, dpc>>
  OBVIOUS
<1>2. \E v \in {"test", "asleep", "exited"} : wpc' = [wpc EXCEPT ![w] = v]
  OBVIOUS
<1>3. TypeOK /\ wpc[w] \in {"test", "asleep"}
  BY DEF IInv
<1>4. Running' = Running /\ Busy' = Busy
  BY <1>2, <1>3 DEF Running, Busy, TypeOK
<1>5. TypeOK'
  BY <1>1, <1>2, <1>3 DEF TypeOK, Slots
<1>6. ActiveIsBusy'
  BY <1>1, <1>4, SameBusy DEF IInv
<1>7. QueueInv' /\ RunningInv' /\ CallInv'
  BY <1>1, <1>4, FlightFrame DEF IInv
<1>8. NoLostWakeup'
  BY <1>3, PoolAssumption DEF IInv, NoLostWakeup, TypeOK, AllIdle
<1>9. DtorInv'
  BY <1>3 DEF IInv, DtorInv, TypeOK
<1>10. QED
  BY <1>5, <1>6, <1>7, <1>8, <1>9 DEF IInv

(* A worker that pops a task preserves IInv: the task moves from the queue *)
(* to the worker, and the worker is counted as active.                     *)
LEMMA WorkerTakeInv ==
  ASSUME Counting, IInv, NEW w \in Workers, WorkerTake(w)
  PROVE  IInv'
<1> USE DEF WorkerTake, callVars
<1>1. UNCHANGED <<stop, cpc, job, next, results, answer, runs, dpc>>
  OBVIOUS
<1>2. TypeOK /\ wpc[w] = "test" /\ tasks # <<>>
  BY DEF IInv
<1>3. /\ Head(tasks) = tasks[1] /\ tasks[1] \in WorkerTask /\ 1 \in DOMAIN tasks
      /\ Tail(tasks) \in Seq(WorkerTask)
      /\ \A i \in DOMAIN Tail(tasks) : i + 1 \in DOMAIN tasks /\ Tail(tasks)[i] = tasks[i + 1]
      /\ \A i \in DOMAIN tasks : i # 1 => i - 1 \in DOMAIN Tail(tasks) /\ Tail(tasks)[i - 1] = tasks[i]
  BY <1>2, SMTT(60) DEF TypeOK
<1>4. TypeOK'
  BY <1>1, <1>2, <1>3, SMTT(30) DEF TypeOK, Slots
<1>5. Running' = Running \cup {w} /\ Busy' = Busy \cup {w} /\ w \notin Busy /\ w \notin Running
  BY <1>2 DEF Running, Busy, TypeOK
<1>6. ActiveIsBusy'
  <2>1. Cardinality(Busy') = Cardinality(Busy) + 1
    BY ZenonT(60), <1>5, BusyWorkers DEF Counting
  <2>2. QED
    BY <2>1 DEF ActiveIsBusy, IInv
<1>7. QueueInv'
  BY <1>1, <1>3 DEF IInv, QueueInv, Valid, InRun, TaskOf
<1>8. RunningInv'
  <2>1. wtask'[w] = tasks[1] /\ Valid(tasks[1]) /\ \A v \in Running : wtask'[v] = wtask[v]
    BY <1>2, <1>3, <1>5 DEF IInv, QueueInv, TypeOK, Running
  <2>2. SUFFICES ASSUME NEW v \in Running'
                 PROVE  Valid(wtask[v])'
    BY SMTT(60) DEF RunningInv
  <2>3. CASE v = w
    BY SMTT(60), <2>1, <2>3, <1>1 DEF Valid, InRun, TaskOf
  <2>4. CASE v # w
    BY SMTT(60), <2>1, <2>4, <1>1, <1>5 DEF IInv, RunningInv, Valid, InRun, TaskOf
  <2>5. QED
    BY SMTT(60), <2>3, <2>4
<1>9. CallInv'
  <2>1. ASSUME NEW c \in Callers, NEW t \in Nat, Outstanding(c, t)
        PROVE  Outstanding(c, t)'
    <3>1. CASE \E v \in Running : wtask[v].caller = c /\ wtask[v].slot = t
      BY SMTT(60), <3>1, <1>2, <1>5 DEF Outstanding, TypeOK, Running
    <3>2. CASE tasks[1].caller = c /\ tasks[1].slot = t
      <4>1. wtask'[w] = tasks[1]
        BY <1>2, <1>3 DEF TypeOK
      <4>2. QED
        BY <3>2, <4>1, <1>5 DEF Outstanding
    <3>3. CASE \E i \in DOMAIN tasks : i # 1 /\ tasks[i].caller = c /\ tasks[i].slot = t
      BY ZenonT(60), <3>3, <1>3 DEF Outstanding
    <3>4. QED
      BY <2>1, <3>1, <3>2, <3>3 DEF Outstanding
  <2>2. QED
    BY <1>1, <1>2, <2>1, SMTT(60) DEF IInv, CallInv, SplitInv, SlotInv, CountedRows, TaskOf, TypeOK
<1>10. NoLostWakeup'
  <2>1. active_workers' # 0
    <3>1. active_workers \in Nat
      BY ZenonT(30), BusyWorkers DEF Counting, IInv, ActiveIsBusy
    <3>2. QED
      BY <3>1
  <2>2. wpc'[w] = "run"
    BY <1>2 DEF TypeOK
  <2>3. QED
    BY <2>1, <2>2 DEF NoLostWakeup, AllIdle
<1>11. DtorInv'
  BY <1>2 DEF IInv, DtorInv, TypeOK
<1>12. QED
  BY <1>4, <1>6, <1>7, <1>8, <1>9, <1>10, <1>11 DEF IInv

(* A worker inside worker_thread preserves IInv: it writes the count of    *)
(* its own range into a slot its caller's run owns, and the task is no     *)
(* longer outstanding.                                                     *)
LEMMA WorkerRunInv ==
  ASSUME IInv, NEW w \in Workers, WorkerRun(w)
  PROVE  IInv'
<1> DEFINE c == wtask[w].caller
           t == wtask[w].slot
<1>1. /\ UNCHANGED <<tasks, active_workers, stop, wtask, cpc, job, next, answer, runs, dpc>>
      /\ wpc[w] = "run" /\ wpc' = [wpc EXCEPT ![w] = "done"]
      /\ TypeOK
  BY DEF WorkerRun, IInv
<1>2. PICK rows \in CountedRows(wtask[w]) : results' = [results EXCEPT ![c][t] = rows]
  BY ZenonT(30) DEF WorkerRun
<1>3. w \in Running /\ Running' = Running \ {w} /\ Busy' = Busy
  BY <1>1 DEF Running, Busy, TypeOK
<1>4. /\ wtask[w] \in WorkerTask /\ c \in Callers /\ t \in Nat
      /\ InRun(c) /\ t < next[c] /\ wtask[w] = TaskOf(c, t)
  BY SMTT(60), <1>3 DEF IInv, RunningInv, Valid, WorkerTask
<1>5. /\ next[c] \in Nat /\ next[c] <= job[c].k /\ job[c].k \in Nat /\ t \in Slots(c)
      /\ results[c] \in [Slots(c) -> SUBSET Nat]
  BY <1>1, <1>4, SMTT(60) DEF IInv, CallInv, SplitInv, InRun, TypeOK, Slots
<1>6. rows \in SUBSET Nat
  <2>1. wtask[w].start \in Nat /\ wtask[w].end \in Nat
    BY <1>4 DEF WorkerTask
  <2>2. RowsVisited(wtask[w].start, wtask[w].end) \subseteq Nat
    BY <2>1, VisitedIsRange, SMTT(60)
  <2>3. QED
    BY <1>2, <2>2 DEF CountedRows
<1>7. /\ results' = [d \in Callers |-> results'[d]]
      /\ \A d \in Callers : d # c => results'[d] = results[d]
      /\ results'[c] = [results[c] EXCEPT ![t] = rows]
  BY ZenonT(30), <1>1, <1>2, <1>4 DEF TypeOK
<1> HIDE DEF c, t
<1>8. TypeOK'
  <2>1. \A d \in Callers : cpc'[d] # "idle" => results'[d] \in [Slots(d)' -> SUBSET Nat]
    <3>1. results'[c] \in [Slots(c) -> SUBSET Nat]
      BY <1>5, <1>6, <1>7
    <3>2. \A d \in Callers : Slots(d)' = Slots(d)
      BY <1>1 DEF Slots
    <3>3. QED
      BY ZenonT(30), <1>1, <1>7, <3>1, <3>2 DEF TypeOK
  <2>2. QED
    BY <1>1, <1>7, <2>1 DEF TypeOK
<1>9. ActiveIsBusy'
  BY SMTT(60), <1>1, <1>3, SameBusy DEF IInv
<1>10. QueueInv' /\ RunningInv'
  BY SMTT(60), <1>1, <1>3 DEF IInv, QueueInv, RunningInv, Valid, InRun, TaskOf
<1>11. CallInv'
  <2>1. SUFFICES ASSUME NEW d \in Callers, cpc'[d] # "idle"
                 PROVE  SplitInv(d)' /\ SlotInv(d)'
    BY DEF CallInv
  <2>2. SplitInv(d) /\ SlotInv(d)
    BY SMTT(60), <1>1, <2>1 DEF IInv, CallInv
  <2>3. SplitInv(d)'
    BY SMTT(60), <1>1, <2>2 DEF SplitInv
  <2>4. SUFFICES ASSUME NEW u \in 0 .. (next[d] - 1)
                 PROVE  Outstanding(d, u)' \/ results'[d][u] \in CountedRows(TaskOf(d, u))
    BY <1>1, <2>3 DEF SlotInv, CountedRows, TaskOf
  <2>5. CASE d = c /\ u = t
    BY <2>5, <1>2, <1>4, <1>5, <1>7
  <2>6. CASE ~(d = c /\ u = t)
    <3>1. results'[d][u] = results[d][u]
      <4>1. CASE d = c
        <5>1. u \in Slots(c) /\ u # t
          BY <4>1, <2>6, <1>5, SMTT(60) DEF Slots
        <5>2. QED
          BY <4>1, <5>1, <1>5, <1>7
      <4>2. QED
        BY <4>1, <1>7
    <3>2. Outstanding(d, u) => Outstanding(d, u)'
      BY SMTT(60), <2>6, <1>1, <1>3 DEF Outstanding, c, t
    <3>3. QED
      BY <3>1, <3>2, <2>2 DEF SlotInv
  <2>7. QED
    BY <2>5, <2>6
<1>12. NoLostWakeup'
  BY SMTT(60), <1>1 DEF IInv, NoLostWakeup, AllIdle, TypeOK
<1>13. DtorInv'
  BY <1>1 DEF IInv, DtorInv, TypeOK
<1>14. QED
  BY <1>8, <1>9, <1>10, <1>11, <1>12, <1>13 DEF IInv

(* A worker that leaves its task preserves IInv: it is no longer counted   *)
(* as active, and the one that leaves the pool idle wakes every caller.    *)
LEMMA WorkerFinishInv ==
  ASSUME Counting, IInv, NEW w \in Workers, WorkerFinish(w)
  PROVE  IInv'
<1>1. /\ UNCHANGED <<tasks, stop, job, next, results, answer, runs, dpc>>
      /\ wpc[w] = "done" /\ wpc' = [wpc EXCEPT ![w] = "test"]
      /\ wtask' = [wtask EXCEPT ![w] = NoTask]
      /\ active_workers' = active_workers - 1
      /\ TypeOK
  BY DEF WorkerFinish, IInv
<1>2. /\ cpc' \in [Callers -> {"idle", "split", "notify", "wait", "asleep", "sum"}]
      /\ \A c \in Callers : \/ cpc'[c] = cpc[c] /\ (AllIdle' => cpc[c] # "asleep")
                            \/ cpc[c] = "asleep" /\ cpc'[c] = "wait"
  BY <1>1 DEF WorkerFinish, TypeOK, AllIdle
<1>3. /\ Running' = Running /\ Busy' = Busy \ {w} /\ w \in Busy /\ w \notin Running
      /\ \A v \in Running : wtask'[v] = wtask[v]
  BY <1>1 DEF Running, Busy, TypeOK
<1>4. TypeOK'
  BY <1>1, <1>2, SMTT(30) DEF TypeOK, Slots
<1>5. ActiveIsBusy'
  <2>1. Cardinality(Busy') = Cardinality(Busy) - 1
    BY ZenonT(60), <1>3, BusyWorkers DEF Counting
  <2>2. QED
    BY <2>1, <1>1 DEF ActiveIsBusy, IInv
<1>6. \A c \in Callers : InRun(c) => InRun(c)'
  BY <1>2 DEF InRun
<1>7. QueueInv' /\ RunningInv'
  BY <1>1, <1>3, <1>6 DEF IInv, QueueInv, RunningInv, Valid, TaskOf, WorkerTask
<1>8. CallInv'
  <2>1. \A c \in Callers, t \in Nat : Outstanding(c, t) => Outstanding(c, t)'
    BY <1>1, <1>3 DEF Outstanding
  <2>2. SUFFICES ASSUME NEW c \in Callers, cpc'[c] # "idle"
                 PROVE  SplitInv(c)' /\ SlotInv(c)'
    BY DEF CallInv
  <2>3. SplitInv(c) /\ SlotInv(c)
    BY SMTT(60), <1>2, <2>2 DEF IInv, CallInv
  <2>4. SplitInv(c)'
    BY SMTT(60), <1>1, <1>2, <2>3 DEF SplitInv
  <2>5. SlotInv(c)'
    BY <1>1, <2>1, <2>3 DEF SlotInv, CountedRows, TaskOf, TypeOK
  <2>6. QED
    BY <2>4, <2>5
<1>9. NoLostWakeup'
  <2>1. wpc'[w] = "test"
    BY <1>1 DEF TypeOK
  <2>2. QED
    BY <1>2, <2>1 DEF NoLostWakeup
<1>10. DtorInv'
  BY SMTT(60), <1>1, <1>2 DEF IInv, DtorInv, TypeOK
<1>11. QED
  BY SMTT(60), <1>4, <1>5, <1>7, <1>8, <1>9, <1>10 DEF IInv

(* A caller that is outside run, or past wait_all, can change what belongs *)
(* to its run, job and slots included: no task in flight refers to it.     *)
LEMMA OtherRunsFrame ==
  ASSUME IInv, NEW c \in Callers, ~InRun(c),
         UNCHANGED <<tasks, wtask, wpc>>,
         \A d \in Callers : d # c => /\ cpc'[d] = cpc[d] /\ job'[d] = job[d]
                                    /\ next'[d] = next[d] /\ results'[d] = results[d]
  PROVE  /\ QueueInv' /\ RunningInv'
         /\ \A d \in Callers : d # c /\ cpc'[d] # "idle" => SplitInv(d)' /\ SlotInv(d)'
<1>1. /\ \A i \in DOMAIN tasks : Valid(tasks[i]) /\ tasks[i].caller # c
      /\ \A w \in Running : Valid(wtask[w]) /\ wtask[w].caller # c
  BY DEF IInv, QueueInv, RunningInv, Valid, InRun
<1>2. Running' = Running
  BY SMTT(60) DEF Running
<1>3. QueueInv'
  BY <1>1 DEF QueueInv, Valid, InRun, TaskOf, WorkerTask
<1>4. RunningInv'
  <2>1. SUFFICES ASSUME NEW w \in Running
                 PROVE  Valid(wtask[w])'
    BY <1>2 DEF RunningInv
  <2>2. wtask'[w] = wtask[w] /\ wtask[w].caller \in Callers
    BY <1>1 DEF Valid, WorkerTask
  <2>3. QED
    BY ZenonT(60), <1>1, <2>2 DEF Valid, InRun, TaskOf
<1>5. ASSUME NEW d \in Callers, d # c, cpc'[d] # "idle"
      PROVE  SplitInv(d)' /\ SlotInv(d)'
  <2>1. SplitInv(d) /\ SlotInv(d)
    BY SMTT(60), <1>5 DEF IInv, CallInv
  <2>2. SplitInv(d)'
    BY SMTT(60), <2>1, <1>5 DEF SplitInv
  <2>3. SlotInv(d)'
    BY <2>1, <1>2, <1>5 DEF SlotInv, Outstanding, CountedRows, TaskOf
  <2>4. QED
    BY <2>2, <2>3
<1>6. QED
  BY SMTT(60), <1>3, <1>4, <1>5

(* The start of a run preserves IInv: a fresh results vector, nothing of   *)
(* it handed out yet.                                                      *)
LEMMA RunBeginInv ==
  ASSUME IInv, NEW c \in Callers, RunBegin(c)
  PROVE  IInv'
<1>1. /\ UNCHANGED <<poolVars, answer, runs, dpc>>
      /\ UNCHANGED <<tasks, active_workers, stop, wpc, wtask>>
      /\ cpc[c] = "idle" /\ dpc = "live"
      /\ next' = [next EXCEPT ![c] = 0] /\ cpc' = [cpc EXCEPT ![c] = "split"]
      /\ TypeOK
  BY DEF RunBegin, IInv, poolVars
<1>2. PICK n \in RowCounts \ {0}, k0 \in ThreadCounts, f \in FieldCounts :
        /\ job' = [job EXCEPT ![c] = [n |-> n, k |-> NumThreads(k0), f |-> f]]
        /\ results' = [results EXCEPT ![c] = [t \in 0 .. (NumThreads(k0) - 1) |-> {}]]
  BY ZenonT(30) DEF RunBegin
<1> DEFINE k == NumThreads(k0)
<1>3. n \in Nat \ {0} /\ k \in Nat \ {0} /\ f \in Nat
  BY PoolAssumption DEF NumThreads
<1> HIDE DEF k
<1>4. /\ job' = [job EXCEPT ![c] = [n |-> n, k |-> k, f |-> f]]
      /\ results' = [results EXCEPT ![c] = [t \in 0 .. (k - 1) |-> {}]]
  BY <1>2 DEF k
<1>5. /\ job'[c].n = n /\ job'[c].k = k /\ next'[c] = 0 /\ cpc'[c] = "split"
      /\ results'[c] = [t \in 0 .. (k - 1) |-> {}]
      /\ \A d \in Callers : d # c => /\ cpc'[d] = cpc[d] /\ job'[d] = job[d]
                                   /\ next'[d] = next[d] /\ results'[d] = results[d]
  BY SMTT(60), <1>1, <1>4 DEF TypeOK
<1>6. TypeOK'
  <2>1. /\ cpc' \in [Callers -> {"idle", "split", "notify", "wait", "asleep", "sum"}]
        /\ job' \in [Callers -> [n : Nat, k : Nat \ {0}, f : Nat]]
        /\ next' \in [Callers -> Nat]
        /\ results' = [d \in Callers |-> results'[d]]
    BY ZenonT(60), <1>1, <1>3, <1>4 DEF TypeOK
  <2>2. results'[c] \in [Slots(c)' -> SUBSET Nat]
    BY <1>5 DEF Slots
  <2>3. ASSUME NEW d \in Callers, d # c, cpc'[d] # "idle"
        PROVE  results'[d] \in [Slots(d)' -> SUBSET Nat]
    <3>1. cpc[d] # "idle" /\ results'[d] = results[d] /\ Slots(d)' = Slots(d)
      BY ZenonT(60), <1>5, <2>3 DEF Slots
    <3>2. QED
      BY ZenonT(60), <1>1, <3>1 DEF TypeOK
  <2>4. QED
    BY <1>1, <2>1, <2>2, <2>3 DEF TypeOK
<1>7. ActiveIsBusy'
  BY <1>1 DEF IInv, ActiveIsBusy, Busy
<1>8. /\ QueueInv' /\ RunningInv'
      /\ \A d \in Callers : d # c /\ cpc'[d] # "idle" => SplitInv(d)' /\ SlotInv(d)'
  BY ZenonT(60), <1>1, <1>5, OtherRunsFrame DEF InRun
<1>9. CallInv'
  <2>1. MoreChunks(n, k, 0)
    BY <1>3, ShareIsPositive, SMTT(60) DEF MoreChunks, ChunkStart
  <2>2. SplitInv(c)' /\ SlotInv(c)'
    BY <1>3, <1>5, <2>1, SMTT(60) DEF SplitInv, SlotInv
  <2>3. QED
    BY <1>8, <2>2 DEF CallInv
<1>10. NoLostWakeup'
  BY <1>1, <1>5 DEF IInv, NoLostWakeup, AllIdle
<1>11. DtorInv'
  BY <1>1 DEF IInv, DtorInv
<1>12. QED
  BY SMTT(60), <1>6, <1>7, <1>8, <1>9, <1>10, <1>11 DEF IInv

(* A run over no rows preserves IInv: it returns before it touches the     *)
(* pool.                                                                   *)
LEMMA RunEmptyInv ==
  ASSUME IInv, NEW c \in Callers, RunEmpty(c)
  PROVE  IInv'
<1>1. /\ UNCHANGED <<tasks, active_workers, stop, wpc, wtask, cpc, next, results, dpc>>
      /\ cpc[c] = "idle" /\ job' = [job EXCEPT ![c] = NoJob]
      /\ answer' = [answer EXCEPT ![c] = [r \in {} |-> 0]]
      /\ runs' = [runs EXCEPT ![c] = @ + 1]
      /\ TypeOK
  BY SMTT(60) DEF RunEmpty, IInv, poolVars
<1>2. \A d \in Callers : d # c => job'[d] = job[d]
  BY SMTT(60), <1>1 DEF TypeOK
<1>3. TypeOK'
  <2>1. /\ job' \in [Callers -> [n : Nat, k : Nat \ {0}, f : Nat]]
        /\ runs' \in [Callers -> Nat]
        /\ answer' = [d \in Callers |-> answer'[d]]
    <3>1. NoJob \in [n : Nat, k : Nat \ {0}, f : Nat]
      BY DEF NoJob
    <3>2. job' \in [Callers -> [n : Nat, k : Nat \ {0}, f : Nat]]
      BY SMTT(60), <1>1, <3>1 DEF TypeOK
    <3>3. runs' \in [Callers -> Nat]
      BY <1>1 DEF TypeOK
    <3>4. \A a : [answer EXCEPT ![c] = a] = [d \in Callers |-> [answer EXCEPT ![c] = a][d]]
      BY ZenonT(60), <1>1 DEF TypeOK
    <3>5. QED
      BY ZenonT(30), <1>1, <3>2, <3>3, <3>4
  <2>2. \A d \in Callers : cpc'[d] # "idle" => results'[d] \in [Slots(d)' -> SUBSET Nat]
    BY SMTT(60), <1>1, <1>2 DEF TypeOK, Slots
  <2>3. QED
    BY <1>1, <2>1, <2>2 DEF TypeOK
<1>4. ActiveIsBusy'
  BY <1>1 DEF IInv, ActiveIsBusy, Busy
<1>5. /\ QueueInv' /\ RunningInv'
      /\ \A d \in Callers : d # c /\ cpc'[d] # "idle" => SplitInv(d)' /\ SlotInv(d)'
  BY ZenonT(60), <1>1, <1>2, OtherRunsFrame DEF InRun
<1>6. CallInv'
  BY SMTT(60), <1>1, <1>5 DEF CallInv
<1>7. NoLostWakeup' /\ DtorInv'
  BY <1>1 DEF IInv, NoLostWakeup, AllIdle, DtorInv
<1>8. QED
  BY SMTT(60), <1>3, <1>4, <1>5, <1>6, <1>7 DEF IInv

(* ThreadPool::enqueue preserves IInv: the new task carries the range and  *)
(* the slot of the split loop's t, which is not yet past the last one.     *)
LEMMA EnqueueInv ==
  ASSUME IInv, NEW c \in Callers, Enqueue(c)
  PROVE  IInv'
<1> DEFINE task == TaskOf(c, next[c])
<1>1. /\ UNCHANGED <<active_workers, stop, wpc, wtask, job, results, answer, runs, dpc>>
      /\ cpc[c] = "split" /\ cpc' = [cpc EXCEPT ![c] = "notify"]
      /\ next' = [next EXCEPT ![c] = @ + 1]
      /\ tasks' = Append(tasks, task)
      /\ TypeOK
  BY SMTT(60) DEF Enqueue, IInv
<1>2. /\ SplitInv(c) /\ SlotInv(c) /\ MoreChunks(job[c].n, job[c].k, next[c])
      /\ next[c] \in Nat /\ job[c].n \in Nat /\ job[c].k \in Nat \ {0}
  BY <1>1 DEF IInv, CallInv, SplitInv, TypeOK
<1>3. task \in WorkerTask /\ task.caller = c /\ task.slot = next[c]
  BY ZenonT(60), <1>2, ChunkBounds DEF TaskOf, WorkerTask
<1>4. /\ next'[c] = next[c] + 1 /\ cpc'[c] = "notify"
      /\ \A d \in Callers : d # c => next'[d] = next[d] /\ cpc'[d] = cpc[d]
      /\ \A d \in Callers : next[d] \in Nat /\ next'[d] \in Nat /\ next[d] <= next'[d]
      /\ \A d \in Callers : \A t : TaskOf(d, t)' = TaskOf(d, t)
  BY <1>1, SMTT(60) DEF TypeOK, TaskOf
<1> HIDE DEF task
<1>5. /\ Len(tasks) \in Nat /\ DOMAIN tasks = 1 .. Len(tasks)
      /\ tasks' \in Seq(WorkerTask)
      /\ DOMAIN tasks' = 1 .. (Len(tasks) + 1)
      /\ \A i \in DOMAIN tasks : tasks'[i] = tasks[i]
      /\ tasks'[Len(tasks) + 1] = task
  BY <1>1, <1>3, SMTT(60) DEF TypeOK
<1>6. Running' = Running /\ Busy' = Busy
  BY <1>1 DEF Running, Busy
<1>7. TypeOK'
  BY ZenonT(30), <1>1, <1>4, <1>5 DEF TypeOK, Slots
<1>8. ActiveIsBusy'
  BY SMTT(60), <1>1, <1>6, SameBusy DEF IInv
<1>9. \A d \in Callers : InRun(d) => InRun(d)'
  BY <1>4 DEF InRun
<1>10. QueueInv'
  <2>1. SUFFICES ASSUME NEW i \in DOMAIN tasks'
                 PROVE  Valid(tasks[i])'
    BY SMTT(60) DEF QueueInv
  <2>2. CASE i = Len(tasks) + 1
    <3>1. InRun(c)'
      BY SMTT(60), <1>4 DEF InRun
    <3>2. QED
      BY <2>2, <3>1, <1>2, <1>3, <1>4, <1>5, SMTT(60) DEF Valid, task
  <2>3. CASE i # Len(tasks) + 1
    <3>1. i \in DOMAIN tasks /\ tasks'[i] = tasks[i] /\ Valid(tasks[i])
      BY <2>1, <2>3, <1>5, SMTT(60) DEF IInv, QueueInv
    <3>2. tasks[i].caller \in Callers /\ tasks[i].slot \in Nat
      BY SMTT(60), <3>1 DEF Valid, WorkerTask
    <3>3. QED
      BY <3>1, <3>2, <1>4, <1>9, SMTT(60) DEF Valid
  <2>4. QED
    BY <2>2, <2>3
<1>11. RunningInv'
  <2>1. SUFFICES ASSUME NEW w \in Running
                 PROVE  Valid(wtask[w])'
    BY SMTT(60), <1>6 DEF RunningInv
  <2>2. wtask'[w] = wtask[w] /\ Valid(wtask[w])
    BY SMTT(60), <1>1 DEF IInv, RunningInv
  <2>3. wtask[w].caller \in Callers /\ wtask[w].slot \in Nat
    BY SMTT(60), <2>2 DEF Valid, WorkerTask
  <2>4. QED
    BY <2>2, <2>3, <1>4, <1>9 DEF Valid
<1>12. CallInv'
  <2>1. SUFFICES ASSUME NEW d \in Callers, cpc'[d] # "idle"
                 PROVE  SplitInv(d)' /\ SlotInv(d)'
    BY SMTT(60) DEF CallInv
  <2>2. SplitInv(d) /\ SlotInv(d) /\ job'[d] = job[d] /\ results'[d] = results[d]
    BY <1>1, <1>4, <2>1 DEF IInv, CallInv
  <2>3. SplitInv(d)'
    <3>1. CASE d = c
      <4>1. /\ next'[d] = next[d] + 1 /\ next[d] \in Nat
            /\ cpc[d] = "split" /\ cpc'[d] = "notify"
        BY SMTT(60), <3>1, <1>1, <1>2, <1>4
      <4>2. MoreChunks(job[d].n, job[d].k, next[d])
        BY SMTT(60), <4>1, <2>2 DEF SplitInv
      <4>3. next'[d] <= job[d].k
        BY <4>1, <4>2, <3>1, <1>2, SMTT(60) DEF MoreChunks
      <4>4. \A t \in 0 .. (next'[d] - 1) : t = next[d] \/ t \in 0 .. (next[d] - 1)
        BY <4>1, SMTT(60)
      <4>5. \A t \in 0 .. (next'[d] - 1) : MoreChunks(job[d].n, job[d].k, t)
        BY <4>2, <4>4, <2>2 DEF SplitInv
      <4>6. QED
        BY SMTT(60), <4>1, <4>3, <4>5, <2>2 DEF SplitInv
    <3>2. CASE d # c
      BY ZenonT(60), <3>2, <1>4, <2>2 DEF SplitInv
    <3>3. QED
      BY SMTT(60), <3>1, <3>2
  <2>4. ASSUME NEW t \in 0 .. (next'[d] - 1)
        PROVE  Outstanding(d, t)' \/ (results[d][t] \in CountedRows(TaskOf(d, t)))'
    <3>1. CASE d = c /\ t = next[c]
      BY <3>1, <1>3, <1>5, SMTT(60) DEF Outstanding
    <3>2. CASE ~(d = c /\ t = next[c])
      <4>1. t \in 0 .. (next[d] - 1)
        BY <3>2, <1>4, SMTT(60)
      <4>2. Outstanding(d, t) => Outstanding(d, t)'
        BY <1>1, <1>5, <1>6, SMTT(60) DEF Outstanding
      <4>3. CountedRows(TaskOf(d, t))' = CountedRows(TaskOf(d, t))
        BY ZenonT(60), <1>1 DEF CountedRows, TaskOf
      <4>4. QED
        BY SMTT(60), <4>1, <4>2, <4>3, <2>2, <1>4 DEF SlotInv
    <3>3. QED
      BY SMTT(60), <3>1, <3>2
  <2>5. QED
    BY <2>3, <2>4 DEF SlotInv
<1>13. NoLostWakeup'
  <2>1. tasks' # <<>>
    BY <1>5, SMTT(60)
  <2>2. QED
    BY <2>1, <1>4 DEF NoLostWakeup, AllIdle
<1>14. DtorInv'
  BY SMTT(60), <1>1, <1>4 DEF IInv, DtorInv
<1>15. QED
  BY SMTT(60), <1>7, <1>8, <1>10, <1>11, <1>12, <1>13, <1>14 DEF IInv

(* A caller that moves on inside run keeps what IInv says of the tasks in  *)
(* flight, provided it stays where its tasks may be written to, or finds   *)
(* no task outstanding.                                                    *)
LEMMA CallerMoves ==
  ASSUME IInv, NEW c \in Callers, InRun(c),
         UNCHANGED <<tasks, wtask, job, next, results>>, Running' = Running,
         \A d \in Callers : d # c => cpc'[d] = cpc[d],
         InRun(c)' \/ (DOMAIN tasks = {} /\ Running = {}),
         SplitInv(c)'
  PROVE  QueueInv' /\ RunningInv' /\ CallInv'
<1>1. QueueInv' /\ RunningInv'
  <2>1. CASE DOMAIN tasks = {} /\ Running = {}
    BY ZenonT(60), <2>1 DEF QueueInv, RunningInv
  <2>2. CASE InRun(c)'
    <3>1. \A d \in Callers : InRun(d) => InRun(d)'
      BY <2>2 DEF InRun
    <3>2. QueueInv'
      BY ZenonT(30), <3>1 DEF IInv, QueueInv, Valid, TaskOf, WorkerTask
    <3>3. RunningInv'
      BY ZenonT(60), <3>1 DEF IInv, RunningInv, Valid, TaskOf, WorkerTask
    <3>4. QED
      BY SMTT(60), <3>2, <3>3
  <2>3. QED
    BY SMTT(60), <2>1, <2>2
<1>2. CallInv'
  <2>1. SUFFICES ASSUME NEW d \in Callers, cpc'[d] # "idle"
                 PROVE  SplitInv(d)' /\ SlotInv(d)'
    BY SMTT(60) DEF CallInv
  <2>2. SplitInv(d) /\ SlotInv(d)
    BY SMTT(60), <2>1 DEF IInv, CallInv, InRun
  <2>3. SplitInv(d)'
    BY <2>2 DEF SplitInv
  <2>4. SlotInv(d)'
    BY ZenonT(60), <2>2 DEF SlotInv, Outstanding, CountedRows, TaskOf
  <2>5. QED
    BY SMTT(60), <2>3, <2>4
<1>3. QED
  BY SMTT(60), <1>1, <1>2

(* notify_one preserves IInv: it wakes a sleeping worker, or there is none *)
(* and, since none can have exited, some worker is awake.                  *)
LEMMA NotifyOneInv ==
  ASSUME IInv, NEW c \in Callers, NotifyOne(c)
  PROVE  IInv'
<1> DEFINE pc == IF MoreChunks(job[c].n, job[c].k, next[c]) THEN "split" ELSE "wait"
<1>1. /\ UNCHANGED <<tasks, active_workers, stop, wtask, job, next, results, answer, runs, dpc>>
      /\ cpc[c] = "notify" /\ cpc' = [cpc EXCEPT ![c] = pc]
      /\ TypeOK
  BY ZenonT(30) DEF NotifyOne, IInv
<1>2. /\ cpc'[c] = pc /\ pc \in {"split", "wait"}
      /\ \A d \in Callers : d # c => cpc'[d] = cpc[d]
      /\ cpc' \in [Callers -> {"idle", "split", "notify", "wait", "asleep", "sum"}]
  BY SMTT(60), <1>1 DEF TypeOK
<1>3. \/ \E w \in Workers : wpc[w] = "asleep" /\ wpc' = [wpc EXCEPT ![w] = "test"]
      \/ (\A w \in Workers : wpc[w] # "asleep") /\ wpc' = wpc
  BY DEF NotifyOne
<1>4. /\ Running' = Running /\ Busy' = Busy
      /\ wpc' \in [Workers -> {"test", "asleep", "run", "done", "exited"}]
      /\ \A w \in Workers : wpc'[w] = "exited" => wpc[w] = "exited"
  BY ZenonT(60), <1>1, <1>3 DEF Running, Busy, TypeOK
<1>5. TypeOK'
  BY SMTT(60), <1>1, <1>2, <1>4 DEF TypeOK, Slots
<1>6. ActiveIsBusy'
  BY SMTT(60), <1>1, <1>4, SameBusy DEF IInv
<1>7. QueueInv' /\ RunningInv' /\ CallInv'
  <2>1. SplitInv(c)
    BY ZenonT(60), <1>1 DEF IInv, CallInv
  <2>2. SplitInv(c)'
    <3>1. /\ job'[c] = job[c] /\ next'[c] = next[c] /\ cpc'[c] \in {"split", "wait"}
          /\ cpc'[c] = "split" => MoreChunks(job[c].n, job[c].k, next[c])
          /\ cpc'[c] = "wait" => ~MoreChunks(job[c].n, job[c].k, next[c])
      BY ZenonT(60), <1>1, <1>2
    <3>2. QED
      BY <2>1, <3>1 DEF SplitInv
  <2>3. InRun(c) /\ InRun(c)'
    BY SMTT(60), <1>1, <1>2 DEF InRun
  <2>4. QED
    BY ZenonT(60), <1>1, <1>2, <1>4, <2>2, <2>3, CallerMoves
<1>8. \A w \in Workers : wpc[w] # "exited"
  BY <1>1 DEF IInv, DtorInv
<1>9. NoLostWakeup'
  <2>1. \E w \in Workers : wpc'[w] \in {"test", "run", "done"}
    BY <1>1, <1>3, <1>8, PoolAssumption, SMTT(60) DEF TypeOK
  <2>2. QED
    BY ZenonT(60), <1>1, <1>2, <2>1 DEF IInv, NoLostWakeup, AllIdle
<1>10. DtorInv'
  <2>1. ~stop
    BY <1>1 DEF IInv, DtorInv
  <2>2. QED
    BY SMTT(60), <1>1, <1>4, <1>8, <2>1 DEF IInv, DtorInv
<1>11. QED
  BY <1>5, <1>6, <1>7, <1>9, <1>10 DEF IInv

(* wait_all's test, and a spurious wakeup out of it, preserve IInv: the    *)
(* caller goes on only when no task of any run is left.                    *)
LEMMA WaitAllInv ==
  ASSUME Counting, IInv, NEW c \in Callers, WaitAll(c) \/ SpuriousCaller(c)
  PROVE  IInv'
<1>1. /\ UNCHANGED <<tasks, active_workers, stop, wpc, wtask, job, next, results, answer, runs, dpc>>
      /\ cpc[c] \in {"wait", "asleep"}
      /\ TypeOK
  BY DEF WaitAll, SpuriousCaller, IInv, poolVars
<1>2. \E pc \in {"wait", "asleep", "sum"} :
        /\ cpc' = [cpc EXCEPT ![c] = pc]
        /\ pc = "sum" => AllIdle
        /\ pc = "asleep" => ~AllIdle
  BY SMTT(60) DEF WaitAll, SpuriousCaller
<1>3. /\ cpc'[c] \in {"wait", "asleep", "sum"}
      /\ cpc'[c] = "sum" => AllIdle
      /\ cpc'[c] = "asleep" => ~AllIdle
      /\ \A d \in Callers : d # c => cpc'[d] = cpc[d]
      /\ cpc' \in [Callers -> {"idle", "split", "notify", "wait", "asleep", "sum"}]
  BY <1>1, <1>2 DEF TypeOK
<1>4. Running' = Running /\ Busy' = Busy
  BY SMTT(60), <1>1 DEF Running, Busy
<1>5. TypeOK'
  BY SMTT(60), <1>1, <1>3 DEF TypeOK, Slots
<1>6. ActiveIsBusy'
  BY <1>1, <1>4, SameBusy DEF IInv
<1>7. QueueInv' /\ RunningInv' /\ CallInv'
  <2>1. SplitInv(c)
    BY SMTT(60), <1>1 DEF IInv, CallInv
  <2>2. SplitInv(c)'
    BY SMTT(60), <1>1, <1>3, <2>1 DEF SplitInv
  <2>3. InRun(c) /\ (InRun(c)' \/ (DOMAIN tasks = {} /\ Running = {}))
    BY <1>1, <1>3, IdleMeansDone DEF InRun
  <2>4. QED
    BY SMTT(60), <1>1, <1>3, <1>4, <2>2, <2>3, CallerMoves
<1>8. NoLostWakeup'
  BY SMTT(60), <1>1, <1>3 DEF IInv, NoLostWakeup, AllIdle
<1>9. DtorInv'
  <2>1. ~stop
    BY <1>1 DEF IInv, DtorInv
  <2>2. QED
    BY <1>1, <2>1 DEF IInv, DtorInv
<1>10. QED
  BY SMTT(60), <1>5, <1>6, <1>7, <1>8, <1>9 DEF IInv

(* Summing up and returning preserves IInv: no task in flight points into  *)
(* the results vector that goes out of scope.                              *)
LEMMA AggregateInv ==
  ASSUME IInv, NEW c \in Callers, Aggregate(c)
  PROVE  IInv'
<1>1. /\ UNCHANGED <<tasks, active_workers, stop, wpc, wtask, job, next, dpc>>
      /\ cpc[c] = "sum" /\ cpc' = [cpc EXCEPT ![c] = "idle"]
      /\ results' = [results EXCEPT ![c] = <<>>]
      /\ runs' = [runs EXCEPT ![c] = @ + 1]
      /\ \E a : answer' = [answer EXCEPT ![c] = a]
      /\ TypeOK
  BY ZenonT(60) DEF Aggregate, IInv, poolVars
<1>2. /\ cpc'[c] = "idle"
      /\ \A d \in Callers : d # c => cpc'[d] = cpc[d] /\ results'[d] = results[d]
  BY SMTT(60), <1>1 DEF TypeOK
<1>3. TypeOK'
  <2>1. /\ cpc' \in [Callers -> {"idle", "split", "notify", "wait", "asleep", "sum"}]
        /\ runs' \in [Callers -> Nat]
        /\ results' = [d \in Callers |-> results'[d]]
        /\ answer' = [d \in Callers |-> answer'[d]]
    <3>1. cpc' \in [Callers -> {"idle", "split", "notify", "wait", "asleep", "sum"}]
      BY SMTT(60), <1>1 DEF TypeOK
    <3>2. runs' \in [Callers -> Nat]
      BY <1>1, SMTT(30) DEF TypeOK
    <3>3. results' = [d \in Callers |-> results'[d]]
      BY ZenonT(30), <1>1 DEF TypeOK
    <3>4. answer' = [d \in Callers |-> answer'[d]]
      BY ZenonT(30), <1>1 DEF TypeOK
    <3>5. QED
      BY <3>1, <3>2, <3>3, <3>4
  <2>2. \A d \in Callers : cpc'[d] # "idle" => results'[d] \in [Slots(d)' -> SUBSET Nat]
    BY ZenonT(30), <1>1, <1>2 DEF TypeOK, Slots
  <2>3. QED
    BY SMTT(60), <1>1, <2>1, <2>2 DEF TypeOK
<1>4. ActiveIsBusy'
  BY SMTT(60), <1>1 DEF IInv, ActiveIsBusy, Busy
<1>5. /\ QueueInv' /\ RunningInv'
      /\ \A d \in Callers : d # c /\ cpc'[d] # "idle" => SplitInv(d)' /\ SlotInv(d)'
  BY ZenonT(60), <1>1, <1>2, OtherRunsFrame DEF InRun
<1>6. CallInv'
  BY SMTT(60), <1>2, <1>5 DEF CallInv
<1>7. NoLostWakeup' /\ DtorInv'
  BY <1>1, <1>2 DEF IInv, NoLostWakeup, AllIdle, DtorInv
<1>8. QED
  BY <1>3, <1>4, <1>5, <1>6, <1>7 DEF IInv

(* The destructor's steps preserve IInv.                                   *)
LEMMA DestructorInv ==
  ASSUME IInv, DtorStop \/ DtorNotify \/ DtorJoin
  PROVE  IInv'
<1>1. /\ UNCHANGED <<tasks, active_workers, wtask, cpc, job, next, results, answer, runs>>
      /\ TypeOK
  BY SMTT(60) DEF DtorStop, DtorNotify, DtorJoin, IInv, poolVars, callVars
<1>2. /\ wpc' \in [Workers -> {"test", "asleep", "run", "done", "exited"}]
      /\ Running' = Running /\ Busy' = Busy
      /\ \A w \in Workers : wpc'[w] # wpc[w] => wpc'[w] = "test"
  BY <1>1 DEF DtorStop, DtorNotify, DtorJoin, TypeOK, Running, Busy, poolVars
<1>3. /\ stop' \in BOOLEAN
      /\ dpc' \in {"notify", "join", "destroyed"}
      /\ stop'
      /\ \A c \in Callers : cpc[c] = "idle"
  BY ZenonT(60), <1>1 DEF DtorStop, DtorNotify, DtorJoin, IInv, DtorInv, TypeOK, poolVars
<1>4. TypeOK'
  BY SMTT(60), <1>1, <1>2, <1>3 DEF TypeOK, Slots
<1>5. ActiveIsBusy'
  BY SMTT(60), <1>1, <1>2, SameBusy DEF IInv
<1>6. QueueInv' /\ RunningInv' /\ CallInv'
  BY SMTT(60), <1>1, <1>2, FlightFrame DEF IInv
<1>7. NoLostWakeup'
  BY SMTT(60), <1>1, <1>2, <1>3 DEF IInv, NoLostWakeup, AllIdle
<1>8. DtorInv'
  BY <1>1, <1>3 DEF DtorInv
<1>9. QED
  BY SMTT(60), <1>4, <1>5, <1>6, <1>7, <1>8 DEF IInv

(* Every step preserves IInv, and so does a step that changes nothing.     *)
LEMMA NextInv ==
  ASSUME Counting
  PROVE  IInv /\ [Next]_vars => IInv'
<1> SUFFICES ASSUME IInv, [Next]_vars PROVE IInv'
  OBVIOUS
<1>1. ASSUME NEW c \in Callers,
             RunBegin(c) \/ RunEmpty(c) \/ CallerStep(c) \/ SpuriousCaller(c)
      PROVE  IInv'
  BY SMTT(60), <1>1, RunBeginInv, RunEmptyInv, EnqueueInv, NotifyOneInv, WaitAllInv, AggregateInv
     DEF CallerStep
<1>2. ASSUME NEW w \in Workers, WorkerStep(w) \/ SpuriousWorker(w)
      PROVE  IInv'
  BY <1>2, WorkerIdleInv, WorkerTakeInv, WorkerRunInv, WorkerFinishInv DEF WorkerStep
<1>3. CASE DtorStop \/ DtorNotify \/ DtorJoin
  BY SMTT(60), <1>3, DestructorInv
<1>4. CASE UNCHANGED vars
  <2>1. UNCHANGED <<tasks, active_workers, stop, wpc, wtask, cpc, job, next, results, answer, runs, dpc>>
    BY <1>4 DEF vars, poolVars, callVars
  <2>2. Running' = Running /\ Busy' = Busy
    BY SMTT(60), <2>1 DEF Running, Busy
  <2>3. QueueInv' /\ RunningInv' /\ CallInv'
    BY SMTT(60), <2>1, <2>2, FlightFrame DEF IInv
  <2>4. TypeOK' /\ ActiveIsBusy'
    BY SMTT(60), <2>1, <2>2 DEF IInv, TypeOK, Slots, ActiveIsBusy
  <2>5. NoLostWakeup' /\ DtorInv'
    BY <2>1 DEF IInv, NoLostWakeup, AllIdle, DtorInv
  <2>6. QED
    BY SMTT(60), <2>3, <2>4, <2>5 DEF IInv
<1>5. QED
  BY <1>1, <1>2, <1>3, <1>4 DEF Next, Terminated

-----------------------------------------------------------------------------
(* The split of ParallelRunner::run                                        *)

(* Multiplication by a fixed natural number is monotonic.                  *)
LEMMA TimesMonotonic ==
  ASSUME NEW a \in Nat, NEW b \in Nat, NEW p \in Nat, a <= b
  PROVE  a * p <= b * p
  OBVIOUS

(* Starts do not decrease from one chunk to a later one.                   *)
LEMMA StartMonotonic ==
  ASSUME NEW n \in Nat, NEW k \in Nat \ {0},
         NEW t \in Nat, NEW u \in Nat, t <= u
  PROVE  ChunkStart(n, k, t) <= ChunkStart(n, k, u)
  BY ZenonT(30), ShareIsPositive, TimesMonotonic DEF ChunkStart

(* Two different chunks have no row in common.                             *)
LEMMA ChunksDisjoint ==
  ASSUME NEW n \in Nat, NEW k \in Nat \ {0},
         NEW t \in 0 .. (k - 1), NEW u \in 0 .. (k - 1), t < u
  PROVE  ChunkEnd(n, k, t) <= ChunkStart(n, k, u)
<1>1. t + 1 <= u /\ t \in Nat /\ u \in Nat /\ t < k - 1
  OBVIOUS
<1>2. ChunkEnd(n, k, t) <= ChunkStart(n, k, t + 1)
  BY <1>1, ChunkBounds
<1>3. ChunkStart(n, k, t + 1) <= ChunkStart(n, k, u)
  BY <1>1, StartMonotonic
<1>4. t + 1 \in Nat
  BY <1>1
<1>5. ChunkStart(n, k, t + 1) \in Nat
  BY <1>4, ChunkBounds
<1>6. ChunkEnd(n, k, t) \in Nat /\ ChunkStart(n, k, u) \in Nat
  BY ZenonT(30), <1>1, ChunkBounds
<1>7. QED
  BY <1>2, <1>3, <1>5, <1>6

(* Every row of the data lies in the chunk of some thread.                 *)
LEMMA RowInSomeChunk ==
  ASSUME NEW n \in Nat, NEW k \in Nat \ {0}, NEW r \in 0 .. (n - 1)
  PROVE  \E t \in 0 .. (k - 1) :
           /\ ChunkStart(n, k, t) <= r
           /\ r < ChunkEnd(n, k, t)
<1> DEFINE p == RowsPerThread(n, k)
           q == r \div p
<1>1. p \in Nat \ {0}
  BY ShareIsPositive
<1> HIDE DEF p
<1>2. q \in Nat /\ q * p <= r /\ r < q * p + p
  BY <1>1, QuotientBounds
<1> HIDE DEF q
<1>3. CASE q <= k - 1
  <2>1. ChunkStart(n, k, q) <= r
    BY <1>2 DEF ChunkStart, p
  <2>2. r < ChunkEnd(n, k, q)
    BY <1>1, <1>2 DEF ChunkEnd, ChunkStart, p
  <2>3. QED
    BY <1>2, <1>3, <2>1, <2>2
<1>4. CASE q > k - 1
  <2>1. (k - 1) * p <= q * p
    BY <1>1, <1>2, <1>4, TimesMonotonic
  <2>2. ChunkStart(n, k, k - 1) <= r
    BY <1>1, <1>2, <2>1 DEF ChunkStart, p
  <2>3. ChunkEnd(n, k, k - 1) = n
    BY DEF ChunkEnd
  <2>4. QED
    BY <2>2, <2>3
<1>5. QED
  BY <1>2, <1>3, <1>4

(* The chunks the split loop has enqueued when it ends after m iterations  *)
(* partition the rows: every row is visited by exactly one of the tasks    *)
(* 0 .. m-1, whether the loop ended at num_threads or at the break.        *)
THEOREM SplitIsPartition ==
  ASSUME NEW n \in Nat, NEW k \in Nat \ {0}, NEW m \in 0 .. k,
         ~MoreChunks(n, k, m),
         NEW r \in 0 .. (n - 1)
  PROVE  \E t \in 0 .. (m - 1) :
           \A u \in 0 .. (m - 1) :
             r \in RowsVisited(ChunkStart(n, k, u), ChunkEnd(n, k, u)) <=> u = t
<1>1. \A u \in Nat : ChunkStart(n, k, u) \in Nat /\ ChunkEnd(n, k, u) \in Nat
  <2>1. TAKE u \in Nat
  <2>2. QED
    BY ZenonT(30), ChunkBounds
<1>2. \A u \in Nat :
        r \in RowsVisited(ChunkStart(n, k, u), ChunkEnd(n, k, u))
          <=> ChunkStart(n, k, u) <= r /\ r < ChunkEnd(n, k, u)
  <2>1. TAKE u \in Nat
  <2> DEFINE s == ChunkStart(n, k, u)
             e == ChunkEnd(n, k, u)
  <2>2. s \in Nat /\ e \in Nat
    BY <1>1
  <2> HIDE DEF s, e
  <2>3. RowsVisited(s, e) = s .. (e - 1)
    BY <2>2, VisitedIsRange
  <2>4. r \in RowsVisited(s, e) <=> s <= r /\ r < e
    BY <2>2, <2>3
  <2>5. QED
    BY <2>4 DEF s, e
<1>3. PICK t \in 0 .. (k - 1) : ChunkStart(n, k, t) <= r /\ r < ChunkEnd(n, k, t)
  BY ZenonT(30), RowInSomeChunk
<1>4. t < m
  <2>1. SUFFICES ASSUME m <= t PROVE FALSE
    OBVIOUS
  <2>2. m \in Nat /\ t \in Nat /\ m < k
    BY <2>1
  <2>3. ChunkStart(n, k, m) <= ChunkStart(n, k, t)
    BY <2>1, <2>2, StartMonotonic
  <2>4. ChunkStart(n, k, m) < n
    BY <1>1, <1>3, <2>2, <2>3
  <2>5. QED
    BY <2>2, <2>4 DEF MoreChunks
<1>5. r \in RowsVisited(ChunkStart(n, k, t), ChunkEnd(n, k, t))
  BY <1>2, <1>3
<1>6. ASSUME NEW u \in 0 .. (m - 1),
             r \in RowsVisited(ChunkStart(n, k, u), ChunkEnd(n, k, u))
      PROVE  u = t
  <2>1. u \in 0 .. (k - 1)
    OBVIOUS
  <2>2. ChunkStart(n, k, u) <= r /\ r < ChunkEnd(n, k, u)
    BY <1>2, <1>6, <2>1
  <2>3. ~(u < t)
    BY <1>1, <1>3, <2>1, <2>2, ChunksDisjoint
  <2>4. ~(t < u)
    BY <1>1, <1>3, <2>1, <2>2, ChunksDisjoint
  <2>5. QED
    BY <2>1, <2>3, <2>4
<1>7. t \in 0 .. (m - 1)
  BY <1>4
<1>8. QED
  BY <1>5, <1>6, <1>7

-----------------------------------------------------------------------------
(* What a run returns                                                      *)

(* When a caller sums up, at most one of its slots holds a given row, and  *)
(* exactly one does unless a scratchpad allocation failed.  None does when *)
(* the expression refers to no field.                                      *)
LEMMA OneSlotPerRow ==
  ASSUME IInv, NEW c \in Callers, cpc[c] = "sum", NEW r \in 0 .. (job[c].n - 1)
  PROVE  \E u \in 0 .. (next[c] - 1) :
           LET S == {t \in 0 .. (next[c] - 1) : r \in results[c][t]}
           IN  IF job[c].f = 0 THEN S = {} ELSE S = {u} \/ (AllocMayFail /\ S = {})
<1> DEFINE n == job[c].n
           k == job[c].k
           m == next[c]
           Cell(t) == RowsVisited(ChunkStart(n, k, t), ChunkEnd(n, k, t))
           S == {t \in 0 .. (m - 1) : r \in results[c][t]}
<1>1. /\ SplitInv(c) /\ SlotInv(c)
      /\ n \in Nat /\ k \in Nat \ {0} /\ m \in Nat
  BY SMTT(60) DEF IInv, CallInv, TypeOK
<1>2. ~MoreChunks(n, k, m) /\ m \in 0 .. k
  BY <1>1, SMTT(60) DEF SplitInv
<1>3. ASSUME NEW t \in 0 .. (m - 1)
      PROVE  IF job[c].f = 0 THEN results[c][t] = {}
             ELSE results[c][t] = Cell(t) \/ (AllocMayFail /\ results[c][t] = {})
  <2>1. ~Outstanding(c, t)
    BY ZenonT(60) DEF IInv, QueueInv, RunningInv, Valid, InRun, Outstanding
  <2>2. results[c][t] \in CountedRows(TaskOf(c, t))
    BY <1>1, <2>1 DEF SlotInv
  <2>3. QED
    BY ZenonT(60), <2>2 DEF CountedRows, TaskOf
<1>4. PICK u \in 0 .. (m - 1) : \A t \in 0 .. (m - 1) : r \in Cell(t) <=> t = u
  <2>1. r \in 0 .. (n - 1)
    BY SMTT(60)
  <2> HIDE DEF n, k, m
  <2>2. QED
    BY ZenonT(60), <1>1, <1>2, <2>1, SplitIsPartition
<1> HIDE DEF Cell
<1>5. /\ job[c].f = 0 => S = {}
      /\ job[c].f # 0 => S \subseteq {u} /\ (S # {u} => AllocMayFail)
  BY SMTT(60), <1>3, <1>4
<1>6. IF job[c].f = 0 THEN S = {} ELSE S = {u} \/ (AllocMayFail /\ S = {})
  BY SMTT(60), <1>5
<1>7. QED
  BY SMTT(60), <1>6

(* The value Aggregate returns counts no row twice, and every row once     *)
(* unless a scratchpad allocation failed or there are no fields.           *)
LEMMA AggregateCounts ==
  ASSUME Counting, IInv, NEW c \in Callers, Aggregate(c)
  PROVE  /\ DOMAIN answer'[c] = 0 .. (job[c].n - 1)
         /\ \A r \in 0 .. (job[c].n - 1) : answer'[c][r] \in {0, 1}
         /\ ~AllocMayFail => answer'[c] = Count(job[c])
<1> DEFINE S(r) == {t \in 0 .. (next[c] - 1) : r \in results[c][t]}
<1>1. cpc[c] = "sum" /\ answer = [d \in Callers |-> answer[d]]
  BY DEF Aggregate, IInv, TypeOK
<1>2. answer'[c] = [r \in 0 .. (job[c].n - 1) |-> Cardinality(S(r))]
  BY <1>1 DEF Aggregate, CountOf
<1>3. ASSUME NEW r \in 0 .. (job[c].n - 1)
      PROVE  IF job[c].f = 0 THEN Cardinality(S(r)) = 0
             ELSE Cardinality(S(r)) = 1 \/ (AllocMayFail /\ Cardinality(S(r)) = 0)
  <2>1. PICK u \in 0 .. (next[c] - 1) :
          IF job[c].f = 0 THEN S(r) = {} ELSE S(r) = {u} \/ (AllocMayFail /\ S(r) = {})
    BY <1>1, OneSlotPerRow
  <2>2. Cardinality({u}) = 1
    BY ZenonT(30) DEF Counting
  <2>3. Cardinality({}) = 0
    BY ZenonT(30) DEF Counting
  <2>4. QED
    BY ZenonT(60), <2>1, <2>2, <2>3
<1> HIDE DEF S
<1>4. QED
  BY SMTT(60), <1>2, <1>3 DEF Count

(* A step that gives caller d no answer leaves a caller that is not in run *)
(* with the job and the answer it had.                                     *)
LEMMA AnswerFrame ==
  ASSUME IInv, [Next]_vars, NEW d \in Callers,
         ~RunEmpty(d), ~Aggregate(d), cpc'[d] = "idle"
  PROVE  /\ cpc[d] = "idle" /\ job'[d] = job[d]
         /\ answer'[d] = answer[d] /\ runs'[d] = runs[d]
<1>1. TypeOK
  BY SMTT(60) DEF IInv
<1>2. ASSUME NEW c \in Callers, c # d, RunEmpty(c) \/ Aggregate(c)
      PROVE  /\ cpc'[d] = cpc[d] /\ job'[d] = job[d]
             /\ answer'[d] = answer[d] /\ runs'[d] = runs[d]
  <2>1. CASE RunEmpty(c)
    BY SMTT(60), <1>1, <1>2, <2>1 DEF RunEmpty, TypeOK
  <2>2. CASE Aggregate(c)
    BY SMTT(60), <1>1, <1>2, <2>2 DEF Aggregate, TypeOK
  <2>3. QED
    BY SMTT(60), <1>2, <2>1, <2>2
<1>3. ASSUME NEW c \in Callers,
             RunBegin(c) \/ Enqueue(c) \/ NotifyOne(c) \/ WaitAll(c) \/ SpuriousCaller(c)
      PROVE  /\ cpc[d] = "idle" /\ job'[d] = job[d]
             /\ answer'[d] = answer[d] /\ runs'[d] = runs[d]
  <2>1. UNCHANGED <<answer, runs>> /\ (c # d => cpc'[d] = cpc[d] /\ job'[d] = job[d])
    BY SMTT(60), <1>1, <1>3 DEF RunBegin, Enqueue, NotifyOne, WaitAll, SpuriousCaller, TypeOK
  <2>2. cpc'[c] # "idle"
    BY SMTT(60), <1>1, <1>3 DEF RunBegin, Enqueue, NotifyOne, WaitAll, SpuriousCaller, TypeOK
  <2>3. QED
    BY SMTT(60), <2>1, <2>2
<1>4. ASSUME NEW w \in Workers, WorkerStep(w) \/ SpuriousWorker(w)
      PROVE  /\ cpc[d] = "idle" /\ job'[d] = job[d]
             /\ answer'[d] = answer[d] /\ runs'[d] = runs[d]
  BY <1>1, <1>4, SMTT(60) DEF WorkerStep, WorkerSleep, WorkerExit, WorkerTake, WorkerRun, WorkerFinish,
                    SpuriousWorker, callVars, TypeOK
<1>5. CASE DtorStop \/ DtorNotify \/ DtorJoin \/ Terminated \/ UNCHANGED vars
  BY SMTT(60), <1>5 DEF DtorStop, DtorNotify, DtorJoin, Terminated, vars, callVars
<1>6. QED
  BY SMTT(60), <1>2, <1>3, <1>4, <1>5 DEF Next, CallerStep

(* What a caller outside run was told last: no row twice.                  *)
LEMMA OvercountStep ==
  ASSUME Counting, IInv, NeverOvercounts, [Next]_vars
  PROVE  NeverOvercounts'
<1>1. TypeOK
  BY SMTT(60) DEF IInv
<1>2. SUFFICES ASSUME NEW d \in Callers, cpc'[d] = "idle", runs'[d] > 0
               PROVE  /\ DOMAIN answer'[d] = 0 .. (job'[d].n - 1)
                      /\ \A r \in DOMAIN answer'[d] : answer'[d][r] <= 1
  BY SMTT(60) DEF NeverOvercounts
<1>3. CASE RunEmpty(d)
  <2>1. job'[d].n = 0 /\ answer'[d] = [r \in {} |-> 0]
    BY <1>1, <1>3 DEF RunEmpty, TypeOK, NoJob
  <2>2. 0 .. (0 - 1) = {} /\ DOMAIN answer'[d] = {}
    BY SMTT(60), <2>1
  <2>3. QED
    BY SMTT(60), <2>1, <2>2
<1>4. CASE Aggregate(d)
  <2>1. job'[d] = job[d]
    BY <1>4 DEF Aggregate
  <2>2. DOMAIN answer'[d] = 0 .. (job[d].n - 1)
    BY ZenonT(30), <1>4, AggregateCounts
  <2>3. \A r \in DOMAIN answer'[d] : answer'[d][r] \in {0, 1}
    BY ZenonT(30), <1>4, AggregateCounts
  <2>4. \A x \in {0, 1} : x <= 1
    BY SMTT(60)
  <2>5. QED
    BY SMTT(60), <2>1, <2>2, <2>3, <2>4
<1>5. CASE ~RunEmpty(d) /\ ~Aggregate(d)
  BY ZenonT(60), <1>2, <1>5, AnswerFrame DEF NeverOvercounts
<1>6. QED
  BY <1>3, <1>4, <1>5

(* What a caller outside run was told last: every row exactly once.        *)
LEMMA ExactStep ==
  ASSUME Counting, ~AllocMayFail, IInv, ExactCount, [Next]_vars
  PROVE  ExactCount'
<1>1. TypeOK
  BY DEF IInv
<1>2. SUFFICES ASSUME NEW d \in Callers, cpc'[d] = "idle", runs'[d] > 0
               PROVE  answer'[d] = Count(job'[d])
  BY DEF ExactCount
<1>3. CASE RunEmpty(d)
  <2>1. job'[d].n = 0 /\ answer'[d] = [r \in {} |-> 0]
    BY SMTT(60), <1>1, <1>3 DEF RunEmpty, TypeOK, NoJob
  <2>2. QED
    BY <2>1, SMTT(60) DEF Count
<1>4. CASE Aggregate(d)
  <2>1. job'[d] = job[d]
    BY SMTT(60), <1>4 DEF Aggregate
  <2>2. QED
    BY SMTT(60), <1>4, <2>1, AggregateCounts
<1>5. CASE ~RunEmpty(d) /\ ~Aggregate(d)
  BY <1>2, <1>5, AnswerFrame DEF ExactCount
<1>6. QED
  BY <1>3, <1>4, <1>5

-----------------------------------------------------------------------------
(* What CountService sees of a step                                        *)

(* A step that starts or answers no run of any caller changes nothing that *)
(* CountService can see.                                                   *)
LEMMA HiddenStep ==
  ASSUME IInv, [Next]_vars,
         \A c \in Callers : ~RunBegin(c) /\ ~RunEmpty(c) /\ ~Aggregate(c)
  PROVE  UNCHANGED Abstract!vars
<1>1. TypeOK
  BY SMTT(60) DEF IInv
<1>2. UNCHANGED <<job, answer>> /\ \A d \in Callers : cpc'[d] = "idle" <=> cpc[d] = "idle"
  <2>1. ASSUME NEW c \in Callers,
               Enqueue(c) \/ NotifyOne(c) \/ WaitAll(c) \/ SpuriousCaller(c)
        PROVE  UNCHANGED <<job, answer>> /\ \A d \in Callers : cpc'[d] = "idle" <=> cpc[d] = "idle"
    BY SMTT(60), <1>1, <2>1 DEF Enqueue, NotifyOne, WaitAll, SpuriousCaller, TypeOK
  <2>2. ASSUME NEW w \in Workers, WorkerStep(w) \/ SpuriousWorker(w)
        PROVE  UNCHANGED <<job, answer>> /\ \A d \in Callers : cpc'[d] = "idle" <=> cpc[d] = "idle"
    BY <1>1, <2>2, SMTT(60) DEF WorkerStep, WorkerSleep, WorkerExit, WorkerTake, WorkerRun, WorkerFinish,
                      SpuriousWorker, callVars, TypeOK
  <2>3. CASE DtorStop \/ DtorNotify \/ DtorJoin \/ Terminated \/ UNCHANGED vars
    BY <2>3 DEF DtorStop, DtorNotify, DtorJoin, Terminated, vars, callVars
  <2>4. QED
    BY SMTT(60), <2>1, <2>2, <2>3 DEF Next, CallerStep
<1>3. QED
  BY <1>2 DEF Abstract!vars

(* The queries of the callers, as CountService sees them.                  *)
Queries == [d \in Callers |-> [n |-> job[d].n, f |-> job[d].f]]

(* RunBegin is CountService's Call, Aggregate its Reply, RunEmpty its      *)
(* CallOnNothing.                                                          *)
LEMMA VisibleStep ==
  ASSUME Counting, IInv, ~AllocMayFail, NEW c \in Callers,
         RunBegin(c) \/ RunEmpty(c) \/ Aggregate(c)
  PROVE  Abstract!Next
<1>1. TypeOK
  BY DEF IInv
<1>2. CASE RunBegin(c)
  <2>1. PICK n \in RowCounts, k0 \in ThreadCounts, f \in FieldCounts :
          job' = [job EXCEPT ![c] = [n |-> n, k |-> NumThreads(k0), f |-> f]]
    BY ZenonT(30), <1>2 DEF RunBegin
  <2>2. Queries' = [Queries EXCEPT ![c] = [n |-> n, f |-> f]]
    <3>1. job'[c].n = n /\ job'[c].f = f /\ \A d \in Callers \ {c} : job'[d] = job[d]
      BY SMTT(60), <1>1, <2>1 DEF TypeOK
    <3>2. QED
      BY ZenonT(60), <3>1 DEF Queries
  <2>3. {d \in Callers : cpc'[d] # "idle"} = {d \in Callers : cpc[d] # "idle"} \cup {c}
    BY <1>1, <1>2, SMTT(30) DEF RunBegin, TypeOK
  <2>4. Abstract!Call(c)
    BY ZenonT(30), <1>2, <2>2, <2>3 DEF Abstract!Call, RunBegin, Queries
  <2>5. QED
    BY <2>4 DEF Abstract!Next
<1>3. CASE RunEmpty(c)
  <2>1. job' = [job EXCEPT ![c] = NoJob] /\ answer' = [answer EXCEPT ![c] = [r \in {} |-> 0]]
    BY <1>3 DEF RunEmpty
  <2>2. Queries' = [Queries EXCEPT ![c] = Abstract!Nothing]
    <3>1. job'[c].n = 0 /\ job'[c].f = 0 /\ \A d \in Callers \ {c} : job'[d] = job[d]
      BY SMTT(60), <1>1, <2>1 DEF TypeOK, NoJob
    <3>2. QED
      BY ZenonT(60), <3>1 DEF Queries, Abstract!Nothing
  <2>3. answer' = [answer EXCEPT ![c] = Abstract!Exactly(Abstract!Nothing)]
    <3>1. [r \in {} |-> 0] = Abstract!Exactly(Abstract!Nothing)
      BY SMTT(60) DEF Abstract!Exactly, Abstract!Nothing
    <3>2. QED
      BY ZenonT(30), <2>1, <3>1
  <2>4. Abstract!CallOnNothing(c)
    BY ZenonT(60), <1>3, <2>2, <2>3 DEF Abstract!CallOnNothing, RunEmpty, Queries
  <2>5. QED
    BY SMTT(60), <2>4 DEF Abstract!Next
<1>4. CASE Aggregate(c)
  <2>1. /\ job' = job
        /\ cpc[c] = "sum" /\ cpc' = [cpc EXCEPT ![c] = "idle"]
        /\ \E a : answer' = [answer EXCEPT ![c] = a]
    BY ZenonT(60), <1>4 DEF Aggregate
  <2>2. answer'[c] = Count(job[c])
    BY <1>4, AggregateCounts
  <2>3. Count(job[c]) = Abstract!Exactly(Queries[c])
    BY SMTT(60) DEF Count, Abstract!Exactly, Queries
  <2>4. answer' = [answer EXCEPT ![c] = Abstract!Exactly(Queries[c])]
    BY ZenonT(60), <1>1, <2>1, <2>2, <2>3 DEF TypeOK
  <2>5. {d \in Callers : cpc'[d] # "idle"} = {d \in Callers : cpc[d] # "idle"} \ {c}
    BY <1>1, <2>1 DEF TypeOK
  <2>6. Abstract!Reply(c)
    BY ZenonT(30), <2>1, <2>4, <2>5 DEF Abstract!Reply, Queries
  <2>7. QED
    BY <2>6 DEF Abstract!Next
<1>5. QED
  BY <1>2, <1>3, <1>4

-----------------------------------------------------------------------------
(* The splits of the engine                                                *)

(* A quotient reaches c exactly when the dividend reaches c divisors.      *)
LEMMA QuotientReaches ==
  ASSUME NEW x \in Nat, NEW p \in Nat \ {0}, NEW c \in Nat
  PROVE  c * p <= x <=> c <= x \div p
<1> DEFINE q == x \div p
<1>1. q \in Nat /\ q * p <= x /\ x < q * p + p
  BY QuotientBounds
<1> HIDE DEF q
<1>2. ASSUME c <= q PROVE c * p <= x
  <2>1. c * p <= q * p
    BY <1>1, <1>2, TimesMonotonic
  <2>2. QED
    BY <1>1, <2>1
<1>3. ASSUME ~(c <= q) PROVE ~(c * p <= x)
  <2>1. (q + 1) * p <= c * p
    BY <1>1, <1>3, TimesMonotonic
  <2>2. (q + 1) * p = q * p + p
    BY <1>1
  <2>3. QED
    BY <1>1, <2>1, <2>2
<1>4. QED
  BY <1>2, <1>3 DEF q

(* The blocks of execute_native_parallel: each belongs to one thread.      *)
THEOREM NativeSplitIsPartition ==
  ASSUME NEW n \in Nat, NEW k \in Nat \ {0}, NEW b \in 0 .. (n - 1)
  PROVE  \E t \in 0 .. (k - 1) :
           \A u \in 0 .. (k - 1) :
             NativeStart(n, k, u) <= b /\ b < NativeEnd(n, k, u) <=> u = t
<1> DEFINE p == n \div k
<1>1. p \in Nat /\ p * k <= n
  BY QuotientBounds
<1> HIDE DEF p
<1>2. \A u \in Nat : u * p \in Nat /\ p * u = u * p /\ (u + 1) * p = u * p + p
  BY <1>1
<1>3. ASSUME NEW t \in 0 .. (k - 1), NEW u \in 0 .. (k - 1), t < u
      PROVE  NativeEnd(n, k, t) <= NativeStart(n, k, u)
  <2>1. (t + 1) * p <= u * p
    BY <1>1, <1>3, TimesMonotonic
  <2>2. QED
    BY <1>1, <1>2, <1>3, <2>1 DEF NativeEnd, NativeStart, p
<1>4. \A u \in 0 .. (k - 1) : NativeStart(n, k, u) \in Nat /\ NativeEnd(n, k, u) \in Nat
  BY <1>1, <1>2 DEF NativeEnd, NativeStart, p
<1>5. \E t \in 0 .. (k - 1) : NativeStart(n, k, t) <= b /\ b < NativeEnd(n, k, t)
  <2>1. CASE (k - 1) * p <= b
    BY <1>1, <1>2, <2>1 DEF NativeEnd, NativeStart, p
  <2>2. CASE b < (k - 1) * p
    <3>1. p # 0
      BY <2>2, <1>1
    <3> DEFINE q == b \div p
    <3>2. q \in Nat /\ q * p <= b /\ b < q * p + p
      BY <1>1, <3>1, QuotientBounds
    <3>3. q < k - 1
      BY <1>1, <2>2, <3>1, QuotientReaches
    <3> HIDE DEF q
    <3>4. q \in 0 .. (k - 1) /\ q # k - 1
      BY <3>2, <3>3
    <3>5. NativeStart(n, k, q) = q * p /\ NativeEnd(n, k, q) = q * p + p
      BY <1>2, <3>2, <3>4 DEF NativeEnd, NativeStart, p
    <3>6. QED
      BY <3>2, <3>4, <3>5
  <2>3. QED
    BY <1>1, <1>2, <2>1, <2>2
<1>6. PICK t \in 0 .. (k - 1) : NativeStart(n, k, t) <= b /\ b < NativeEnd(n, k, t)
  BY <1>5
<1>7. ASSUME NEW u \in 0 .. (k - 1), NativeStart(n, k, u) <= b, b < NativeEnd(n, k, u)
      PROVE  u = t
  BY <1>3, <1>4, <1>6, <1>7
<1>8. QED
  BY <1>6, <1>7

(* The blocks execute slices for the GPU: each belongs to one worker, so   *)
(* that the workers write different planes and leave none unwritten.       *)
THEOREM SliceSplitIsPartition ==
  ASSUME NEW n \in Nat, NEW k \in Nat \ {0}, NEW b \in 0 .. (n - 1)
  PROVE  \E w \in 0 .. (k - 1) :
           \A u \in 0 .. (k - 1) :
             SliceStart(n, k, u) <= b /\ b < SliceEnd(n, k, u) <=> u = w
<1> DEFINE x == (b + 1) * k
           w == (x - 1) \div n
<1>1. n \in Nat \ {0} /\ b + 1 \in Nat /\ x \in Nat \ {0} /\ x - 1 \in Nat
  OBVIOUS
<1>2. \A u \in Nat : n * u \in Nat /\ u * n = n * u
  OBVIOUS
<1>3. \A u \in Nat : (SliceStart(n, k, u) <= b <=> u * n < x)
                     /\ (b < SliceEnd(n, k, u) <=> x <= (u + 1) * n)
  <2>1. ASSUME NEW u \in Nat PROVE x <= u * n <=> b + 1 <= (n * u) \div k
    BY <1>1, <1>2, QuotientReaches
  <2>2. ASSUME NEW u \in Nat PROVE (n * u) \div k \in Nat
    BY <1>2, QuotientBounds
  <2>3. QED
    BY <1>1, <1>2, <2>1, <2>2 DEF SliceStart, SliceEnd
<1>4. w \in Nat /\ w * n <= x - 1 /\ x - 1 < w * n + n
  BY <1>1, QuotientBounds
<1>5. x <= k * n
  <2>1. (b + 1) * k <= n * k
    BY <1>1, TimesMonotonic
  <2>2. QED
    BY <2>1
<1> HIDE DEF x, w
<1>6. ASSUME NEW u \in Nat, NEW v \in Nat, u < v PROVE u * n + n <= v * n
  <2>1. (u + 1) * n <= v * n
    BY <1>6, <1>1, TimesMonotonic
  <2>2. QED
    BY <2>1
<1>7. \A u \in Nat : (u + 1) * n = u * n + n
  OBVIOUS
<1>8. w < k
  BY <1>1, <1>2, <1>4, <1>5, <1>6
<1>9. \A u \in 0 .. (k - 1) : SliceStart(n, k, u) <= b /\ b < SliceEnd(n, k, u) <=> u = w
  <2>1. TAKE u \in 0 .. (k - 1)
  <2>2. SliceStart(n, k, u) <= b /\ b < SliceEnd(n, k, u) <=> u * n < x /\ x <= u * n + n
    BY <1>3, <1>7
  <2>3. u < w => u * n + n <= w * n
    BY <1>4, <1>6
  <2>4. w < u => w * n + n <= u * n
    BY <1>4, <1>6
  <2>5. u * n \in Nat /\ w * n \in Nat
    BY <1>2, <1>4
  <2>6. QED
    BY <1>1, <1>4, <2>2, <2>3, <2>4, <2>5
<1>10. w \in 0 .. (k - 1)
  BY <1>4, <1>8
<1>11. QED
  BY <1>9, <1>10, Zenon

-----------------------------------------------------------------------------
(* What holds of the pool                                                  *)

(* The library's facts about finite sets.                                  *)
Sets == INSTANCE FiniteSetTheorems

(* They are about the finite sets and cardinalities of ThreadPool.         *)
LEMMA SetsAgree ==
  \A S : (Sets!IsFiniteSet(S) <=> IsFiniteSet(S)) /\ Sets!Cardinality(S) = Cardinality(S)
<1>1. \A S : Sets!IsFiniteSet(S) <=> IsFiniteSet(S)
  BY Zenon DEF IsFiniteSet, Sets!IsFiniteSet
<1>2. \A S : Sets!Cardinality(S) = Cardinality(S)
  BY Zenon DEF Cardinality, Sets!Cardinality, IsFiniteSet, Sets!IsFiniteSet
<1>3. QED
  BY Zenon, <1>1, <1>2

(* The workers are finitely many, and can be counted.                      *)
LEMMA CountingHolds == Counting
<1>1. Cardinality({}) = 0
  BY Zenon, Sets!FS_EmptySet, SetsAgree DEF Sets!FS_EmptySet
<1>2. \A x : Cardinality({x}) = 1
  BY Zenon, Sets!FS_Singleton, SetsAgree DEF Sets!FS_Singleton
<1>3. ASSUME NEW S \in SUBSET Workers
      PROVE  /\ Cardinality(S) \in Nat
             /\ Cardinality(S) = 0 <=> S = {}
             /\ \A w \in Workers \ S : Cardinality(S \cup {w}) = Cardinality(S) + 1
             /\ \A w \in S : Cardinality(S \ {w}) = Cardinality(S) - 1
  <2>1. Sets!IsFiniteSet(Workers)
    BY Zenon, SetsAgree, PoolAssumption
  <2>2. Sets!IsFiniteSet(S)
    BY Zenon, <2>1, Sets!FS_Subset DEF Sets!FS_Subset
  <2>3. Cardinality(S) \in Nat
    BY Zenon, <2>2, Sets!FS_CardinalityType, SetsAgree DEF Sets!FS_CardinalityType
  <2>4. Cardinality(S) = 0 <=> S = {}
    BY Zenon, <2>2, Sets!FS_EmptySet, SetsAgree DEF Sets!FS_EmptySet
  <2>5. ASSUME NEW w \in Workers \ S PROVE Cardinality(S \cup {w}) = Cardinality(S) + 1
    <3>1. Sets!Cardinality(S \cup {w}) = Sets!Cardinality(S) + 1
      BY Zenon, <2>2, Sets!FS_AddElement DEF Sets!FS_AddElement
    <3>2. QED
      BY Zenon, <3>1, SetsAgree
  <2>6. ASSUME NEW w \in S PROVE Cardinality(S \ {w}) = Cardinality(S) - 1
    <3>1. Sets!Cardinality(S \ {w}) = Sets!Cardinality(S) - 1
      BY Zenon, <2>2, Sets!FS_RemoveElement DEF Sets!FS_RemoveElement
    <3>2. QED
      BY Zenon, <3>1, SetsAgree
  <2>7. QED
    BY Zenon, <2>3, <2>4, <2>5, <2>6
<1>4. QED
  BY Zenon, <1>1, <1>2, <1>3 DEF Counting

(* The inductive invariant holds in every reachable state of the pool.     *)
THEOREM InvariantHolds == Spec => []IInv
<1>1. Init => IInv
  BY Zenon, CountingHolds, InitInv
<1>2. IInv /\ [Next]_vars => IInv'
  BY Zenon, CountingHolds, NextInv
<1>3. QED
  BY <1>1, <1>2, PTL DEF Spec

(* The pool, its callers and its destructor stay well typed.               *)
THEOREM TypeCorrect == Spec => []TypeOK
<1>1. IInv => TypeOK
  BY DEF IInv
<1>2. QED
  BY <1>1, InvariantHolds, PTL

(* No worker of ThreadPool ever holds pointers into a run that has         *)
(* returned, although wait_all waits for the pool and not for the caller.  *)
THEOREM TasksNeverDangle == Spec => []NoDanglingTask
<1>1. IInv => NoDanglingTask
  BY DEF IInv, QueueInv, RunningInv, Valid, NoDanglingTask, Queued
<1>2. QED
  BY <1>1, InvariantHolds, PTL

(* active_workers_ is exactly the number of workers inside a task.         *)
THEOREM ActiveCountExact == Spec => []ActiveIsBusy
<1>1. IInv => ActiveIsBusy
  BY DEF IInv
<1>2. QED
  BY <1>1, InvariantHolds, PTL

(* Neither enqueue's notify_one, called after the unlock, nor the          *)
(* notify_all of the last worker loses a wakeup.                           *)
THEOREM WakeupsNotLost == Spec => []NoLostWakeup
<1>1. IInv => NoLostWakeup
  BY SMTT(60) DEF IInv
<1>2. QED
  BY <1>1, InvariantHolds, PTL

(* Even with failing scratchpad allocations, run never counts a row twice  *)
(* and never counts a row that is not its own.                             *)
THEOREM RunNeverOvercounts == Spec => []NeverOvercounts
<1>1. Init => NeverOvercounts
  BY DEF Init, NeverOvercounts
<1>2. IInv /\ NeverOvercounts /\ [Next]_vars => NeverOvercounts'
  BY Zenon, CountingHolds, OvercountStep
<1>3. QED
  BY <1>1, <1>2, InvariantHolds, PTL DEF Spec

(* As long as scratchpads can be allocated, every call of run returns the  *)
(* count of its own rows, each counted once, whatever the numbers of       *)
(* workers, callers, threads asked for, rows and rows per block.           *)
THEOREM RunCountsExactly == ASSUME ~AllocMayFail PROVE Spec => []ExactCount
<1>1. Init => ExactCount
  BY DEF Init, ExactCount
<1>2. IInv /\ ExactCount /\ [Next]_vars => ExactCount'
  BY Zenon, CountingHolds, ExactStep
<1>3. QED
  BY <1>1, <1>2, InvariantHolds, PTL DEF Spec

(* As long as scratchpads can be allocated, the callers of run cannot tell *)
(* the shared pool from CountService: a call on n rows is answered once,   *)
(* with each of its rows counted once, and calls do not interfere.         *)
THEOREM PoolImplementsCountService ==
  ASSUME ~AllocMayFail PROVE Spec => ImplementsCountService
<1>1. Init => Abstract!Init
  BY SMTT(60) DEF Init, Abstract!Init, Abstract!Exactly, Abstract!Nothing, NoJob
<1>2. IInv /\ [Next]_vars => [Abstract!Next]_(Abstract!vars)
  BY Zenon, CountingHolds, HiddenStep, VisibleStep
<1>3. QED
  BY <1>1, <1>2, InvariantHolds, PTL DEF Spec, ImplementsCountService, Abstract!Spec

=============================================================================
