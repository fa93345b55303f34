--------------------------- MODULE SandboxDaemon ---------------------------
(***************************************************************************)
(* The host daemon of the npm sandbox: main and SyscallBatchCollector of   *)
(* src/host/main.cpp with the VMController of src/host/vm_controller.mm,   *)
(* as built for Apple (the only platform CMake builds it for).             *)
(*                                                                         *)
(* Threads: main, which sits in CFRunLoopRun and runs the blocks of the    *)
(* main queue; the telemetry reader (or the generator of mock mode), which *)
(* calls add_event; the collector's worker; and a detached thread per      *)
(* violation seen by add_event.  Any of them but the reader may be inside  *)
(* VMController::stop.  Monitor publishing, ESF and logging are left out,  *)
(* as is g_shutdown, which no Apple build reads.                           *)
(***************************************************************************)
EXTENDS PolicyEngine

CONSTANTS
    Events,     \* telemetry events the guest may send
    MockEvents, \* those the generator of mock mode sends
    MaxEvents,  \* bound: events in a behaviour
    Batch       \* records of a batch: 64 in the code

ASSUME DaemonAssumption ==
    /\ MaxEvents \in Nat
    /\ Batch \in Nat \ {0}
    /\ \A e \in Events \cup MockEvents : e.event_type \in EventTypes

VARIABLES
    mode,         \* "mock" or "vm": --kernel
    alive,        \* the process has neither exited nor been terminated
    main,         \* where main is
    starting,     \* a start request of the VM is in progress
    running,      \* running
    vm,           \* the pointer vm is not nil
    stop_reader,  \* stop_reader; vsock_fd is closed with it
    reader,       \* where the reader is
    received,     \* events received so far, for MaxEvents
    event,        \* the record add_event has made, and what running was
    tree,         \* process_tree_
    pending,      \* pending_records_, each with what running was
    worker,       \* where the worker is
    eval_batch,   \* eval_batch
    stop_,        \* stop_ of the collector
    stopping,     \* where each thread is in VMController::stop
    late          \* history: the guest connected after a stop had passed its joins

collector == <<pending, worker, eval_batch, stop_>>
controller == <<starting, running, vm, stop_reader, late>>
readerVars == <<reader, received, event, tree>>
vars == <<mode, alive, main, controller, readerVars, collector, stopping>>

(* The threads that call stop: main, the worker, and the detached thread   *)
(* of each event.                                                          *)
MainThread == 0
WorkerThread == -1
Threads == {MainThread, WorkerThread} \cup 1 .. MaxEvents

NoEvent == [rec |-> <<>>, live |-> FALSE]

Init ==
    /\ mode \in {"mock", "vm"}
    /\ alive = TRUE
    /\ main = "start"
    /\ starting = FALSE /\ running = FALSE /\ vm = FALSE /\ stop_reader = FALSE
    /\ reader = "none" /\ received = 0 /\ event = NoEvent /\ tree = EmptyTree
    /\ pending = <<>> /\ worker = "loop" /\ eval_batch = <<>> /\ stop_ = FALSE
    /\ stopping = [t \in Threads |-> "out"]
    /\ late = FALSE

-----------------------------------------------------------------------------
(* VMController::start, and the blocks that run on the main queue          *)

Start ==
    /\ alive /\ main = "start"
    /\ IF mode = "mock"
       THEN /\ running' = TRUE /\ reader' = "read"
            /\ main' = "wait"
            /\ UNCHANGED <<starting, vm>>
       ELSE /\ starting' = TRUE /\ vm' = TRUE
            /\ main' = "wait"
            /\ UNCHANGED <<running, reader>>
    /\ UNCHANGED <<mode, alive, stop_reader, late, received, event, tree, collector, stopping>>

(* The configuration is not valid: main returns 1.                         *)
StartFails ==
    /\ alive /\ main = "start" /\ mode = "vm"
    /\ main' = "destroy"
    /\ UNCHANGED <<mode, alive, controller, readerVars, collector, stopping>>

(* main runs blocks of its queue in CFRunLoopRun and in stop's spin loop.  *)
Pumping == main = "wait" \/ stopping[MainThread] = "spin"

(* The completion handler of the start request.                            *)
StartCompletes ==
    /\ alive /\ Pumping /\ starting
    /\ starting' = FALSE
    /\ running' \in BOOLEAN
    /\ UNCHANGED <<mode, alive, main, vm, stop_reader, late, readerVars, collector, stopping>>

PassedJoins(t) == stopping[t] \in {"vmstop", "spin", "finish"}

(* start_reader, when the guest agent connects; it connects once.          *)
GuestConnects ==
    /\ alive /\ Pumping /\ vm /\ reader = "none"
    /\ reader' = "read"
    /\ stop_reader' = FALSE
    /\ late' = (late \/ \E t \in Threads : PassedJoins(t))
    /\ UNCHANGED <<mode, alive, main, starting, running, vm, received, event, tree,
                   collector, stopping>>

-----------------------------------------------------------------------------
(* The reader, and SyscallBatchCollector::add_event on its thread          *)

(* Mutant: the fast path leaves connections to the batch.                  *)
IsViolationOpenOnly(rec) ==
    rec.is_preinstall /\ rec.is_sensitive /\ rec.event_type = "OPEN"

is_violation(rec) ==
    /\ rec.is_preinstall
    /\ \/ rec.is_sensitive /\ rec.event_type = "OPEN"
       \/ rec.is_unauthorized /\ rec.event_type = "CONNECT"

(* An event arrives, or one more is in the buffer: stop_reader is tested   *)
(* between two reads only.  process_event is one critical section, and     *)
(* running is read once after it.                                          *)
Receive ==
    /\ alive
    /\ \/ reader = "read" /\ ~stop_reader
       \/ reader = "buffer"
    /\ received < MaxEvents
    /\ received' = received + 1
    /\ \E e \in IF mode = "mock" THEN MockEvents ELSE Events :
         /\ event' = [rec |-> process_event(tree, e), live |-> running]
         /\ tree' = TreeAfter(tree, e)
    /\ reader' = IF is_violation(event'.rec) /\ running THEN "kill" ELSE "push"
    /\ UNCHANGED <<mode, alive, main, controller, collector, stopping>>

(* The fast path: a detached thread stops the VM.                          *)
FastPath ==
    /\ alive /\ reader = "kill"
    /\ stopping' = [stopping EXCEPT ![received] = "enter"]
    /\ reader' = "buffer"
    /\ event' = NoEvent
    /\ UNCHANGED <<mode, alive, main, controller, received, tree, collector>>

(* Mutant: the worker is notified from the record after a full batch on.   *)
PushNotifyLate ==
    /\ alive /\ reader = "push"
    /\ worker # "block"
    /\ pending' = Append(pending, event)
    /\ worker' = IF Len(pending') > Batch /\ worker = "asleep" THEN "test" ELSE worker
    /\ reader' = "buffer"
    /\ event' = NoEvent
    /\ UNCHANGED <<mode, alive, main, controller, received, tree, eval_batch, stop_, stopping>>

(* The record is queued under mutex_, and the worker notified in it.       *)
Push ==
    /\ alive /\ reader = "push"
    /\ worker # "block"
    /\ pending' = Append(pending, event)
    /\ worker' = IF Len(pending') >= Batch /\ worker = "asleep" THEN "test" ELSE worker
    /\ reader' = "buffer"
    /\ event' = NoEvent
    /\ UNCHANGED <<mode, alive, main, controller, received, tree, eval_batch, stop_, stopping>>

BufferEmpty ==
    /\ alive /\ reader = "buffer"
    /\ reader' = "read"
    /\ UNCHANGED <<mode, alive, main, controller, received, event, tree, collector, stopping>>

(* stop_reader is set, or the closed descriptor makes read fail.           *)
ReaderExits ==
    /\ alive /\ reader = "read" /\ stop_reader
    /\ reader' = "exited"
    /\ UNCHANGED <<mode, alive, main, controller, received, event, tree, collector, stopping>>

(* The guest closes the connection.                                        *)
ConnectionClosed ==
    /\ alive /\ reader = "read" /\ mode = "vm"
    /\ reader' = "exited"
    /\ UNCHANGED <<mode, alive, main, controller, received, event, tree, collector, stopping>>

-----------------------------------------------------------------------------
(* VMController::stop on thread t                                          *)

At(t, pc) == alive /\ stopping[t] = pc

Goto(t, pc) == stopping' = [stopping EXCEPT ![t] = pc]

(* Mutant: stop_reader is not set and the descriptor stays open.           *)
StopEnterReaderRuns(t) ==
    /\ At(t, "enter")
    /\ Goto(t, IF running THEN "join" ELSE "returned")
    /\ UNCHANGED <<mode, alive, main, controller, readerVars, collector>>

StopEnter(t) ==
    /\ At(t, "enter")
    /\ Goto(t, IF running THEN "join" ELSE "returned")
    /\ stop_reader' = (stop_reader \/ running)
    /\ UNCHANGED <<mode, alive, main, starting, running, vm, late, readerVars, collector>>

Joinable == reader \notin {"none", "joined"}

(* Mutant: the reader is not joined.                                       *)
StopSkipJoin(t) ==
    /\ At(t, "join")
    /\ Goto(t, "vmstop")
    /\ UNCHANGED <<mode, alive, main, controller, readerVars, collector>>

StopJoinable(t) ==
    /\ At(t, "join")
    /\ Goto(t, IF Joinable THEN "call" ELSE "vmstop")
    /\ UNCHANGED <<mode, alive, main, controller, readerVars, collector>>

(* A thread that another one has joined, or is joining, cannot be joined:  *)
(* std::thread::join throws, and nothing catches it.                       *)
StopJoin(t) ==
    /\ At(t, "call")
    /\ IF reader = "joined" \/ \E u \in Threads \ {t} : stopping[u] = "blocked"
       THEN alive' = FALSE /\ UNCHANGED stopping
       ELSE Goto(t, "blocked") /\ UNCHANGED alive
    /\ UNCHANGED <<mode, main, controller, readerVars, collector>>

StopJoined(t) ==
    /\ At(t, "blocked") /\ reader = "exited"
    /\ reader' = "joined"
    /\ Goto(t, "vmstop")
    /\ UNCHANGED <<mode, alive, main, controller, received, event, tree, collector>>

(* Mock mode is done; otherwise the VM is asked to stop.                   *)
StopVm(t) ==
    /\ At(t, "vmstop")
    /\ Goto(t, IF mode = "mock" THEN "returned" ELSE IF vm THEN "spin" ELSE "finish")
    /\ running' = (running /\ mode # "mock")
    /\ UNCHANGED <<mode, alive, main, starting, vm, stop_reader, late, readerVars, collector>>

(* The completion handler runs on the main queue.                          *)
StopCompletes(t) ==
    /\ At(t, "spin") /\ Pumping
    /\ Goto(t, "finish")
    /\ UNCHANGED <<mode, alive, main, controller, readerVars, collector>>

StopFinish(t) ==
    /\ At(t, "finish")
    /\ Goto(t, "returned")
    /\ vm' = FALSE /\ running' = FALSE
    /\ UNCHANGED <<mode, alive, main, starting, stop_reader, late, readerVars, collector>>

Stop(t) ==
    \/ StopEnter(t) \/ StopJoinable(t) \/ StopJoin(t) \/ StopJoined(t)
    \/ StopVm(t) \/ StopFinish(t)

-----------------------------------------------------------------------------
(* SyscallBatchCollector::process_queue                                    *)

WorkerLoop ==
    /\ alive /\ worker = "loop"
    /\ worker' = IF stop_ THEN "done" ELSE "test"
    /\ UNCHANGED <<mode, alive, main, controller, readerVars, pending, eval_batch, stop_, stopping>>

(* The wait predicate holds: leave, or take the first records.             *)
WorkerTake ==
    /\ alive /\ worker = "test"
    /\ stop_ \/ Len(pending) >= Batch
    /\ IF stop_
       THEN worker' = "done" /\ UNCHANGED <<pending, eval_batch>>
       ELSE /\ worker' = "eval"
            /\ eval_batch' = SubSeq(pending, 1, Batch)
            /\ pending' = SubSeq(pending, Batch + 1, Len(pending))
    /\ UNCHANGED <<mode, alive, main, controller, readerVars, stop_, stopping>>

(* It does not hold.  mutex_ is kept until the thread is blocked.          *)
WorkerWait ==
    /\ alive /\ worker = "test"
    /\ ~stop_ /\ Len(pending) < Batch
    /\ worker' = "block"
    /\ UNCHANGED <<mode, alive, main, controller, readerVars, pending, eval_batch, stop_, stopping>>

WorkerBlocks ==
    /\ alive /\ worker = "block"
    /\ worker' = "asleep"
    /\ UNCHANGED <<mode, alive, main, controller, readerVars, pending, eval_batch, stop_, stopping>>

(* A spurious wakeup of std::condition_variable::wait: external.           *)
SpuriousWakeup ==
    /\ alive /\ worker = "asleep"
    /\ worker' = "test"
    /\ UNCHANGED <<mode, alive, main, controller, readerVars, pending, eval_batch, stop_, stopping>>

(* A violation in the batch: the worker itself stops the VM.               *)
WorkerEvaluates ==
    /\ alive /\ worker = "eval"
    /\ IF evaluate_batch([i \in DOMAIN eval_batch |-> eval_batch[i].rec]) > 0
       THEN worker' = "kill" /\ Goto(WorkerThread, "enter")
       ELSE worker' = "loop" /\ UNCHANGED stopping
    /\ eval_batch' = <<>>
    /\ UNCHANGED <<mode, alive, main, controller, readerVars, pending, stop_>>

(* What CFRunLoopStop does to main: nothing unless it is in CFRunLoopRun.  *)
LoopStops(stops) ==
    /\ main' = IF main = "wait" THEN "cleanup" ELSE main
    /\ stopping' = IF main = "wait" THEN [stops EXCEPT ![MainThread] = "enter"] ELSE stops

(* Mutant: the run loop is not stopped.                                    *)
WorkerKilledSilent ==
    /\ At(WorkerThread, "returned")
    /\ worker' = "done"
    /\ Goto(WorkerThread, "out")
    /\ UNCHANGED <<mode, alive, main, controller, readerVars, pending, eval_batch, stop_>>

WorkerKilled ==
    /\ At(WorkerThread, "returned")
    /\ worker' = "done"
    /\ LoopStops([stopping EXCEPT ![WorkerThread] = "out"])
    /\ UNCHANGED <<mode, alive, controller, readerVars, pending, eval_batch, stop_>>

-----------------------------------------------------------------------------
(* main after CFRunLoopRun: stop the VM, then the destructors of the       *)
(* collector and of the VM controller, in this order.                      *)

(* SIGINT or SIGTERM; before CFRunLoopRun it has no effect.                *)
Signal ==
    /\ alive /\ main = "wait"
    /\ LoopStops(stopping)
    /\ UNCHANGED <<mode, alive, controller, readerVars, collector>>

Cleanup ==
    /\ main = "cleanup" /\ At(MainThread, "returned")
    /\ main' = "destroy"
    /\ Goto(MainThread, "out")
    /\ UNCHANGED <<mode, alive, controller, readerVars, collector>>

(* ~SyscallBatchCollector sets stop_ without mutex_.                       *)
DtorStop ==
    /\ alive /\ main = "destroy"
    /\ stop_' = TRUE
    /\ main' = "notify"
    /\ UNCHANGED <<mode, alive, controller, readerVars, pending, worker, eval_batch, stopping>>

DtorNotify ==
    /\ alive /\ main = "notify"
    /\ worker' = IF worker = "asleep" THEN "test" ELSE worker
    /\ main' = "join"
    /\ UNCHANGED <<mode, alive, controller, readerVars, pending, eval_batch, stop_, stopping>>

(* The worker is joined; ~VMControllerImpl calls stop.                     *)
DtorJoin ==
    /\ alive /\ main = "join" /\ worker = "done"
    /\ main' = "last"
    /\ Goto(MainThread, "enter")
    /\ UNCHANGED <<mode, alive, controller, readerVars, collector>>

(* main returns; with a joinable reader_thread its destructor terminates.  *)
Exit ==
    /\ main = "last" /\ At(MainThread, "returned")
    /\ alive' = FALSE
    /\ UNCHANGED <<mode, main, controller, readerVars, collector, stopping>>

Dead == ~alive /\ UNCHANGED vars

-----------------------------------------------------------------------------

ReaderStep == FastPath \/ Push \/ BufferEmpty \/ ReaderExits

WorkerStep ==
    WorkerLoop \/ WorkerTake \/ WorkerWait \/ WorkerBlocks \/ WorkerEvaluates \/ WorkerKilled

MainStep == Start \/ Cleanup \/ DtorStop \/ DtorNotify \/ DtorJoin \/ Exit

Next ==
    \/ MainStep \/ StartFails \/ StartCompletes \/ GuestConnects \/ Signal
    \/ Receive \/ ReaderStep \/ ConnectionClosed
    \/ WorkerStep \/ SpuriousWakeup
    \/ \E t \in Threads : Stop(t) \/ StopCompletes(t)
    \/ Dead

Spec == Init /\ [][Next]_vars

(* Threads that are not blocked run, a mutex that keeps being released is  *)
(* acquired, and the VM answers a stop request.  Nobody has to connect, to *)
(* send an event, to close or to signal.                                   *)
Fairness ==
    /\ WF_vars(ReaderStep) /\ SF_vars(Push) /\ WF_vars(WorkerStep) /\ WF_vars(MainStep)
    /\ \A t \in Threads : WF_vars(Stop(t)) /\ WF_vars(StopCompletes(t))

FairSpec == Spec /\ Fairness

-----------------------------------------------------------------------------
(* Properties                                                              *)

QueuedRecord == [rec : SyscallTraceRecord, live : BOOLEAN]

(* Type invariant of the daemon's threads and of what they share.          *)
TypeOK ==
    /\ mode \in {"mock", "vm"} /\ alive \in BOOLEAN
    /\ main \in {"start", "wait", "cleanup", "destroy", "notify", "join", "last"}
    /\ starting \in BOOLEAN /\ running \in BOOLEAN /\ vm \in BOOLEAN
    /\ stop_reader \in BOOLEAN /\ late \in BOOLEAN /\ stop_ \in BOOLEAN
    /\ reader \in {"none", "read", "buffer", "kill", "push", "exited", "joined"}
    /\ received \in 0 .. MaxEvents
    /\ event \in QueuedRecord \cup {NoEvent}
    /\ pending \in Seq(QueuedRecord) /\ eval_batch \in Seq(QueuedRecord)
    /\ worker \in {"loop", "test", "block", "asleep", "eval", "kill", "done"}
    /\ stopping \in [Threads -> {"out", "enter", "join", "call", "blocked", "vmstop",
                                 "spin", "finish", "returned"}]

(* A full batch never waits for a sleeping worker: add_event notifies in   *)
(* the critical section in which it queues the record, and the worker      *)
(* keeps mutex_ from its test until it is blocked.                         *)
BatchNotStranded == Len(pending) >= Batch => worker \notin {"block", "asleep"}

(* The fast path of add_event and the rule compiled for the batches agree: *)
(* a record that was queued while the VM was running is no violation, so   *)
(* that a batch is a violation only through records of another time.       *)
FastPathMatchesPolicy ==
    \A q \in {pending[i] : i \in DOMAIN pending} \cup {eval_batch[i] : i \in DOMAIN eval_batch} :
      q.live => ~PolicyRule(q.rec)

(* Once running has gone from true to false the reader is gone: no thread  *)
(* is left that could call add_event of the collector main destroys next,  *)
(* however many threads are in stop at once.  The exception is a guest     *)
(* that connects after a stop has passed its joins.                        *)
StopSilencesReader ==
    [][running /\ ~running' /\ ~late' => reader' \in {"none", "joined"}]_vars

(* A violation seen while the VM runs stops the VM, or ends the process    *)
(* and the VM with it, also when several threads stop it at once.          *)
ViolationStopsVM == (alive /\ reader = "kill") ~> (~running \/ ~alive)

(* A violation found in a batch ends the daemon: the worker stops the VM   *)
(* while main runs the blocks of its queue, and only then the run loop;    *)
(* unless a signal takes main out of the run loop first.                   *)
BatchKillEnds ==
    (worker = "kill" /\ main = "wait") ~> (~alive \/ (worker = "kill" /\ main # "wait"))

(* src/host/vm_controller.mm:248 says that stop spins "while running the   *)
(* main run loop to allow GCD block to execute": a thread does not spin    *)
(* for ever.                                                               *)
SpinEnds == \A t \in Threads : stopping[t] = "spin" ~> (stopping[t] # "spin" \/ ~alive)

-----------------------------------------------------------------------------
(* The inductive invariant of the proofs                                   *)

(* The process tree maps processes to flags.                               *)
TreeInv == tree \in [DOMAIN tree -> BOOLEAN]

(* add_event holds a record while it has one to queue, and it is no        *)
(* violation that was seen while the VM was running.                       *)
PushInv ==
    reader = "push" => event \in QueuedRecord /\ (event.live => ~PolicyRule(event.rec))

(* Before start nobody reads, stops or has anything to evaluate.           *)
StartInv ==
    main = "start" =>
      /\ reader = "none" /\ pending = <<>> /\ ~stop_ /\ ~running /\ ~starting
      /\ worker \in {"loop", "test", "block", "asleep"}
      /\ \A t \in Threads : stopping[t] = "out"

(* The completion handler of the start request is the one that says that   *)
(* the VM is running.                                                      *)
StartingInv == starting => ~running

(* A thread past the joins of stop has no reader to fear but a late one.   *)
JoinInv ==
    \A t \in Threads : PassedJoins(t) => late \/ reader \in {"none", "joined"}

QueueInv == TreeInv /\ PushInv /\ BatchNotStranded /\ FastPathMatchesPolicy

StopInv == StartInv /\ StartingInv /\ JoinInv

(* All of these hold together, whatever the threads of the daemon do.      *)
IInv == TypeOK /\ QueueInv /\ StopInv

=============================================================================
