------------------------ MODULE SandboxDaemonProofs ------------------------
(***************************************************************************)
(* Proofs about SandboxDaemon, for any events, any number of them and any  *)
(* size of a batch, and so for any number of threads inside stop.          *)
(***************************************************************************)
EXTENDS SandboxDaemon, SequenceTheorems, TLAPS

(* The daemon starts with nothing queued and nobody in stop.               *)
LEMMA InitInv == Init => IInv
<1> SUFFICES ASSUME Init PROVE IInv
  OBVIOUS
<1>1. TypeOK
  <2>1. pending \in Seq(QueuedRecord) /\ eval_batch \in Seq(QueuedRecord)
    BY EmptySeq DEF Init
  <2>2. received \in 0 .. MaxEvents
    BY DaemonAssumption DEF Init
  <2>3. QED
    BY <2>1, <2>2 DEF Init, TypeOK
<1>2. QueueInv
  <2>1. TreeInv
    BY DEF Init, TreeInv, EmptyTree
  <2>2. PushInv
    BY DEF Init, PushInv
  <2>3. Len(pending) = 0 /\ DOMAIN pending = {} /\ DOMAIN eval_batch = {}
    BY DEF Init
  <2>4. BatchNotStranded /\ FastPathMatchesPolicy
    BY <2>3, DaemonAssumption DEF BatchNotStranded, FastPathMatchesPolicy
  <2>5. QED
    BY <2>1, <2>2, <2>4 DEF QueueInv
<1>3. StopInv
  BY DEF Init, StopInv, StartInv, StartingInv, JoinInv, PassedJoins
<1>4. QED
  BY <1>1, <1>2, <1>3 DEF IInv

-----------------------------------------------------------------------------
(* Records and the queue                                                   *)

(* Any event of the guest or of the generator becomes a trace record.      *)
LEMMA RecordType ==
  ASSUME TreeInv, NEW e \in Events \cup MockEvents
  PROVE  process_event(tree, e) \in SyscallTraceRecord
<1>1. \A pid : pid \in DOMAIN tree => tree[pid] \in BOOLEAN
  BY DEF TreeInv
<1>2. \A pid : is_preinstall_process(tree, pid) \in BOOLEAN
  BY <1>1 DEF is_preinstall_process
<1>3. IsUntrustedScript(tree, e) \in BOOLEAN
  BY <1>2 DEF IsUntrustedScript
<1>4. e.event_type \in EventTypes
  BY DaemonAssumption
<1>5. process_event(tree, e).is_preinstall \in BOOLEAN
  BY <1>1, <1>2, <1>3 DEF process_event
<1>6. QED
  BY <1>4, <1>5 DEF process_event, SyscallTraceRecord

(* TreeAfter keeps the tree a function to flags.                           *)
LEMMA TreeType ==
  ASSUME TreeInv, NEW e, tree' = TreeAfter(tree, e)
  PROVE  TreeInv'
<1>1. \A pid : pid \in DOMAIN tree => tree[pid] \in BOOLEAN
  BY DEF TreeInv
<1>2. IsUntrustedScript(tree, e) \in BOOLEAN
  BY <1>1 DEF IsUntrustedScript, is_preinstall_process
<1>3. CASE e.event_type = "EXEC"
  <2>1. tree' = [pid \in DOMAIN tree \cup {e.pid} |->
                   IF pid = e.pid THEN IsUntrustedScript(tree, e) ELSE tree[pid]]
    BY <1>3 DEF TreeAfter
  <2>2. QED
    BY <1>1, <1>2, <2>1 DEF TreeInv
<1>4. CASE e.event_type # "EXEC"
  BY <1>4 DEF TreeAfter, TreeInv
<1>5. QED
  BY <1>3, <1>4

(* is_violation of the fast path and the compiled rule are one predicate.  *)
LEMMA SameRule == \A rec : is_violation(rec) <=> PolicyRule(rec)
BY DEF is_violation, PolicyRule

(* Receive makes a record that may be queued or that stops the VM.         *)
LEMMA Received ==
  ASSUME TypeOK, TreeInv, Receive
  PROVE  event' \in QueuedRecord /\ TreeInv' /\ PushInv'
<1>1. PICK e \in IF mode = "mock" THEN MockEvents ELSE Events :
        /\ event' = [rec |-> process_event(tree, e), live |-> running]
        /\ tree' = TreeAfter(tree, e)
  BY DEF Receive
<1>2. process_event(tree, e) \in SyscallTraceRecord
  BY RecordType
<1>3. event' \in QueuedRecord /\ event'.live = running
  BY <1>1, <1>2 DEF QueuedRecord, TypeOK
<1>4. TreeInv'
  BY <1>1, TreeType
<1>5. reader' = IF is_violation(event'.rec) /\ running THEN "kill" ELSE "push"
  BY DEF Receive
<1>6. PushInv'
  BY <1>3, <1>5, SameRule DEF PushInv
<1>7. QED
  BY <1>3, <1>4, <1>6

(* What WorkerTake moves from the queue to the batch.                      *)
LEMMA Taken ==
  ASSUME TypeOK, WorkerTake, ~stop_
  PROVE  /\ eval_batch' \in Seq(QueuedRecord) /\ pending' \in Seq(QueuedRecord)
         /\ \A i \in DOMAIN eval_batch' : \E k \in DOMAIN pending : eval_batch'[i] = pending[k]
         /\ \A i \in DOMAIN pending' : \E k \in DOMAIN pending : pending'[i] = pending[k]
<1> DEFINE n == Len(pending)
<1>1. /\ Batch \in Nat \ {0} /\ n \in Nat /\ Batch <= n /\ DOMAIN pending = 1 .. n
      /\ eval_batch' = SubSeq(pending, 1, Batch)
      /\ pending' = SubSeq(pending, Batch + 1, n)
  BY DaemonAssumption DEF WorkerTake, TypeOK
<1>2. \A i \in 1 .. n : pending[i] \in QueuedRecord
  BY <1>1 DEF TypeOK
<1>3. /\ eval_batch' \in Seq(QueuedRecord)
      /\ Len(eval_batch') = Batch
      /\ \A i \in 1 .. Batch : eval_batch'[i] = pending[i]
  <2>1. \A i \in 1 .. Batch : pending[i] \in QueuedRecord
    BY <1>1, <1>2
  <2>2. QED
    BY <1>1, <2>1, SubSeqProperties
<1>4. /\ pending' \in Seq(QueuedRecord)
      /\ Len(pending') = n - Batch
      /\ \A i \in 1 .. (n - Batch) : pending'[i] = pending[Batch + i]
  <2>1. \A i \in (Batch + 1) .. n : pending[i] \in QueuedRecord
    BY <1>1, <1>2
  <2> HIDE DEF n
  <2>2. /\ SubSeq(pending, Batch + 1, n) \in Seq(QueuedRecord)
        /\ Len(SubSeq(pending, Batch + 1, n))
             = IF Batch + 1 <= n THEN n - (Batch + 1) + 1 ELSE 0
        /\ \A i \in 1 .. (n - (Batch + 1) + 1) :
             SubSeq(pending, Batch + 1, n)[i] = pending[Batch + 1 + i - 1]
    BY <1>1, <2>1, SubSeqProperties
  <2>3. QED
    BY <1>1, <2>2
<1> HIDE DEF n
<1>5. DOMAIN eval_batch' = 1 .. Batch /\ DOMAIN pending' = 1 .. (n - Batch)
  BY <1>1, <1>3, <1>4
<1>6. \A i \in 1 .. Batch : i \in 1 .. n
  BY <1>1
<1>7. \A i \in 1 .. (n - Batch) : Batch + i \in 1 .. n
  BY <1>1
<1>8. QED
  BY <1>1, <1>3, <1>4, <1>5, <1>6, <1>7

-----------------------------------------------------------------------------
(* Types                                                                   *)

(* The two halves of TypeOK: what is a flag, and the rest.                 *)
Flags ==
    /\ mode \in {"mock", "vm"} /\ alive \in BOOLEAN
    /\ starting \in BOOLEAN /\ running \in BOOLEAN /\ vm \in BOOLEAN
    /\ stop_reader \in BOOLEAN /\ late \in BOOLEAN /\ stop_ \in BOOLEAN

Places ==
    /\ main \in {"start", "wait", "cleanup", "destroy", "notify", "join", "last"}
    /\ reader \in {"none", "read", "buffer", "kill", "push", "exited", "joined"}
    /\ received \in 0 .. MaxEvents
    /\ event \in QueuedRecord \cup {NoEvent}
    /\ pending \in Seq(QueuedRecord) /\ eval_batch \in Seq(QueuedRecord)
    /\ worker \in {"loop", "test", "block", "asleep", "eval", "kill", "done"}
    /\ stopping \in [Threads -> {"out", "enter", "join", "call", "blocked", "vmstop",
                                 "spin", "finish", "returned"}]

(* Every step keeps the flags Boolean.                                     *)
LEMMA FlagsStep ==
  ASSUME Flags, [Next]_vars
  PROVE  Flags'
<1>1. CASE Start \/ StartCompletes \/ GuestConnects \/ Exit \/ DtorStop
  BY <1>1, Zenon DEF Start, StartCompletes, GuestConnects, Exit, DtorStop, Flags, controller,
                     collector
<1>2. ASSUME NEW t \in Threads, StopEnter(t) \/ StopJoin(t) \/ StopVm(t) \/ StopFinish(t)
      PROVE  Flags'
  BY <1>2, ZenonT(30) DEF StopEnter, StopJoin, StopVm, StopFinish, Flags, controller, collector
<1>3. CASE UNCHANGED <<mode, alive, controller, stop_>>
  BY <1>3, Zenon DEF Flags, controller
<1>4. CASE \/ StartFails \/ Signal \/ Cleanup \/ DtorNotify \/ DtorJoin
           \/ Receive \/ ReaderStep \/ ConnectionClosed \/ WorkerStep \/ SpuriousWakeup
  BY <1>3, <1>4 DEF StartFails, Signal, Cleanup, DtorNotify, DtorJoin, Receive, ReaderStep,
                    FastPath, Push, BufferEmpty, ReaderExits, ConnectionClosed, WorkerStep,
                    WorkerLoop, WorkerTake, WorkerWait, WorkerBlocks, WorkerEvaluates,
                    WorkerKilled, SpuriousWakeup, collector
<1>5. ASSUME NEW t \in Threads, StopJoinable(t) \/ StopJoined(t) \/ StopCompletes(t)
      PROVE  Flags'
  BY <1>3, <1>5 DEF StopJoinable, StopJoined, StopCompletes, collector
<1>6. CASE UNCHANGED vars
  BY <1>3, <1>6 DEF vars, collector
<1>7. QED
  BY <1>1, <1>2, <1>4, <1>5, <1>6 DEF Next, MainStep, Stop, Dead

(* Every step keeps the places of the threads and the records.             *)
LEMMA PlacesStep ==
  ASSUME TypeOK, QueueInv, Places, [Next]_vars
  PROVE  Places'
<1>1. CASE MainStep \/ StartFails \/ StartCompletes \/ GuestConnects \/ Signal
  BY <1>1 DEF MainStep, Start, StartFails, StartCompletes, GuestConnects, Signal, Cleanup,
              DtorStop, DtorNotify, DtorJoin, Exit, LoopStops, Goto, Places, readerVars,
              collector
<1>2. CASE Receive
  <2>1. event' \in QueuedRecord
    BY <1>2, Received DEF QueueInv
  <2>2. received' \in 0 .. MaxEvents
    BY <1>2, DaemonAssumption DEF Receive, Places
  <2>3. QED
    BY <1>2, <2>1, <2>2 DEF Receive, Places, collector
<1>3. CASE FastPath \/ BufferEmpty \/ ReaderExits \/ ConnectionClosed
  BY <1>3 DEF FastPath, BufferEmpty, ReaderExits, ConnectionClosed, Places, collector
<1>4. CASE Push
  <2>1. pending' \in Seq(QueuedRecord)
    BY <1>4, AppendProperties DEF Push, Places, QueueInv, PushInv
  <2>2. QED
    BY <1>4, <2>1 DEF Push, Places
<1>5. CASE WorkerTake
  <2>1. eval_batch' \in Seq(QueuedRecord) /\ pending' \in Seq(QueuedRecord)
    BY <1>5, Taken DEF WorkerTake, Places
  <2>2. QED
    BY <1>5, <2>1 DEF WorkerTake, Places, readerVars
<1>6. CASE WorkerLoop \/ WorkerWait \/ WorkerBlocks \/ SpuriousWakeup \/ WorkerKilled
  BY <1>6 DEF WorkerLoop, WorkerWait, WorkerBlocks, SpuriousWakeup, WorkerKilled, LoopStops,
              Places, readerVars
<1>7. CASE WorkerEvaluates
  <2>1. eval_batch' \in Seq(QueuedRecord)
    BY <1>7, EmptySeq DEF WorkerEvaluates
  <2>2. QED
    BY <1>7, <2>1 DEF WorkerEvaluates, Goto, Places, readerVars
<1>8. ASSUME NEW t \in Threads, Stop(t) \/ StopCompletes(t)
      PROVE  Places'
  BY <1>8 DEF Stop, StopEnter, StopJoinable, StopJoin, StopJoined, StopVm, StopFinish,
              StopCompletes, Goto, Places, readerVars, collector
<1>9. CASE UNCHANGED vars
  BY <1>9 DEF vars, Places, readerVars, collector
<1>10. QED
  BY <1>1, <1>2, <1>3, <1>4, <1>5, <1>6, <1>7, <1>8, <1>9
     DEF Next, ReaderStep, WorkerStep, Dead

(* Every step of every thread keeps the variables in their types.          *)
LEMMA TypeStep ==
  ASSUME IInv, [Next]_vars
  PROVE  TypeOK'
<1>1. TypeOK <=> Flags /\ Places
  BY Zenon DEF TypeOK, Flags, Places
<1>2. TypeOK' <=> Flags' /\ Places'
  BY Zenon DEF TypeOK, Flags, Places
<1>3. QED
  BY <1>1, <1>2, FlagsStep, PlacesStep DEF IInv

-----------------------------------------------------------------------------
(* The queue of records                                                    *)

(* Only add_event and the worker's taking touch the tree and the queue.    *)
LEMMA QueueFrame ==
  ASSUME QueueInv, UNCHANGED <<reader, event, tree, pending, worker, eval_batch>>
  PROVE  QueueInv'
BY DEF QueueInv, TreeInv, PushInv, BatchNotStranded, FastPathMatchesPolicy

(* The records that are queued or in a batch afterwards were so before.    *)
LEMMA FastPathFrame ==
  ASSUME FastPathMatchesPolicy,
         \A i \in DOMAIN pending' : \E k \in DOMAIN pending : pending'[i] = pending[k],
         \/ DOMAIN eval_batch' = {}
         \/ eval_batch' = eval_batch
         \/ \A i \in DOMAIN eval_batch' : \E k \in DOMAIN pending : eval_batch'[i] = pending[k]
  PROVE  FastPathMatchesPolicy'
<1> SUFFICES ASSUME NEW q \in {pending'[i] : i \in DOMAIN pending'} \cup
                              {eval_batch'[i] : i \in DOMAIN eval_batch'}
             PROVE  q \in {pending[i] : i \in DOMAIN pending} \cup
                          {eval_batch[i] : i \in DOMAIN eval_batch}
  BY DEF FastPathMatchesPolicy
<1>1. QED
  OBVIOUS

(* Every step keeps the queue free of stranded batches and of violations   *)
(* that were seen while the VM was running.                                *)
LEMMA QueueStep ==
  ASSUME IInv, [Next]_vars
  PROVE  QueueInv'
<1> USE DEF IInv
<1>1. CASE Receive
  <2>1. TreeInv' /\ PushInv'
    BY <1>1, Received DEF QueueInv
  <2>2. UNCHANGED <<pending, worker, eval_batch>>
    BY <1>1 DEF Receive, collector
  <2>3. BatchNotStranded' /\ FastPathMatchesPolicy'
    BY <2>2 DEF QueueInv, BatchNotStranded, FastPathMatchesPolicy
  <2>4. QED
    BY <2>1, <2>3 DEF QueueInv
<1>2. CASE Push
  <2>1. /\ reader' # "push" /\ tree' = tree /\ eval_batch' = eval_batch
        /\ pending' = Append(pending, event)
        /\ event \in QueuedRecord /\ (event.live => ~PolicyRule(event.rec))
    BY <1>2 DEF Push, QueueInv, PushInv
  <2>2. BatchNotStranded'
    BY <1>2, <2>1 DEF Push, QueueInv, BatchNotStranded, TypeOK
  <2>3. /\ DOMAIN pending' = 1 .. (Len(pending) + 1)
        /\ \A i \in 1 .. Len(pending) : pending'[i] = pending[i]
        /\ pending'[Len(pending) + 1] = event
        /\ DOMAIN pending = 1 .. Len(pending) /\ Len(pending) \in Nat
    BY <2>1 DEF TypeOK
  <2>4. FastPathMatchesPolicy'
    <3> SUFFICES ASSUME NEW q \in {pending'[i] : i \in DOMAIN pending'} \cup
                                  {eval_batch'[i] : i \in DOMAIN eval_batch'},
                        q # event
                 PROVE  q \in {pending[i] : i \in DOMAIN pending} \cup
                              {eval_batch[i] : i \in DOMAIN eval_batch}
      BY <2>1 DEF QueueInv, FastPathMatchesPolicy
    <3>1. \A i \in DOMAIN pending' : pending'[i] = event \/ i \in DOMAIN pending
      BY <2>3
    <3>2. QED
      BY <2>1, <2>3, <3>1
  <2>5. QED
    BY <2>1, <2>2, <2>4 DEF QueueInv, TreeInv, PushInv
<1>3. CASE WorkerTake
  <2>1. UNCHANGED <<reader, event, tree>>
    BY <1>3 DEF WorkerTake, readerVars
  <2>2. BatchNotStranded'
    BY <1>3 DEF WorkerTake, BatchNotStranded
  <2>3. CASE stop_
    BY <1>3, <2>1, <2>2, <2>3 DEF WorkerTake, QueueInv, TreeInv, PushInv, FastPathMatchesPolicy
  <2>4. CASE ~stop_
    <3>1. FastPathMatchesPolicy'
      BY <1>3, <2>4, Taken, FastPathFrame DEF QueueInv
    <3>2. QED
      BY <2>1, <2>2, <3>1 DEF QueueInv, TreeInv, PushInv
  <2>5. QED
    BY <2>3, <2>4
<1>4. CASE WorkerEvaluates
  <2>1. UNCHANGED <<reader, event, tree, pending>> /\ eval_batch' = <<>>
    BY <1>4 DEF WorkerEvaluates, readerVars
  <2>2. BatchNotStranded'
    BY <1>4 DEF WorkerEvaluates, BatchNotStranded
  <2>3. DOMAIN eval_batch' = {}
    BY <2>1
  <2>4. FastPathMatchesPolicy'
    BY <2>1, <2>3, FastPathFrame DEF QueueInv
  <2>5. QED
    BY <2>1, <2>2, <2>4 DEF QueueInv, TreeInv, PushInv
<1>5. CASE WorkerLoop \/ WorkerWait \/ WorkerBlocks \/ SpuriousWakeup \/ WorkerKilled \/ DtorNotify
  <2>1. UNCHANGED <<reader, event, tree, pending, eval_batch>>
    BY <1>5 DEF WorkerLoop, WorkerWait, WorkerBlocks, SpuriousWakeup, WorkerKilled, DtorNotify,
                readerVars
  <2>2. BatchNotStranded'
    BY <1>5, DaemonAssumption
       DEF WorkerLoop, WorkerWait, WorkerBlocks, SpuriousWakeup, WorkerKilled, DtorNotify,
           QueueInv, BatchNotStranded, TypeOK
  <2>3. QED
    BY <2>1, <2>2 DEF QueueInv, TreeInv, PushInv, FastPathMatchesPolicy
<1>6. CASE UNCHANGED <<tree, pending, worker, eval_batch>> /\ reader' # "push"
  BY <1>6 DEF QueueInv, TreeInv, PushInv, BatchNotStranded, FastPathMatchesPolicy
<1>7. CASE UNCHANGED <<reader, event, tree, pending, worker, eval_batch>>
  BY <1>7, QueueFrame
<1>8. CASE Start \/ GuestConnects \/ FastPath \/ BufferEmpty \/ ReaderExits \/ ConnectionClosed
  <2>1. UNCHANGED <<tree, pending, worker, eval_batch>>
    BY <1>8 DEF Start, GuestConnects, FastPath, BufferEmpty, ReaderExits, ConnectionClosed,
                collector
  <2>2. reader' # "push"
    BY <1>8 DEF Start, GuestConnects, FastPath, BufferEmpty, ReaderExits, ConnectionClosed,
                StopInv, StartInv
  <2>3. QED
    BY <1>6, <2>1, <2>2
<1>9. CASE StartFails \/ StartCompletes \/ Signal \/ Cleanup \/ DtorStop \/ DtorJoin \/ Exit
  BY <1>7, <1>9 DEF StartFails, StartCompletes, Signal, Cleanup, DtorStop, DtorJoin, Exit,
                    readerVars, collector
<1>10. ASSUME NEW t \in Threads, Stop(t) \/ StopCompletes(t)
       PROVE  QueueInv'
  <2>1. CASE StopJoined(t)
    BY <1>6, <2>1 DEF StopJoined, collector
  <2>2. CASE ~StopJoined(t)
    BY <1>7, <1>10, <2>2 DEF Stop, StopEnter, StopJoinable, StopJoin, StopVm, StopFinish,
                             StopCompletes, readerVars, collector
  <2>3. QED
    BY <2>1, <2>2
<1>11. CASE UNCHANGED vars
  BY <1>7, <1>11 DEF vars, readerVars, collector
<1>12. QED
  BY <1>1, <1>2, <1>3, <1>4, <1>5, <1>8, <1>9, <1>10, <1>11
     DEF Next, MainStep, ReaderStep, WorkerStep, Dead

-----------------------------------------------------------------------------
(* Starting and stopping                                                   *)

(* What StartInv says of the threads follows from a step that is not       *)
(* main's own: nobody has anything to do before start.                     *)
LEMMA StartStep ==
  ASSUME IInv, [Next]_vars
  PROVE  StartInv'
<1> SUFFICES ASSUME main' = "start" PROVE StartInv'
  BY Zenon DEF StartInv
<1> USE DEF IInv
<1>1. main = "start"
  BY DEF Next, MainStep, Start, StartFails, StartCompletes, GuestConnects, Signal, Cleanup,
         DtorStop, DtorNotify, DtorJoin, Exit, LoopStops, Receive, ReaderStep, FastPath, Push,
         BufferEmpty, ReaderExits, ConnectionClosed, WorkerStep, WorkerLoop, WorkerTake,
         WorkerWait, WorkerBlocks, WorkerEvaluates, WorkerKilled, SpuriousWakeup, Stop,
         StopEnter, StopJoinable, StopJoin, StopJoined, StopVm, StopFinish, StopCompletes,
         Dead, vars
<1>2. /\ reader = "none" /\ pending = <<>> /\ ~stop_ /\ ~running /\ ~starting
      /\ worker \in {"loop", "test", "block", "asleep"}
      /\ \A t \in Threads : stopping[t] = "out"
  BY <1>1 DEF StopInv, StartInv
<1>3. Len(pending) < Batch
  BY <1>2, DaemonAssumption
<1>4. stopping[MainThread] = "out" /\ stopping[WorkerThread] = "out"
  BY <1>2 DEF Threads
<1>5. CASE WorkerLoop \/ WorkerWait \/ WorkerBlocks \/ SpuriousWakeup
  BY <1>2, <1>5 DEF WorkerLoop, WorkerWait, WorkerBlocks, SpuriousWakeup, StartInv, controller,
                    readerVars
<1>6. CASE UNCHANGED vars
  BY <1>2, <1>6 DEF vars, StartInv, controller, readerVars, collector
<1>7. ~(MainStep \/ StartFails \/ StartCompletes \/ GuestConnects \/ Signal)
  BY <1>1, <1>4 DEF MainStep, Start, StartFails, StartCompletes, GuestConnects, Pumping, Signal,
                    Cleanup, DtorStop, DtorNotify, DtorJoin, Exit
<1>8. ~(Receive \/ ReaderStep \/ ConnectionClosed)
  BY <1>2 DEF Receive, ReaderStep, FastPath, Push, BufferEmpty, ReaderExits, ConnectionClosed
<1>9. ~(WorkerTake \/ WorkerEvaluates \/ WorkerKilled)
  BY <1>2, <1>3, <1>4, DaemonAssumption DEF WorkerTake, WorkerEvaluates, WorkerKilled, At
<1>10. \A t \in Threads : ~(Stop(t) \/ StopCompletes(t))
  BY <1>2 DEF Stop, StopEnter, StopJoinable, StopJoin, StopJoined, StopVm, StopFinish,
              StopCompletes, At
<1>11. QED
  BY <1>5, <1>6, <1>7, <1>8, <1>9, <1>10 DEF Next, WorkerStep, Dead

(* A start request in progress has not made the VM running.                *)
LEMMA StartingStep ==
  ASSUME IInv, [Next]_vars
  PROVE  StartingInv'
<1> USE DEF IInv, StopInv
<1>1. CASE Start
  BY <1>1 DEF Start, StartInv, StartingInv
<1>2. CASE StartCompletes
  BY <1>2 DEF StartCompletes, StartingInv
<1>3. ASSUME NEW t \in Threads, StopVm(t) \/ StopFinish(t)
      PROVE  StartingInv'
  BY <1>3 DEF StopVm, StopFinish, StartingInv
<1>4. CASE UNCHANGED <<starting, running>>
  BY <1>4 DEF StartingInv
<1>5. CASE \/ StartFails \/ GuestConnects \/ Signal \/ Cleanup \/ DtorStop \/ DtorNotify
           \/ DtorJoin \/ Exit \/ Receive \/ ReaderStep \/ ConnectionClosed
  BY <1>4, <1>5 DEF StartFails, GuestConnects, Signal, Cleanup, DtorStop, DtorNotify, DtorJoin,
                    Exit, Receive, ReaderStep, FastPath, Push, BufferEmpty, ReaderExits,
                    ConnectionClosed, controller
<1>6. CASE WorkerStep \/ SpuriousWakeup
  BY <1>4, <1>6 DEF WorkerStep, WorkerLoop, WorkerTake, WorkerWait, WorkerBlocks,
                    WorkerEvaluates, WorkerKilled, SpuriousWakeup, controller
<1>7. ASSUME NEW t \in Threads,
             StopEnter(t) \/ StopJoinable(t) \/ StopJoin(t) \/ StopJoined(t) \/ StopCompletes(t)
      PROVE  StartingInv'
  BY <1>4, <1>7 DEF StopEnter, StopJoinable, StopJoin, StopJoined, StopCompletes, controller
<1>8. CASE UNCHANGED vars
  BY <1>4, <1>8 DEF vars, controller
<1>9. QED
  BY <1>1, <1>2, <1>3, <1>5, <1>6, <1>7, <1>8 DEF Next, MainStep, Stop, Dead

(* Every step leaves the threads past their joins without a reader, or     *)
(* with one that is late.                                                  *)
LEMMA JoinStep ==
  ASSUME IInv, [Next]_vars
  PROVE  JoinInv'
<1> USE DEF IInv, StopInv
<1>1. CASE Start
  <2>1. \A t \in Threads : stopping'[t] = "out"
    BY <1>1 DEF Start, StartInv
  <2>2. QED
    BY <2>1 DEF JoinInv, PassedJoins
<1>2. CASE GuestConnects
  BY <1>2 DEF GuestConnects, JoinInv, PassedJoins
<1>3. CASE Receive \/ Push \/ BufferEmpty \/ ReaderExits \/ ConnectionClosed
  <2>1. UNCHANGED <<stopping, late>> /\ reader \notin {"none", "joined"}
    BY <1>3 DEF Receive, Push, BufferEmpty, ReaderExits, ConnectionClosed, controller
  <2>2. QED
    BY <2>1 DEF JoinInv, PassedJoins
<1>4. ASSUME UNCHANGED <<reader, late>>,
             \A t \in Threads : stopping'[t] = stopping[t] \/ ~PassedJoins(t)'
      PROVE  JoinInv'
  BY <1>4 DEF JoinInv, PassedJoins
<1>5. CASE FastPath
  <2>1. late' = late /\ reader \notin {"none", "joined"}
    BY <1>5 DEF FastPath, controller
  <2>2. \A t \in Threads : stopping'[t] = stopping[t] \/ stopping'[t] = "enter"
    BY <1>5 DEF FastPath, TypeOK
  <2>3. QED
    BY <2>1, <2>2 DEF JoinInv, PassedJoins
<1>6. CASE \/ StartFails \/ StartCompletes \/ Signal \/ Cleanup \/ DtorStop \/ DtorNotify
           \/ DtorJoin \/ Exit
  <2>1. UNCHANGED <<reader, late>>
    BY <1>6 DEF StartFails, StartCompletes, Signal, Cleanup, DtorStop, DtorNotify, DtorJoin,
                Exit, controller, readerVars
  <2>2. \A t \in Threads : stopping'[t] = stopping[t] \/ stopping'[t] \in {"enter", "out"}
    BY <1>6 DEF StartFails, StartCompletes, Signal, Cleanup, DtorStop, DtorNotify, DtorJoin,
                Exit, LoopStops, Goto, TypeOK
  <2>3. QED
    BY <1>4, <2>1, <2>2 DEF PassedJoins
<1>7. CASE WorkerStep \/ SpuriousWakeup
  <2>1. UNCHANGED <<reader, late>>
    BY <1>7 DEF WorkerStep, WorkerLoop, WorkerTake, WorkerWait, WorkerBlocks, WorkerEvaluates,
                WorkerKilled, SpuriousWakeup, controller, readerVars
  <2>2. \A t \in Threads : stopping'[t] = stopping[t] \/ stopping'[t] \in {"enter", "out"}
    BY <1>7 DEF WorkerStep, WorkerLoop, WorkerTake, WorkerWait, WorkerBlocks, WorkerEvaluates,
                WorkerKilled, SpuriousWakeup, LoopStops, Goto, TypeOK
  <2>3. QED
    BY <1>4, <2>1, <2>2 DEF PassedJoins
<1>8. ASSUME NEW t \in Threads, StopEnter(t) \/ StopJoin(t)
      PROVE  JoinInv'
  <2>1. UNCHANGED <<reader, late>>
    BY <1>8 DEF StopEnter, StopJoin, controller, readerVars
  <2>2. \A u \in Threads :
          stopping'[u] = stopping[u] \/ stopping'[u] \in {"join", "returned", "blocked"}
    BY <1>8 DEF StopEnter, StopJoin, Goto, TypeOK
  <2>3. QED
    BY <1>4, <2>1, <2>2 DEF PassedJoins
<1>9. ASSUME NEW t \in Threads, StopJoinable(t)
      PROVE  JoinInv'
  <2>1. UNCHANGED <<reader, late>>
    BY <1>9 DEF StopJoinable, controller, readerVars
  <2>2. CASE Joinable
    BY <1>4, <1>9, <2>1, <2>2 DEF StopJoinable, Goto, PassedJoins, TypeOK
  <2>3. CASE ~Joinable
    BY <2>1, <2>3 DEF Joinable, JoinInv
  <2>4. QED
    BY <2>2, <2>3
<1>10. ASSUME NEW t \in Threads, StopJoined(t)
       PROVE  JoinInv'
  BY <1>10 DEF StopJoined, JoinInv
<1>11. ASSUME NEW t \in Threads, StopVm(t) \/ StopCompletes(t) \/ StopFinish(t)
       PROVE  JoinInv'
  <2>1. UNCHANGED <<reader, late>> /\ PassedJoins(t)
    BY <1>11 DEF StopVm, StopCompletes, StopFinish, At, PassedJoins, controller, readerVars
  <2>2. late \/ reader \in {"none", "joined"}
    BY <2>1 DEF JoinInv
  <2>3. QED
    BY <2>1, <2>2 DEF JoinInv
<1>12. CASE UNCHANGED vars
  BY <1>4, <1>12 DEF vars, controller, readerVars
<1>13. QED
  BY <1>1, <1>2, <1>3, <1>5, <1>6, <1>7, <1>8, <1>9, <1>10, <1>11, <1>12
     DEF Next, MainStep, ReaderStep, Stop, Dead

-----------------------------------------------------------------------------
(* Theorems                                                                *)

(* The inductive invariant holds in every reachable state of the daemon.   *)
THEOREM DaemonInvariant == Spec => []IInv
<1>1. IInv /\ [Next]_vars => IInv'
  BY TypeStep, QueueStep, StartStep, StartingStep, JoinStep DEF IInv, StopInv
<1>2. QED
  BY <1>1, InitInv, PTL DEF Spec

(* add_event's notification is never lost: a full batch does not wait for  *)
(* a sleeping worker, whatever the size of a batch.                        *)
THEOREM BatchesNotStranded == Spec => []BatchNotStranded
<1>1. IInv => BatchNotStranded
  BY DEF IInv, QueueInv
<1>2. QED
  BY <1>1, DaemonInvariant, PTL

(* No record that was queued while the VM was running violates the rule    *)
(* compiled for the batches: the fast path has caught it before.           *)
THEOREM FastPathIsComplete == Spec => []FastPathMatchesPolicy
<1>1. IInv => FastPathMatchesPolicy
  BY DEF IInv, QueueInv
<1>2. QED
  BY <1>1, DaemonInvariant, PTL

(* VMController::stop sets running to false only when the reader is gone,  *)
(* however many threads are inside it; unless the guest connected late.    *)
THEOREM StopIsQuiet == Spec => StopSilencesReader
<1>1. ASSUME IInv, [Next]_vars, running, ~running', ~late'
      PROVE  reader' \in {"none", "joined"}
  <2> USE <1>1
  <2>1. ASSUME NEW t \in Threads, StopVm(t) \/ StopFinish(t)
        PROVE  reader' \in {"none", "joined"}
    <3>1. UNCHANGED <<reader, late>> /\ PassedJoins(t)
      BY <2>1 DEF StopVm, StopFinish, At, PassedJoins, readerVars
    <3>2. QED
      BY <3>1 DEF IInv, StopInv, JoinInv
  <2>2. ~StartCompletes /\ ~Start
    BY DEF IInv, StopInv, StartingInv, StartInv, StartCompletes, Start
  <2>3. ~(\/ StartFails \/ GuestConnects \/ Signal \/ Cleanup \/ DtorStop \/ DtorNotify
          \/ DtorJoin \/ Exit \/ Receive \/ ReaderStep \/ ConnectionClosed)
    BY DEF StartFails, GuestConnects, Signal, Cleanup, DtorStop, DtorNotify, DtorJoin, Exit,
           Receive, ReaderStep, FastPath, Push, BufferEmpty, ReaderExits, ConnectionClosed,
           controller
  <2>4. ~(WorkerStep \/ SpuriousWakeup)
    BY DEF WorkerStep, WorkerLoop, WorkerTake, WorkerWait, WorkerBlocks, WorkerEvaluates,
           WorkerKilled, SpuriousWakeup, controller
  <2>5. \A t \in Threads : ~(\/ StopEnter(t) \/ StopJoinable(t) \/ StopJoin(t) \/ StopJoined(t)
                             \/ StopCompletes(t))
    BY DEF StopEnter, StopJoinable, StopJoin, StopJoined, StopCompletes, controller
  <2>6. ~UNCHANGED vars
    BY DEF vars, controller
  <2>7. QED
    BY <2>1, <2>2, <2>3, <2>4, <2>5, <2>6 DEF Next, MainStep, Stop, Dead
<1>2. IInv /\ [Next]_vars => [running /\ ~running' /\ ~late' => reader' \in {"none", "joined"}]_vars
  BY <1>1
<1>3. QED
  BY <1>2, DaemonInvariant, PTL DEF Spec, StopSilencesReader

=============================================================================
