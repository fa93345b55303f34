------------------------------ MODULE Monitor ------------------------------
(***************************************************************************)
(* The dashboard of the sandbox (src/host/monitor.cpp) and what the threads*)
(* of the daemon publish for it (src/host/main.cpp): main when the VM is   *)
(* started and at shutdown, add_event for every event, the fast path and   *)
(* the worker when they stop the VM.                                       *)
(*                                                                         *)
(* The messages travel through an iceoryx queue, which is external: a loan *)
(* may fail, nobody may have subscribed yet, and a full queue drops its    *)
(* oldest message.  How the daemon's threads stop the VM is SandboxDaemon's*)
(* subject; here a stop is one step.                                       *)
(***************************************************************************)
EXTENDS PolicyEngine, Functions

CONSTANTS
    MaxFaults, \* bound: failed loans, late starts and signals to the monitor
    QueueSize, \* messages the subscriber's queue holds
    LogSize    \* entries of logs: 12 in the code

ASSUME MonitorAssumption == MaxFaults \in Nat /\ {QueueSize, LogSize} \subseteq Nat \ {0}

VARIABLES
    main,             \* where main of the daemon is
    running,          \* whether the VM runs: VMController's running, and why not
    tree,             \* process_tree_
    announce,         \* add_event has yet to publish that the VM is killed
    killing,          \* a detached thread is about to stop the VM
    suspect,          \* a violation has been among pending_records_
    worker,           \* where process_queue is: "watch" while it takes batches
    queue,            \* published and not yet taken
    lost,             \* history: a message did not arrive
    faults,           \* faults so far, for MaxFaults
    monitor,          \* where main of the monitor is
    model             \* its TelemetryModel

daemonVars == <<main, running, tree, announce, killing, suspect, worker>>
monitorVars == <<monitor, model>>
ipc == <<queue, lost, faults>>
pathVars == <<daemonVars, ipc, monitorVars>>

(* The event types the dashboard counts.  The agent sends no MTE_TRAP.     *)
CountedTypes == EventTypes \cup {"MTE_TRAP"}

EmptyModel ==
    [vm_running |-> FALSE, vm_status_desc |-> "Offline",
     totals |-> [type \in CountedTypes |-> 0], total_violations |-> 0,
     processes |-> [pid \in {} |-> <<>>], root_pids |-> <<>>, logs |-> <<>>]

MonitorInit ==
    /\ main = "start" /\ running = "starting" /\ tree = EmptyTree
    /\ announce = FALSE /\ killing = FALSE /\ suspect = FALSE
    /\ worker = "watch"
    /\ queue = <<>> /\ lost = FALSE /\ faults = 0
    /\ monitor = "off"
    /\ model = EmptyModel

-----------------------------------------------------------------------------
(* What the daemon publishes                                               *)

Fault == faults < MaxFaults /\ faults' = faults + 1

(* monitor_cb: loan, copy and publish.  A failed loan is ignored.          *)
Publish(message) ==
    \/ /\ monitor = "take"
       /\ LET full == Append(queue, message)
          IN queue' = IF Len(full) > QueueSize THEN Tail(full) ELSE full
       /\ lost' = (lost \/ Len(queue) = QueueSize)
       /\ UNCHANGED faults
    \/ /\ IF monitor = "take" THEN Fault ELSE UNCHANGED faults
       /\ lost' = TRUE
       /\ UNCHANGED queue

VmState(live, desc) == [event_type |-> "VM_STATE_CHANGE", vm_running |-> live, arg |-> desc]

MonitorEvent(event, rec) ==
    [event_type |-> event.event_type, pid |-> event.pid, ppid |-> event.ppid, rec |-> rec]

(* start has returned; only after this does main run the queue on which    *)
(* the VM's start handler and the guest's connection are served.           *)
Boot ==
    /\ main = "start"
    /\ main' = "wait"
    /\ Publish(VmState(TRUE, "Started"))
    /\ UNCHANGED <<running, tree, announce, killing, suspect, worker, monitorVars>>

(* The completion handler of the start request, with or without an error.  *)
StartHandler ==
    /\ main = "wait" /\ running = "starting"
    /\ running' \in {"running", "stopped"}
    /\ UNCHANGED <<main, tree, announce, killing, suspect, worker, ipc, monitorVars>>

(* add_event: the event is published in any case; after a violation of a   *)
(* running VM there is a second message, otherwise the record is queued.   *)
AddEvent(event) ==
    LET record == process_event(tree, event)
    IN /\ Publish(MonitorEvent(event, record))
       /\ tree' = TreeAfter(tree, event)
       /\ IF PolicyRule(record) /\ running = "running"
          THEN announce' = TRUE /\ UNCHANGED suspect
          ELSE announce' = announce /\ suspect' = (suspect \/ PolicyRule(record))
       /\ UNCHANGED <<main, running, killing, worker, monitorVars>>

(* Mutant: the VM is stopped without a word to the monitor.                *)
AnnounceNothing ==
    /\ announce
    /\ announce' = FALSE
    /\ killing' = TRUE
    /\ UNCHANGED <<main, running, tree, suspect, worker, ipc, monitorVars>>

Announce ==
    /\ announce
    /\ announce' = FALSE
    /\ Publish(VmState(FALSE, "Kill Switch"))
    /\ killing' = TRUE
    /\ UNCHANGED <<main, running, tree, suspect, worker, monitorVars>>

(* The detached thread has called stop.                                    *)
Killed ==
    /\ killing
    /\ killing' = FALSE
    /\ running' = "stopped"
    /\ UNCHANGED <<main, tree, announce, suspect, worker, ipc, monitorVars>>

(* The worker finds a violation in a batch, wherever main is by then: it   *)
(* publishes that, stops the VM if it runs, stops main's run loop, which   *)
(* does nothing unless main is in it, and ends.                            *)
WorkerAlerts ==
    /\ worker = "watch" /\ suspect
    /\ worker' = "stop"
    /\ Publish(VmState(FALSE, "Kill Switch"))
    /\ UNCHANGED <<main, running, tree, announce, killing, suspect, monitorVars>>

WorkerStops ==
    /\ worker = "stop"
    /\ worker' = "wake"
    /\ running' = IF running = "running" THEN "stopped" ELSE running
    /\ UNCHANGED <<main, tree, announce, killing, suspect, ipc, monitorVars>>

WorkerEnds ==
    /\ worker = "wake"
    /\ worker' = "ended"
    /\ main' = IF main = "wait" THEN "cleanup" ELSE main
    /\ UNCHANGED <<running, tree, announce, killing, suspect, ipc, monitorVars>>

(* The end of main: SIGINT, SIGTERM or the worker has stopped the loop.    *)
Shutdown ==
    /\ main \in {"wait", "cleanup"}
    /\ main' = "stop"
    /\ Publish(VmState(FALSE, "Graceful Shutdown"))
    /\ UNCHANGED <<running, tree, announce, killing, suspect, worker, monitorVars>>

(* stop joins the reader if the VM runs, the collector's destructor joins  *)
(* the worker, and main returns.                                           *)
Exit ==
    /\ main = "stop" /\ worker \in {"watch", "ended"}
    /\ announce => running # "running"
    /\ main' = "returned"
    /\ running' = "stopped"
    /\ UNCHANGED <<tree, announce, killing, suspect, worker, ipc, monitorVars>>

-----------------------------------------------------------------------------
(* The monitor                                                             *)

(* Mutant: a parent that is not known is entered with its child.           *)
TreeEntryUnknownParent(m, event) ==
    IF event.pid \in DOMAIN m.processes
    THEN m
    ELSE [m EXCEPT !.processes = [pid \in DOMAIN @ \cup {event.pid, event.ppid} |->
                                    (IF pid \in DOMAIN @ THEN @[pid] ELSE <<>>)
                                    \o IF pid = event.ppid THEN <<event.pid>> ELSE <<>>]]

(* A process not seen before becomes a child of its parent, or a root if   *)
(* the parent is not known; processes maps a process to its children.      *)
TreeEntry(m, event) ==
    IF event.pid \in DOMAIN m.processes
    THEN m
    ELSE LET entered == [pid \in DOMAIN m.processes \cup {event.pid} |->
                           IF pid = event.pid THEN <<>> ELSE m.processes[pid]]
         IN IF event.ppid # 0 /\ event.ppid \in DOMAIN entered
            THEN [m EXCEPT !.processes =
                    [entered EXCEPT ![event.ppid] = Append(@, event.pid)]]
            ELSE [m EXCEPT !.processes = entered, !.root_pids = Append(@, event.pid)]

(* add_event of TelemetryModel.                                            *)
add_event(m, message) ==
    IF message.event_type = "VM_STATE_CHANGE"
    THEN [m EXCEPT !.vm_running = message.vm_running, !.vm_status_desc = message.arg]
    ELSE LET log == Append(m.logs, message)
             counted ==
               [m EXCEPT
                 !.logs = IF Len(log) > LogSize THEN Tail(log) ELSE log,
                 !.totals = [type \in CountedTypes |->
                               @[type] + IF message.event_type = type THEN 1 ELSE 0],
                 !.total_violations = @ + IF PolicyRule(message.rec) THEN 1 ELSE 0]
         IN IF message.event_type = "EXEC" THEN TreeEntry(counted, message) ELSE counted

(* Mutant: only the description of the last state change is looked at.     *)
status_by_description(m) ==
    IF m.vm_running THEN "RUNNING"
    ELSE IF m.vm_status_desc = "Kill Switch" THEN "KILLED"
    ELSE IF m.logs = <<>> THEN "WAITING" ELSE "OFFLINE"

(* The first panel of render_dashboard.                                    *)
status(m) ==
    IF m.vm_running THEN "RUNNING"
    ELSE IF m.total_violations > 0 \/ m.vm_status_desc = "Kill Switch" THEN "KILLED"
    ELSE IF m.logs = <<>> /\ m.totals["EXEC"] = 0 THEN "WAITING" ELSE "OFFLINE"

(* The subscriber exists from here on; to start after the daemon counts as *)
(* a fault.                                                                *)
Subscribe ==
    /\ monitor = "off"
    /\ IF main = "start" THEN UNCHANGED faults ELSE Fault
    /\ monitor' = "take"
    /\ UNCHANGED <<daemonVars, queue, lost, model>>

(* The model after each of the messages, which take hands over in order.   *)
Taken(m, messages) ==
    LET after[i \in 0 .. Len(messages)] ==
          IF i = 0 THEN m ELSE add_event(after[i - 1], messages[i])
    IN after

(* One turn of the polling loop: everything there is is taken, and then    *)
(* the dashboard is drawn.  Nothing but the queue is shared.               *)
Turn ==
    /\ monitor = "take" /\ queue # <<>>
    /\ model' = Taken(model, queue)[Len(queue)]
    /\ queue' = <<>>
    /\ UNCHANGED <<daemonVars, lost, faults, monitor>>

(* SIGINT or SIGTERM has set g_stop, which is tested after a drawing.      *)
MonitorExits ==
    /\ monitor = "take" /\ queue = <<>>
    /\ Fault
    /\ monitor' = "exited"
    /\ UNCHANGED <<daemonVars, queue, lost, model>>

DaemonStep ==
    \/ Boot \/ StartHandler \/ Announce \/ Killed \/ Shutdown \/ Exit
    \/ WorkerAlerts \/ WorkerStops \/ WorkerEnds

-----------------------------------------------------------------------------
(* Properties                                                              *)

(* The process tree is a forest that draws every known process once, also  *)
(* when one is seen to start before its parent.  A process has at most one *)
(* entry among the roots and the children; and in any set of processes one *)
(* is a root, or has its entry with a parent outside the set, so that the  *)
(* recursion of draw_process_node gets to all of them and ends.            *)
ProcessForest ==
    LET children == model.processes
        known == DOMAIN children
        roots == model.root_pids
    IN /\ \A S \in (SUBSET known) \ {{}} :
            \E p \in S : p \in Range(roots) \/ \E q \in known \ S : p \in Range(children[q])
       /\ IsInjective(roots) /\ Range(roots) \subseteq known
       /\ \A p \in known : /\ IsInjective(children[p])
                            /\ Range(children[p]) \subseteq known \ Range(roots)
       /\ \A p, q \in known : p # q => Range(children[p]) \cap Range(children[q]) = {}

(* Once the dashboard shows that the VM was killed it keeps showing it:    *)
(* neither the shutdown that follows nor later events of the guest hide    *)
(* the kill, as long as every message arrives.                             *)
KilledIsFinal ==
    [][status(model) = "KILLED" /\ ~lost' => status(model') = "KILLED"]_pathVars

(* A violation that stops the VM is shown, unless a message is lost or the *)
(* monitor is not there to show it.                                        *)
KillShown == announce ~> (status(model) = "KILLED" \/ lost \/ monitor # "take")

=============================================================================
