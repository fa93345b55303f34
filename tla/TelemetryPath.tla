--------------------------- MODULE TelemetryPath ---------------------------
(***************************************************************************)
(* The telemetry of the sandbox from end to end: the guest's events reach  *)
(* add_event of the daemon through the agent, the stream and the reader    *)
(* (GuestTelemetry), and the dashboard through the messages the daemon     *)
(* publishes (Monitor).                                                    *)
(***************************************************************************)
EXTENDS GuestTelemetry, Monitor

vars == <<telemetryVars, pathVars>>

Init == GuestInit /\ MonitorInit

Guest == main # "returned" /\ GuestStep /\ UNCHANGED pathVars

(* MaxFaults also bounds the signals and the failures of the agent.        *)
GuestFails ==
    /\ main # "returned"
    /\ GuestFault /\ Fault
    /\ UNCHANGED <<daemonVars, queue, lost, monitorVars>>

(* The connection is accepted on main's queue.                             *)
Accept == main = "wait" /\ Connect /\ UNCHANGED pathVars

(* The reader runs add_event to its end before it goes on.                 *)
Reader ==
    /\ main # "returned" /\ ~announce
    /\ Read \/ CutDone \/ ReaderEnds
    /\ UNCHANGED pathVars

EventCallback ==
    /\ main # "returned" /\ ~announce
    /\ Cut
    /\ AddEvent(Decode(delivered'[Len(delivered')]))

(* stop closes the reader's descriptor.  There is no guest if the VM could *)
(* not be started.                                                         *)
Host ==
    /\ main # "returned"
    /\ DaemonStep
    /\ running = "starting" /\ running' = "stopped" /\ main' # "returned" => agent = "connect"
    /\ closed' = (closed \/ running' = "stopped")
    /\ UNCHANGED <<guestVars, stream, reader, buffer, delivered, accepted, short>>

Dashboard == (Turn \/ Subscribe \/ MonitorExits) /\ UNCHANGED telemetryVars

(* The daemon has exited, and the VM with it.                              *)
Over == main = "returned" /\ queue = <<>> /\ UNCHANGED vars

Next == Guest \/ GuestFails \/ Accept \/ Reader \/ EventCallback \/ Host \/ Dashboard \/ Over

(* What the threads do of themselves: no signal has to come, nobody has to *)
(* connect or to subscribe, and nothing has to fail.                       *)
Progress ==
    \/ Guest /\ (AgentStep \/ \E c \in Cpus : Submit(c))
    \/ Reader \/ EventCallback
    \/ Host /\ (Boot \/ Announce \/ Killed \/ WorkerStops \/ WorkerEnds \/ Exit)
    \/ Host /\ Shutdown /\ main = "cleanup"
    \/ Dashboard /\ Turn

(* Some thread that is not blocked runs.  This is less than every thread's *)
(* fairness, and enough: none of these steps can be repeated for ever.     *)
Spec == Init /\ [][Next]_vars /\ WF_vars(Progress)

=============================================================================
