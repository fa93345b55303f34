-------------------------- MODULE MCTelemetryPath --------------------------
(* An instance of TelemetryPath.                                           *)
EXTENDS TelemetryPath

Ev(type, pid, ppid, comm, arg) ==
    [event_type |-> type, pid |-> pid, ppid |-> ppid, comm |-> comm, arg |-> arg]

(* A lifecycle script starts and reads a key; on the other processor a     *)
(* child of it starts, and may be seen before it.                          *)
TwoCpus ==
    <<<<Ev("EXEC", 20, 10, "interpreter", "plain"),
        Ev("OPEN", 20, 10, "interpreter", "sensitive")>>,
      <<Ev("EXEC", 30, 20, "other", "plain")>>>>

=============================================================================
