-------------------------- MODULE MCSandboxDaemon --------------------------
(* An instance of SandboxDaemon.                                           *)
EXTENDS SandboxDaemon

Ev(type, pid, ppid, comm, arg) ==
    [event_type |-> type, pid |-> pid, ppid |-> ppid, comm |-> comm, arg |-> arg]

(* A script started by npm; what it and a child never seen to start do;    *)
(* and a read by a process of the guest's own.                             *)
GuestEvents ==
    {Ev("EXEC", 20, 10, "interpreter", "plain"),
     Ev("OPEN", 20, 10, "interpreter", "sensitive"),
     Ev("CONNECT", 21, 20, "other", "plain"),
     Ev("OPEN", 11, 1, "other", "sensitive")}

Generated ==
    {Ev("EXEC", 20, 10, "interpreter", "plain"), Ev("OPEN", 20, 10, "interpreter", "plain")}

=============================================================================
