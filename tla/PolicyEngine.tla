---------------------------- MODULE PolicyEngine ----------------------------
(***************************************************************************)
(* The sandbox policy (src/host/policy_engine.cpp): the process tree kept  *)
(* from EXEC events, the classification of an event into a trace record,   *)
(* and the rule that the engine evaluates on a batch of records.           *)
(*                                                                         *)
(* A command name is "interpreter" (sh, bash, node, python) or "other", a  *)
(* path is "sensitive" (it contains one of the listed patterns) or         *)
(* "plain".  The tree holds what is ever read of a ProcessNode: its        *)
(* is_preinstall_descendant.                                               *)
(***************************************************************************)
EXTENDS Integers, Sequences, FiniteSets

EventTypes == {"EXEC", "OPEN", "CONNECT"}

SyscallTraceRecord ==
    [event_type : EventTypes, is_preinstall : BOOLEAN,
     is_sensitive : BOOLEAN, is_unauthorized : BOOLEAN]

EmptyTree == [pid \in {} |-> FALSE]

is_preinstall_process(tree, pid) == pid \in DOMAIN tree /\ tree[pid]

(* An EXEC inherits the parent's flag; an interpreter started by anybody   *)
(* but PID 1 is taken for a lifecycle script.                              *)
IsUntrustedScript(tree, event) ==
    \/ is_preinstall_process(tree, event.ppid)
    \/ event.comm = "interpreter" /\ event.ppid > 1

(* process_tree_ after the event: only EXEC writes it.                     *)
TreeAfter(tree, event) ==
    IF event.event_type = "EXEC"
    THEN [pid \in DOMAIN tree \cup {event.pid} |->
            IF pid = event.pid THEN IsUntrustedScript(tree, event) ELSE tree[pid]]
    ELSE tree

(* Mutant: event_type is copied from the field next to it.                 *)
process_event_wrong_field(tree, event) ==
    [event_type |-> event.comm, is_preinstall |-> IsUntrustedScript(tree, event),
     is_sensitive |-> event.arg = "sensitive", is_unauthorized |-> FALSE]

(* The record: the flag of the process, or of its parent when the process  *)
(* was never seen to start, and the class of the path or of the connection.*)
process_event(tree, event) ==
    [event_type |-> event.event_type,
     is_preinstall |->
       IF event.event_type = "EXEC" THEN IsUntrustedScript(tree, event)
       ELSE IF event.pid \in DOMAIN tree THEN tree[event.pid]
       ELSE is_preinstall_process(tree, event.ppid),
     is_sensitive |-> event.event_type = "OPEN" /\ event.arg = "sensitive",
     is_unauthorized |-> event.event_type = "CONNECT"]

(* The expression init_JIT_schema builds, in the row of one record.        *)
PolicyRule(rec) ==
    /\ rec.is_preinstall
    /\ \/ rec.event_type = "OPEN" /\ rec.is_sensitive
       \/ rec.event_type = "CONNECT" /\ rec.is_unauthorized

(* execute returns how many rows of the batch match.                       *)
evaluate_batch(batch) == Cardinality({i \in DOMAIN batch : PolicyRule(batch[i])})

=============================================================================
