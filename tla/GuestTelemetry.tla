--------------------------- MODULE GuestTelemetry ---------------------------
(***************************************************************************)
(* The way of a system call event from the guest's kernel to the host: the *)
(* probes of src/guest/tracer.bpf.c and their ring buffer, the agent of    *)
(* src/guest/agent.cpp, the vsock stream, and the thread start_reader of   *)
(* src/host/vm_controller.mm starts for it.                                *)
(*                                                                         *)
(* A SyscallEvent is Size chunks of the stream: the first holds what tells *)
(* the event's kind and process, the last its arguments.                   *)
(***************************************************************************)
EXTENDS PolicyEngine

CONSTANTS
    Cpus,      \* processors of the guest
    Programs,  \* the system calls made on each of them, in order
    RingSlots, \* records rb has room for: 256 KB of them in the code
    Retries,   \* attempts of connect_to_host: 5 in the code
    Size,      \* chunks of a record
    Window     \* chunks the stream holds before a write blocks

(* A process is never its own parent, which is the guest kernel's doing.   *)
ASSUME GuestAssumption ==
    /\ Programs \in [Cpus -> Seq([event_type : EventTypes, pid : Nat, ppid : Nat,
                                  comm : {"interpreter", "other"}, arg : {"sensitive", "plain"}])]
    /\ \A c \in Cpus : \A i \in DOMAIN Programs[c] : Programs[c][i].pid # Programs[c][i].ppid
    /\ {RingSlots, Retries, Window} \subseteq Nat \ {0}
    /\ Size \in Nat \ {0, 1}

VARIABLES
    attached,  \* the probes are attached
    calls,     \* system calls made so far on each processor
    rb,        \* the ring buffer: records in the order they were reserved
    agent,     \* where main of the agent is
    retries,   \* retries, while the agent connects
    g_stop,    \* g_stop of the agent
    written,   \* chunks of the record at the head of rb that write has sent
    stream,    \* chunks sent and not yet read
    closed,    \* the host has closed vsock_fd
    reader,    \* where the reader is
    buffer,    \* buffer of the reader
    accepted,  \* history: the records of rb, in the order they were reserved
    delivered, \* history: the records given to event_cb
    short      \* history: a write was short

guestVars == <<attached, calls, rb, agent, retries, g_stop, written>>
hostVars == <<closed, reader, buffer, delivered>>
telemetryVars == <<guestVars, stream, hostVars, accepted, short>>

(* A record is named by its processor and its place in the program.        *)
EventOf(id) == Programs[id[1]][id[2]]

Chunks(id) == [k \in 1 .. Size |-> <<id, k>>]

GuestInit ==
    /\ attached = FALSE /\ calls = [c \in Cpus |-> 0] /\ rb = <<>>
    /\ agent = "connect" /\ retries = Retries /\ g_stop = FALSE /\ written = 0
    /\ stream = <<>> /\ closed = FALSE
    /\ reader = "none" /\ buffer = <<>>
    /\ accepted = <<>> /\ delivered = <<>> /\ short = FALSE

-----------------------------------------------------------------------------
(* The probes: trace_execve, trace_openat and trace_connect                *)

InProbe(c) == \E i \in DOMAIN rb : rb[i].id[1] = c /\ rb[i].busy

(* A system call with no room in rb leaves no record; calls made without   *)
(* the probes leave none either, and are not counted.                      *)
Reserve(c) ==
    /\ attached /\ ~InProbe(c) /\ calls[c] < Len(Programs[c])
    /\ calls' = [calls EXCEPT ![c] = @ + 1]
    /\ IF Len(rb) < RingSlots
       THEN /\ rb' = Append(rb, [id |-> <<c, calls'[c]>>, busy |-> TRUE])
            /\ accepted' = Append(accepted, <<c, calls'[c]>>)
       ELSE UNCHANGED <<rb, accepted>>
    /\ UNCHANGED <<attached, agent, retries, g_stop, written, stream, hostVars, short>>

(* The record is filled and submitted.                                     *)
Submit(c) ==
    /\ InProbe(c)
    /\ rb' = [i \in DOMAIN rb |-> IF rb[i].id[1] = c THEN [rb[i] EXCEPT !.busy = FALSE] ELSE rb[i]]
    /\ UNCHANGED <<attached, calls, agent, retries, g_stop, written, stream, hostVars,
                   accepted, short>>

-----------------------------------------------------------------------------
(* The agent                                                               *)

(* connect_to_host: an attempt the host accepts, which is start_reader ... *)
Connect ==
    /\ agent = "connect" /\ retries > 0 /\ ~closed
    /\ retries' = 0
    /\ agent' = "load"
    /\ reader' = "read"
    /\ UNCHANGED <<attached, calls, rb, g_stop, written, stream, closed, buffer, delivered,
                   accepted, short>>

(* ... one it does not ...                                                 *)
ConnectRefused ==
    /\ agent = "connect" /\ retries > 0
    /\ retries' = retries - 1
    /\ UNCHANGED <<attached, calls, rb, agent, g_stop, written, stream, hostVars, accepted, short>>

(* ... and the end of the attempts.                                        *)
ConnectFails ==
    /\ agent = "connect" /\ retries = 0
    /\ agent' = "exited"
    /\ UNCHANGED <<attached, calls, rb, retries, g_stop, written, stream, hostVars,
                   accepted, short>>

(* tracer_bpf__open_and_load and tracer_bpf__attach.                       *)
Attach ==
    /\ agent = "load"
    /\ agent' = "new"
    /\ attached' = TRUE
    /\ UNCHANGED <<calls, rb, retries, g_stop, written, stream, hostVars, accepted, short>>

(* ring_buffer__new.                                                       *)
NewRing ==
    /\ agent = "new"
    /\ agent' = "poll"
    /\ UNCHANGED <<attached, calls, rb, retries, g_stop, written, stream, hostVars,
                   accepted, short>>

(* One of these, or ring_buffer__poll, fails; or g_stop ends the loop.     *)
(* The probes go with the skeleton, and the descriptor is closed.          *)
Cleanup(failed) ==
    /\ \/ agent \in {"load", "new", "poll"} /\ failed
       \/ agent = "poll" /\ g_stop
    /\ agent' = "exited"
    /\ attached' = FALSE /\ rb' = <<>>
    /\ UNCHANGED <<calls, retries, g_stop, written, stream, hostVars, accepted, short>>

HeadReady == rb # <<>> /\ ~Head(rb).busy

(* ring_buffer__poll hands records over in order, up to one that is still  *)
(* being filled, and does not look at g_stop between two of them.          *)
Poll ==
    /\ agent = "poll" /\ ~g_stop /\ HeadReady
    /\ agent' = "write"
    /\ UNCHANGED <<attached, calls, rb, retries, g_stop, written, stream, hostVars,
                   accepted, short>>

PollReturns ==
    /\ agent = "write" /\ written = 0 /\ ~HeadReady
    /\ agent' = "poll"
    /\ UNCHANGED <<attached, calls, rb, retries, g_stop, written, stream, hostVars,
                   accepted, short>>

(* write of handle_bpf_event: it blocks while the stream is full.          *)
WriteChunk ==
    /\ agent = "write" /\ HeadReady /\ ~closed
    /\ written < Size /\ Len(stream) < Window
    /\ written' = written + 1
    /\ stream' = Append(stream, Chunks(Head(rb).id)[written'])
    /\ UNCHANGED <<attached, calls, rb, agent, retries, g_stop, hostVars, accepted, short>>

(* It returns with the whole record written, and the record is consumed.   *)
Written ==
    /\ agent = "write" /\ written = Size
    /\ written' = 0
    /\ rb' = Tail(rb)
    /\ UNCHANGED <<attached, calls, agent, retries, g_stop, stream, hostVars, accepted, short>>

(* The host has closed the connection: write fails, or returns what it had *)
(* sent before.                                                            *)
WriteFails ==
    /\ agent = "write" /\ closed /\ HeadReady /\ written < Size
    /\ g_stop' = (g_stop \/ written = 0)
    /\ short' = (short \/ written > 0)
    /\ written' = 0
    /\ rb' = Tail(rb)
    /\ UNCHANGED <<attached, calls, agent, retries, stream, hostVars, accepted>>

(* SIGINT or SIGTERM.  A write that has sent a part of the record returns; *)
(* one that has sent nothing is restarted.  Before the polling loop nobody *)
(* reads g_stop.                                                           *)
AgentSignal ==
    /\ agent \in {"poll", "write"} /\ ~g_stop
    /\ g_stop' = TRUE
    /\ IF agent = "write" /\ written \in 1 .. Size - 1
       THEN short' = TRUE /\ written' = 0 /\ rb' = Tail(rb)
       ELSE UNCHANGED <<short, written, rb>>
    /\ UNCHANGED <<attached, calls, agent, retries, stream, hostVars, accepted>>

-----------------------------------------------------------------------------
(* The reader on the host                                                  *)

(* Mutant: what was left of the last read is overwritten.                  *)
ReadOverwrites ==
    /\ reader = "read" /\ ~closed
    /\ \E n \in 1 .. Len(stream) :
         /\ buffer' = SubSeq(stream, 1, n)
         /\ stream' = SubSeq(stream, n + 1, Len(stream))
    /\ reader' = "cut"
    /\ UNCHANGED <<guestVars, closed, delivered, accepted, short>>

(* read returns some of what was sent.                                     *)
Read ==
    /\ reader = "read" /\ ~closed
    /\ \E n \in 1 .. Len(stream) :
         /\ buffer' = buffer \o SubSeq(stream, 1, n)
         /\ stream' = SubSeq(stream, n + 1, Len(stream))
    /\ reader' = "cut"
    /\ UNCHANGED <<guestVars, closed, delivered, accepted, short>>

(* Mutant: a record is left in the buffer until one more byte follows it.  *)
EnoughStrict(bytes) == Len(bytes) > Size

Enough(bytes) == Len(bytes) >= Size

(* One record leaves the buffer for event_cb.                              *)
Cut ==
    /\ reader = "cut" /\ Enough(buffer)
    /\ delivered' = Append(delivered, SubSeq(buffer, 1, Size))
    /\ buffer' = SubSeq(buffer, Size + 1, Len(buffer))
    /\ UNCHANGED <<guestVars, stream, closed, reader, accepted, short>>

CutDone ==
    /\ reader = "cut" /\ ~Enough(buffer)
    /\ reader' = "read"
    /\ UNCHANGED <<guestVars, stream, closed, buffer, delivered, accepted, short>>

(* The host has closed, or the agent has and everything was read.          *)
ReaderEnds ==
    /\ reader = "read"
    /\ closed \/ (agent = "exited" /\ stream = <<>>)
    /\ reader' = "exited"
    /\ UNCHANGED <<guestVars, stream, closed, buffer, delivered, accepted, short>>

(* What memcpy makes of the chunks of a frame: the kind and the process of *)
(* the record its first chunk heads, none that is known if it heads none,  *)
(* and the arguments if they are of the same record.                       *)
Decode(frame) ==
    LET head == frame[1]
    IN IF head[2] # 1
       THEN [event_type |-> "UNKNOWN", pid |-> 0, ppid |-> 0, comm |-> "other", arg |-> "plain"]
       ELSE IF frame = Chunks(head[1]) THEN EventOf(head[1])
       ELSE [EventOf(head[1]) EXCEPT !.arg = "plain"]

-----------------------------------------------------------------------------

AgentStep ==
    \/ Attach \/ NewRing \/ Poll \/ PollReturns \/ Cleanup(FALSE)
    \/ WriteChunk \/ Written \/ WriteFails

GuestStep ==
    \/ \E c \in Cpus : Reserve(c) \/ Submit(c)
    \/ ConnectRefused \/ ConnectFails \/ AgentStep

GuestFault == Cleanup(TRUE) \/ AgentSignal

-----------------------------------------------------------------------------
(* Properties                                                              *)

(* What event_cb is given are the records of the ring buffer, whole, in    *)
(* the order the probes reserved them and with none missing, whatever the  *)
(* processors' interleaving and wherever read cuts the stream; unless a    *)
(* write of the agent was short (agent.cpp does not resume it).            *)
StreamInOrder ==
    ~short => /\ Len(delivered) <= Len(accepted)
              /\ \A i \in DOMAIN delivered : delivered[i] = Chunks(accepted[i])

(* The host catches up with the probes: what they have reserved all gets   *)
(* to event_cb, unless the agent is told to stop, gives up or is cut off   *)
(* by the host.                                                            *)
RecordsDelivered ==
    Len(delivered) < Len(accepted)
      ~> (Len(delivered) = Len(accepted) \/ g_stop \/ agent = "exited" \/ closed)

=============================================================================
