------------------------ MODULE TelemetryPathProofs ------------------------
(***************************************************************************)
(* Proofs about TelemetryPath, for any processors and programs, any size   *)
(* of a record, of the ring buffer and of the stream's window.             *)
(***************************************************************************)
EXTENDS TelemetryPath, SequenceTheorems, WellFoundedInduction, TLAPS

(* The records there can be.                                               *)
Ids == {id \in Cpus \X Nat : id[2] \in DOMAIN Programs[id[1]]}

ChunkSet == Ids \X (1 .. Size)

(* Types of what carries records.                                          *)
CarrierTypes ==
    /\ calls \in [Cpus -> Nat]
    /\ rb \in Seq([id : Ids, busy : BOOLEAN])
    /\ written \in 0 .. Size
    /\ stream \in Seq(ChunkSet) /\ buffer \in Seq(ChunkSet)
    /\ accepted \in Seq(Ids)
    /\ delivered \in Seq(Seq(ChunkSet))

(* The chunks under way, the reader's first.                               *)
UnderWay == Len(buffer) + Len(stream)

InFlight(i) == IF i <= Len(buffer) THEN buffer[i] ELSE stream[i - Len(buffer)]

(* The records that left the ring buffer.                                  *)
Consumed == Len(accepted) - Len(rb)

(* What the reader has cut are the first records.                          *)
DeliveredInv ==
    /\ Len(delivered) <= Len(accepted)
    /\ \A i \in 1 .. Len(delivered) : delivered[i] = Chunks(accepted[i])

(* Where chunk k of record n + 1, counted from the first record of all,    *)
(* belongs among the chunks under way.                                     *)
Place(n, k) == n * Size + k - Len(delivered) * Size

(* Every chunk under way is of a record that was accepted, and in place.   *)
InFlightInv ==
    \A n \in Nat, k \in 1 .. Size :
      Place(n, k) \in 1 .. UnderWay =>
        n < Len(accepted) /\ InFlight(Place(n, k)) = <<accepted[n + 1], k>>

(* As long as the agent can write, the ring buffer holds the last records, *)
(* and everything before them and the written part of the first has been   *)
(* sent.                                                                   *)
RingInv ==
    agent # "exited" /\ ~closed =>
      /\ Len(rb) <= Len(accepted)
      /\ \A i \in 1 .. Len(rb) : rb[i].id = accepted[Consumed + i]
      /\ Len(delivered) * Size + UnderWay = Consumed * Size + written

SentInv == ~short => DeliveredInv /\ InFlightInv /\ RingInv

(* write is only sending a record that is still at the head of rb.         *)
HeadInv == written > 0 => agent = "write" /\ rb # <<>>

PathInv == CarrierTypes /\ HeadInv /\ SentInv

(* What the messages of the daemon tell the dashboard.                     *)
IsState(message) == message.event_type = "VM_STATE_CHANGE"

Starts(message) == IsState(message) /\ message.vm_running

Kills(message) == IsState(message) /\ message.arg = "Kill Switch"

Violates(message) == ~IsState(message) /\ PolicyRule(message.rec)

Messages ==
    [event_type : {"VM_STATE_CHANGE"}, vm_running : BOOLEAN,
     arg : {"Started", "Kill Switch", "Graceful Shutdown"}]
      \cup [event_type : EventTypes \cup {"UNKNOWN"}, pid : Nat, ppid : Nat,
            rec : [event_type : EventTypes \cup {"UNKNOWN"}, is_preinstall : BOOLEAN,
                   is_sensitive : BOOLEAN, is_unauthorized : BOOLEAN]]

IsModel(m) ==
    /\ m = [vm_running |-> m.vm_running, vm_status_desc |-> m.vm_status_desc,
            totals |-> m.totals, total_violations |-> m.total_violations,
            processes |-> m.processes, root_pids |-> m.root_pids, logs |-> m.logs]
    /\ m.vm_running \in BOOLEAN
    /\ m.total_violations \in Nat

(* ProcessForest of any model.                                             *)
Forest(processes, roots) ==
    /\ roots \in Seq(Nat)
    /\ \A p \in DOMAIN processes : processes[p] \in Seq(Nat)
    /\ \A S \in (SUBSET DOMAIN processes) \ {{}} :
         \E p \in S : \/ p \in Range(roots)
                      \/ \E q \in DOMAIN processes \ S : p \in Range(processes[q])
    /\ IsInjective(roots) /\ Range(roots) \subseteq DOMAIN processes
    /\ \A p \in DOMAIN processes :
         /\ IsInjective(processes[p])
         /\ Range(processes[p]) \subseteq DOMAIN processes \ Range(roots)
    /\ \A p, q \in DOMAIN processes : p # q => Range(processes[p]) \cap Range(processes[q]) = {}

(* A violation is counted in m, or is among the messages after the first k *)
(* and before number i.                                                    *)
Reported(m, k, i) ==
    m.total_violations > 0 \/ \E j \in k + 1 .. i - 1 : Violates(queue[j])

(* What is so of a model that the first k messages have reached: the start *)
(* of the VM comes before everything else, and, if no message is lost, no  *)
(* kill comes before the violation it follows.                             *)
Reached(m, k) ==
    /\ IsModel(m)
    /\ Forest(m.processes, m.root_pids)
    /\ \A i \in k + 1 .. Len(queue) : Starts(queue[i]) => i = 1 /\ m.total_violations = 0
    /\ ~lost =>
         /\ m.vm_status_desc = "Kill Switch" => m.total_violations > 0
         /\ \A i \in k + 1 .. Len(queue) : Kills(queue[i]) => Reported(m, k, i)
         /\ announce \/ suspect => Reported(m, k, Len(queue) + 1)

(* A message that enters a process does not name it as its own parent.     *)
QueueTypes ==
    /\ queue \in Seq(Messages) /\ Len(queue) <= QueueSize
    /\ \A i \in 1 .. Len(queue) : queue[i].event_type = "EXEC" => queue[i].pid # queue[i].ppid

(* Nothing is published, and nobody is connected, before main has started  *)
(* the VM.                                                                 *)
DashboardInv ==
    /\ QueueTypes
    /\ \A p \in DOMAIN tree : tree[p] \in BOOLEAN
    /\ main = "start" => /\ queue = <<>> /\ model.total_violations = 0
                         /\ reader = "none" /\ ~announce /\ ~suspect
    /\ Reached(model, 0)

-----------------------------------------------------------------------------
(* Arithmetic of chunks                                                    *)

(* A record has at least the chunk with the process and that of arguments. *)
LEMMA SizeIsNat == Size \in Nat /\ Size >= 2
BY GuestAssumption

(* Products with Size are numbers, and a later record is a record further. *)
LEMMA Products ==
  ASSUME NEW n \in Nat, NEW m \in Nat
  PROVE  /\ n * Size \in Nat
         /\ (n + 1) * Size = n * Size + Size
         /\ n < m => n * Size + Size <= m * Size
<1>1. n * Size \in Nat /\ (n + 1) * Size = n * Size + Size
  BY SizeIsNat
<1>2. ASSUME n < m PROVE n * Size + Size <= m * Size
  <2>1. m - (n + 1) \in Nat
    BY <1>2
  <2>2. (m - (n + 1)) * Size \in Nat
    BY <2>1, SizeIsNat
  <2>3. m * Size = (n + 1) * Size + (m - (n + 1)) * Size
    BY <2>1, SizeIsNat
  <2>4. m * Size \in Nat
    BY SizeIsNat
  <2>5. QED
    BY <1>1, <2>2, <2>3, <2>4, SizeIsNat
<1>3. QED
  BY <1>1, <1>2

(* A chunk has one place, and a place one chunk.                           *)
LEMMA OnePlace ==
  ASSUME NEW n \in Nat, NEW m \in Nat, NEW k \in 1 .. Size, NEW j \in 1 .. Size,
         n * Size + k = m * Size + j
  PROVE  n = m /\ k = j
<1>1. n * Size \in Nat /\ m * Size \in Nat
  BY Products
<1>2. ~(n < m)
  <2>1. n < m => n * Size + Size <= m * Size
    BY Products
  <2>2. QED
    BY <1>1, <2>1, SizeIsNat
<1>3. ~(m < n)
  <2>1. m < n => m * Size + Size <= n * Size
    BY Products
  <2>2. QED
    BY <1>1, <2>1, SizeIsNat
<1>4. n = m
  BY <1>2, <1>3
<1>5. QED
  BY <1>1, <1>4, SizeIsNat

-----------------------------------------------------------------------------
(* Initial states, and steps that move no record                           *)

(* The path starts empty.                                                  *)
LEMMA InitPath == Init => PathInv
<1> SUFFICES ASSUME GuestInit PROVE PathInv
  BY DEF Init
<1>1. /\ rb = <<>> /\ stream = <<>> /\ buffer = <<>> /\ accepted = <<>> /\ delivered = <<>>
      /\ written = 0 /\ calls = [c \in Cpus |-> 0]
  BY DEF GuestInit
<1>2. CarrierTypes
  BY <1>1, SizeIsNat DEF CarrierTypes
<1>3. Len(rb) = 0 /\ Len(stream) = 0 /\ Len(buffer) = 0 /\ Len(accepted) = 0 /\ Len(delivered) = 0
  BY <1>1
<1>4. DeliveredInv
  BY <1>3 DEF DeliveredInv
<1>5. InFlightInv
  BY <1>3 DEF InFlightInv, UnderWay
<1>6. RingInv
  <2>1. 0 * Size = 0
    BY SizeIsNat
  <2>2. QED
    BY <1>1, <1>3, <2>1 DEF RingInv, UnderWay, Consumed
<1>7. QED
  BY <1>1, <1>2, <1>4, <1>5, <1>6 DEF PathInv, SentInv, HeadInv

(* Chunks stay where they are when nothing is sent, read or cut.           *)
LEMMA ChunksStay ==
  ASSUME UNCHANGED <<stream, buffer, accepted, delivered>>
  PROVE  /\ DeliveredInv => DeliveredInv'
         /\ InFlightInv => InFlightInv'
BY DEF DeliveredInv, InFlightInv, UnderWay, InFlight, Place

(* A step that moves nothing, neither reopens the connection nor brings    *)
(* the agent back.                                                         *)
LEMMA QuietStep ==
  ASSUME PathInv,
         UNCHANGED <<calls, rb, written, stream, buffer, accepted, delivered, short>>,
         closed => closed', agent = "exited" => agent' = "exited",
         written > 0 => agent' = agent
  PROVE  PathInv'
<1>1. CarrierTypes'
  BY DEF PathInv, CarrierTypes
<1>2. RingInv => RingInv'
  BY DEF RingInv, UnderWay, Consumed
<1>3. HeadInv'
  BY DEF PathInv, HeadInv
<1>4. QED
  BY <1>1, <1>2, <1>3, ChunksStay DEF PathInv, SentInv

-----------------------------------------------------------------------------
(* Steps of the guest                                                      *)

(* Reserve adds one record to rb and to accepted, or to neither.           *)
LEMMA ReserveStep ==
  ASSUME PathInv, NEW c \in Cpus, Reserve(c)
  PROVE  PathInv'
<1> DEFINE id == <<c, calls'[c]>>
<1>1. calls' \in [Cpus -> Nat] /\ id \in Ids
  BY SMTT(60) DEF PathInv, CarrierTypes, Reserve, Ids
<1>2. UNCHANGED <<agent, written, stream, closed, buffer, delivered, short>>
  BY DEF Reserve, hostVars
<1>3. CASE UNCHANGED <<rb, accepted>>
  <2>1. CarrierTypes'
    BY <1>1, <1>2, <1>3 DEF PathInv, CarrierTypes
  <2>2. RingInv => RingInv'
    BY <1>2, <1>3 DEF RingInv, UnderWay, Consumed
  <2>3. HeadInv'
    BY <1>2, <1>3 DEF PathInv, HeadInv
  <2>4. QED
    BY <1>2, <1>3, <2>1, <2>2, <2>3, ChunksStay DEF PathInv, SentInv
<1>4. CASE /\ rb' = Append(rb, [id |-> id, busy |-> TRUE])
           /\ accepted' = Append(accepted, id)
  <2>1. rb \in Seq([id : Ids, busy : BOOLEAN]) /\ accepted \in Seq(Ids)
    BY DEF PathInv, CarrierTypes
  <2>2. [id |-> id, busy |-> TRUE] \in [id : Ids, busy : BOOLEAN]
    BY <1>1
  <2>3. /\ rb' \in Seq([id : Ids, busy : BOOLEAN])
        /\ Len(rb') = Len(rb) + 1
        /\ \A i \in 1 .. Len(rb) : rb'[i] = rb[i]
        /\ rb'[Len(rb) + 1].id = id
    BY <1>4, <2>1, <2>2, AppendProperties
  <2>4. /\ accepted' \in Seq(Ids)
        /\ Len(accepted') = Len(accepted) + 1
        /\ \A i \in 1 .. Len(accepted) : accepted'[i] = accepted[i]
        /\ accepted'[Len(accepted) + 1] = id
    BY <1>1, <1>4, <2>1, AppendProperties
  <2>5. CarrierTypes'
    BY <1>1, <1>2, <2>3, <2>4 DEF PathInv, CarrierTypes
  <2>6. Len(rb) \in Nat /\ Len(accepted) \in Nat /\ Len(delivered) \in Nat
    BY <2>1 DEF PathInv, CarrierTypes
  <2>7. DeliveredInv => DeliveredInv'
    BY <1>2, <2>4, <2>6 DEF DeliveredInv, Chunks
  <2>8. InFlightInv => InFlightInv'
    <3>1. UnderWay' = UnderWay /\ \A n, k : Place(n, k)' = Place(n, k)
      BY <1>2 DEF UnderWay, Place
    <3>2. \A i : InFlight(i)' = InFlight(i)
      BY <1>2 DEF InFlight
    <3>3. \A n \in Nat : n < Len(accepted) =>
            n < Len(accepted') /\ accepted'[n + 1] = accepted[n + 1]
      BY <2>4, <2>6, SMTT(30)
    <3>4. QED
      BY <3>1, <3>2, <3>3 DEF InFlightInv
  <2>9. RingInv => RingInv'
    <3> SUFFICES ASSUME RingInv, agent # "exited", ~closed
                 PROVE  RingInv'
      BY <1>2 DEF RingInv
    <3>1. Consumed' = Consumed /\ UnderWay' = UnderWay
      BY <1>2, <2>3, <2>4, <2>6 DEF Consumed, UnderWay
    <3>2. Len(rb) <= Len(accepted) /\ Consumed \in Nat /\ Consumed + Len(rb) = Len(accepted)
      BY <2>6 DEF RingInv, Consumed
    <3>3. \A i \in 1 .. Len(rb') : rb'[i].id = accepted'[Consumed + i]
      <4>1. \A i \in 1 .. Len(rb) : rb[i].id = accepted[Consumed + i]
        BY DEF RingInv
      <4>2. \A i \in 1 .. Len(rb) : Consumed + i \in 1 .. Len(accepted)
        BY <2>6, <3>2
      <4>3. \A i \in 1 .. Len(rb) : rb'[i].id = accepted'[Consumed + i]
        BY ZenonT(60), <2>3, <2>4, <4>1, <4>2
      <4>4. rb'[Len(rb) + 1].id = accepted'[Consumed + (Len(rb) + 1)]
        <5>1. Consumed + (Len(rb) + 1) = Len(accepted) + 1
          BY <2>6, <3>2
        <5>2. QED
          BY <2>3, <2>4, <5>1
      <4>5. \A i \in 1 .. Len(rb') : i \in 1 .. Len(rb) \/ i = Len(rb) + 1
        BY <2>3, <2>6
      <4>6. QED
        BY <4>3, <4>4, <4>5
    <3>4. QED
      BY SMTT(60), <1>2, <2>3, <2>4, <2>6, <3>1, <3>2, <3>3 DEF RingInv
  <2>10. HeadInv'
    BY <1>2, <2>3, <2>6 DEF PathInv, HeadInv
  <2>11. QED
    BY <1>2, <2>5, <2>7, <2>8, <2>9, <2>10 DEF PathInv, SentInv
<1>5. QED
  BY <1>3, <1>4 DEF Reserve

(* Submit changes busy alone.                                              *)
LEMMA SubmitStep ==
  ASSUME PathInv, NEW c \in Cpus, Submit(c)
  PROVE  PathInv'
<1>1. UNCHANGED <<calls, agent, written, stream, closed, buffer, delivered, accepted, short>>
  BY DEF Submit, hostVars
<1>2. rb \in Seq([id : Ids, busy : BOOLEAN]) /\ Len(rb) \in Nat /\ DOMAIN rb = 1 .. Len(rb)
  BY DEF PathInv, CarrierTypes
<1>3. rb' = [i \in 1 .. Len(rb) |-> IF rb[i].id[1] = c THEN [rb[i] EXCEPT !.busy = FALSE] ELSE rb[i]]
  BY <1>2 DEF Submit
<1>4. \A i \in 1 .. Len(rb) : rb'[i] \in [id : Ids, busy : BOOLEAN] /\ rb'[i].id = rb[i].id
  <2> SUFFICES ASSUME NEW i \in 1 .. Len(rb)
               PROVE  rb'[i] \in [id : Ids, busy : BOOLEAN] /\ rb'[i].id = rb[i].id
    OBVIOUS
  <2>1. rb[i] \in [id : Ids, busy : BOOLEAN]
    BY ZenonT(60), <1>2, ElementOfSeq
  <2>2. rb'[i] = rb[i] \/ rb'[i] = [rb[i] EXCEPT !.busy = FALSE]
    BY <1>3
  <2>3. [rb[i] EXCEPT !.busy = FALSE] \in [id : Ids, busy : BOOLEAN]
    BY ZenonT(60), <2>1
  <2>4. [rb[i] EXCEPT !.busy = FALSE].id = rb[i].id
    BY <2>1
  <2>5. QED
    BY <2>1, <2>2, <2>3, <2>4
<1>5. rb' \in Seq([id : Ids, busy : BOOLEAN]) /\ Len(rb') = Len(rb)
  BY <1>2, <1>3, <1>4
<1>6. CarrierTypes'
  BY <1>1, <1>5 DEF PathInv, CarrierTypes
<1>7. RingInv => RingInv'
  BY <1>1, <1>4, <1>5 DEF RingInv, UnderWay, Consumed
<1>8. HeadInv'
  <2>1. rb # <<>> => rb' # <<>>
    BY <1>2, <1>5
  <2>2. QED
    BY <1>1, <2>1 DEF PathInv, HeadInv
<1>9. QED
  BY <1>1, <1>6, <1>7, <1>8, ChunksStay DEF PathInv, SentInv

(* Cleanup empties rb, but only between two writes, and the agent is gone. *)
LEMMA CleanupStep ==
  ASSUME PathInv, NEW failed, Cleanup(failed)
  PROVE  PathInv'
<1>1. /\ UNCHANGED <<calls, written, stream, buffer, delivered, accepted, short>>
      /\ agent \in {"load", "new", "poll"} /\ agent' = "exited" /\ rb' = <<>>
  BY DEF Cleanup, hostVars
<1>2. CarrierTypes'
  BY <1>1 DEF PathInv, CarrierTypes
<1>3. HeadInv'
  BY <1>1 DEF PathInv, HeadInv
<1>4. RingInv'
  BY <1>1 DEF RingInv
<1>5. QED
  BY <1>1, <1>2, <1>3, <1>4, ChunksStay DEF PathInv, SentInv

(* A record leaves rb; types and the head are kept whatever the reason.    *)
LEMMA Dropped ==
  ASSUME PathInv, rb # <<>>, rb' = Tail(rb), written' = 0,
         UNCHANGED <<calls, stream, buffer, delivered, accepted>>
  PROVE  /\ CarrierTypes' /\ HeadInv'
         /\ Len(rb') = Len(rb) - 1
         /\ \A i \in 1 .. Len(rb') : rb'[i] = rb[i + 1]
<1>1. rb \in Seq([id : Ids, busy : BOOLEAN])
  BY DEF PathInv, CarrierTypes
<1>2. /\ rb' \in Seq([id : Ids, busy : BOOLEAN])
      /\ Len(rb') = Len(rb) - 1
      /\ \A i \in 1 .. Len(rb') : rb'[i] = rb[i + 1]
  BY <1>1, HeadTailProperties
<1>3. CarrierTypes'
  BY <1>2, SizeIsNat DEF PathInv, CarrierTypes
<1>4. QED
  BY <1>2, <1>3 DEF HeadInv

(* Written: the record that leaves rb is the one that is sent.             *)
LEMMA WrittenStep ==
  ASSUME PathInv, Written
  PROVE  PathInv'
<1>1. /\ UNCHANGED <<calls, agent, stream, closed, buffer, delivered, accepted, short>>
      /\ written = Size /\ written' = 0 /\ rb' = Tail(rb)
  BY DEF Written, hostVars
<1>2. rb # <<>>
  BY <1>1, SizeIsNat DEF PathInv, HeadInv
<1>3. /\ CarrierTypes' /\ HeadInv'
      /\ Len(rb') = Len(rb) - 1
      /\ \A i \in 1 .. Len(rb') : rb'[i] = rb[i + 1]
  BY <1>1, <1>2, Dropped
<1>4. RingInv => RingInv'
  <2> SUFFICES ASSUME RingInv, agent # "exited", ~closed
               PROVE  RingInv'
    BY <1>1 DEF RingInv
  <2>1. Len(rb) \in Nat \ {0} /\ Len(accepted) \in Nat
    BY <1>2, EmptySeq DEF PathInv, CarrierTypes
  <2>2. Consumed \in Nat /\ Consumed' = Consumed + 1 /\ UnderWay' = UnderWay
    BY <1>1, <1>3, <2>1 DEF RingInv, Consumed, UnderWay
  <2>3. (Consumed + 1) * Size + 0 = Consumed * Size + Size
    BY <2>2, Products, SizeIsNat
  <2>4. Len(delivered') * Size + UnderWay' = Consumed' * Size + written'
    BY <1>1, <2>2, <2>3 DEF RingInv
  <2>5. \A i \in 1 .. Len(rb') : rb'[i].id = accepted'[Consumed' + i]
    <3> SUFFICES ASSUME NEW i \in 1 .. Len(rb') PROVE rb'[i].id = accepted'[Consumed' + i]
      OBVIOUS
    <3>1. i + 1 \in 1 .. Len(rb) /\ Consumed + (i + 1) = Consumed' + i
      BY <1>3, <2>1, <2>2
    <3>2. rb[i + 1].id = accepted[Consumed + (i + 1)]
      BY <3>1 DEF RingInv
    <3>3. QED
      BY <1>1, <1>3, <3>1, <3>2
  <2>6. Len(rb') <= Len(accepted')
    BY <1>1, <1>3, <2>1 DEF RingInv
  <2>7. QED
    BY <2>4, <2>5, <2>6 DEF RingInv
<1>5. QED
  BY <1>1, <1>3, <1>4, ChunksStay DEF PathInv, SentInv

(* WriteFails: nothing is written any more after the host has closed.      *)
LEMMA WriteFailsStep ==
  ASSUME PathInv, WriteFails
  PROVE  PathInv'
<1>1. /\ UNCHANGED <<calls, agent, stream, closed, buffer, delivered, accepted>>
      /\ closed /\ rb # <<>> /\ written' = 0 /\ rb' = Tail(rb)
  BY DEF WriteFails, HeadReady, hostVars
<1>2. CarrierTypes' /\ HeadInv'
  BY <1>1, Dropped
<1>3. short => short'
  BY ZenonT(60) DEF WriteFails
<1>4. RingInv'
  BY <1>1 DEF RingInv
<1>5. QED
  BY <1>1, <1>2, <1>3, <1>4, ChunksStay DEF PathInv, SentInv

(* AgentSignal: a record it takes from a write in progress makes it short. *)
LEMMA SignalStep ==
  ASSUME PathInv, AgentSignal
  PROVE  PathInv'
<1>1. UNCHANGED <<calls, agent, stream, closed, buffer, delivered, accepted>>
  BY DEF AgentSignal, hostVars
<1>2. CASE written \in 1 .. Size - 1 /\ short' = TRUE /\ written' = 0 /\ rb' = Tail(rb)
  <2>1. rb # <<>>
    BY <1>2, SizeIsNat DEF PathInv, HeadInv
  <2>2. CarrierTypes' /\ HeadInv'
    BY SMTT(60), <1>1, <1>2, <2>1, Dropped
  <2>3. QED
    BY <1>2, <2>2 DEF PathInv, SentInv
<1>3. CASE UNCHANGED <<short, written, rb>>
  BY <1>1, <1>3, QuietStep
<1>4. QED
  BY ZenonT(60), <1>2, <1>3 DEF AgentSignal

(* WriteChunk sends the chunk that follows the last one sent.              *)
LEMMA WriteChunkStep ==
  ASSUME PathInv, WriteChunk
  PROVE  PathInv'
<1> DEFINE chunk == <<Head(rb).id, written + 1>>
<1>1. /\ UNCHANGED <<calls, rb, agent, closed, buffer, delivered, accepted, short>>
      /\ agent = "write" /\ ~closed /\ rb # <<>>
      /\ written < Size /\ written' = written + 1
      /\ stream' = Append(stream, Chunks(Head(rb).id)[written'])
  BY DEF WriteChunk, HeadReady, hostVars
<1>2. /\ rb \in Seq([id : Ids, busy : BOOLEAN]) /\ accepted \in Seq(Ids)
      /\ stream \in Seq(ChunkSet) /\ buffer \in Seq(ChunkSet) /\ written \in 0 .. Size
      /\ delivered \in Seq(Seq(ChunkSet))
  BY DEF PathInv, CarrierTypes
<1>3. written + 1 \in 1 .. Size
  BY <1>1, <1>2, SizeIsNat
<1>4. stream' = Append(stream, chunk)
  BY <1>1, <1>3 DEF Chunks
<1>5. Head(rb) = rb[1] /\ Head(rb).id \in Ids /\ Len(rb) \in Nat \ {0}
  <2>1. Len(rb) \in Nat \ {0}
    BY <1>1, <1>2, EmptySeq
  <2>2. Head(rb) \in [id : Ids, busy : BOOLEAN]
    BY ZenonT(60), <1>1, <1>2, HeadTailProperties
  <2>3. Head(rb) = rb[1]
    BY <1>2, <2>1
  <2>4. QED
    BY <2>1, <2>2, <2>3
<1>6. chunk \in ChunkSet
  BY <1>3, <1>5 DEF ChunkSet
<1>7. /\ stream' \in Seq(ChunkSet)
      /\ Len(stream') = Len(stream) + 1
      /\ \A i \in 1 .. Len(stream) : stream'[i] = stream[i]
      /\ stream'[Len(stream) + 1] = chunk
  BY <1>2, <1>4, <1>6, AppendProperties
<1>8. CarrierTypes' /\ HeadInv'
  <2>1. CarrierTypes'
    BY <1>1, <1>3, <1>7, SizeIsNat DEF PathInv, CarrierTypes
  <2>2. QED
    BY <1>1, <2>1 DEF HeadInv
<1>9. /\ Len(stream) \in Nat /\ Len(buffer) \in Nat /\ Len(accepted) \in Nat
      /\ Len(delivered) \in Nat
  BY <1>2
<1>10. UnderWay \in Nat /\ UnderWay' = UnderWay + 1
  BY <1>1, <1>7, <1>9 DEF UnderWay
<1>11. ASSUME DeliveredInv, InFlightInv, RingInv
       PROVE  DeliveredInv' /\ InFlightInv' /\ RingInv'
  <2>1. /\ Consumed \in Nat /\ Consumed < Len(accepted)
        /\ rb[1].id = accepted[Consumed + 1]
        /\ Len(delivered) * Size + UnderWay = Consumed * Size + written
    BY <1>1, <1>5, <1>9, <1>11, SMTT(60) DEF RingInv, Consumed
  <2>2. Len(delivered) * Size \in Nat /\ Consumed * Size \in Nat
    BY <1>9, <2>1, Products
  <2>3. DeliveredInv'
    BY <1>1, <1>11 DEF DeliveredInv
  <2>4. RingInv'
    <3>1. Consumed' = Consumed
      BY <1>1 DEF Consumed
    <3>2. Len(delivered') * Size + UnderWay' = Consumed' * Size + written'
      <4>1. Len(delivered) * Size + (UnderWay + 1) = Consumed * Size + (written + 1)
        <5> DEFINE cut == Len(delivered) * Size
                   gone == Consumed * Size
        <5>1. cut \in Nat /\ gone \in Nat /\ cut + UnderWay = gone + written
          BY <2>1, <2>2
        <5>2. written \in Nat
          BY <1>2, SizeIsNat
        <5> HIDE DEF cut, gone
        <5>3. cut + (UnderWay + 1) = gone + (written + 1)
          BY <1>10, <5>1, <5>2
        <5>4. QED
          BY <5>3, Zenon DEF cut, gone
      <4>2. Len(delivered') = Len(delivered)
        BY <1>1
      <4>3. QED
        BY <1>1, <1>10, <3>1, <4>1, <4>2, Zenon
    <3>3. Len(rb') <= Len(accepted') /\ \A i \in 1 .. Len(rb') : rb'[i].id = accepted'[Consumed' + i]
      BY <1>1, <1>11, <3>1 DEF RingInv
    <3>4. QED
      BY <3>2, <3>3 DEF RingInv
  <2>5. ASSUME NEW n \in Nat, NEW k \in 1 .. Size, Place(n, k)' \in 1 .. UnderWay'
        PROVE  n < Len(accepted') /\ InFlight(Place(n, k))' = <<accepted'[n + 1], k>>
    <3> DEFINE i == Place(n, k)
    <3>1. i' = i /\ i \in 1 .. UnderWay + 1
      BY <1>1, <1>10, <2>5 DEF Place
    <3>2. CASE i \in 1 .. UnderWay
      <4>1. n < Len(accepted) /\ InFlight(i) = <<accepted[n + 1], k>>
        BY <1>11, <3>2 DEF InFlightInv
      <4>2. i <= Len(buffer) \/ i - Len(buffer) \in 1 .. Len(stream)
        BY SMTT(60), <1>9, <3>2 DEF UnderWay
      <4>3. InFlight(i)' = InFlight(i)
        BY SMTT(60), <1>1, <1>7, <3>1, <4>2 DEF InFlight
      <4>4. QED
        BY <1>1, <4>1, <4>3
    <3>3. CASE i = UnderWay + 1
      <4>1. n * Size \in Nat
        BY Products
      <4>2. n * Size + k = Consumed * Size + (written + 1)
        BY <1>2, <1>10, <2>1, <2>2, <3>3, <4>1, SizeIsNat, SMTT(60) DEF Place
      <4>3. n = Consumed /\ k = written + 1
        BY <1>3, <2>1, <4>2, OnePlace
      <4>4. ~(i <= Len(buffer)) /\ i - Len(buffer) = Len(stream) + 1
        BY <1>9, <3>3, SMTT(60) DEF UnderWay
      <4>5. InFlight(i)' = chunk
        BY <1>1, <1>7, <3>1, <4>4 DEF InFlight
      <4>6. QED
        BY <1>1, <1>5, <2>1, <4>3, <4>5
    <3>4. QED
      BY <1>10, <3>1, <3>2, <3>3
  <2>6. InFlightInv'
    BY <2>5 DEF InFlightInv
  <2>7. QED
    BY <2>3, <2>4, <2>6
<1>12. QED
  BY <1>1, <1>8, <1>11 DEF PathInv, SentInv

-----------------------------------------------------------------------------
(* Steps of the reader                                                     *)

(* Read moves the first chunks of the stream behind those of the buffer.   *)
LEMMA ReadStep ==
  ASSUME PathInv, Read
  PROVE  PathInv'
<1>1. UNCHANGED <<calls, rb, agent, written, closed, delivered, accepted, short>>
  BY DEF Read, guestVars
<1>2. /\ stream \in Seq(ChunkSet) /\ buffer \in Seq(ChunkSet)
      /\ Len(stream) \in Nat /\ Len(buffer) \in Nat
      /\ \A i \in 1 .. Len(stream) : stream[i] \in ChunkSet
  BY DEF PathInv, CarrierTypes
<1>3. PICK m \in 1 .. Len(stream) :
        /\ buffer' = buffer \o SubSeq(stream, 1, m)
        /\ stream' = SubSeq(stream, m + 1, Len(stream))
  BY ZenonT(60) DEF Read
<1> DEFINE part == SubSeq(stream, 1, m)
<1>4. /\ part \in Seq(ChunkSet) /\ Len(part) = m
      /\ \A i \in 1 .. m : part[i] = stream[i]
  <2>1. \A i \in 1 .. m : stream[i] \in ChunkSet
    BY <1>2
  <2>2. QED
    BY <1>2, <2>1, SubSeqProperties
<1>5. /\ buffer' \in Seq(ChunkSet) /\ Len(buffer') = Len(buffer) + m
      /\ \A i \in 1 .. Len(buffer) + m :
           buffer'[i] = IF i <= Len(buffer) THEN buffer[i] ELSE part[i - Len(buffer)]
  BY <1>2, <1>3, <1>4, ConcatProperties
<1>6. /\ stream' \in Seq(ChunkSet) /\ Len(stream') = Len(stream) - m
      /\ \A i \in 1 .. Len(stream) - m : stream'[i] = stream[m + i]
  <2>1. \A i \in m + 1 .. Len(stream) : stream[i] \in ChunkSet
    BY <1>2
  <2>2. /\ stream' \in Seq(ChunkSet)
        /\ Len(stream') = IF m + 1 <= Len(stream) THEN Len(stream) - (m + 1) + 1 ELSE 0
        /\ \A i \in 1 .. Len(stream) - (m + 1) + 1 : stream'[i] = stream[m + 1 + i - 1]
    BY <1>2, <1>3, <2>1, SubSeqProperties
  <2>3. QED
    BY <1>2, <2>2
<1>7. CarrierTypes' /\ HeadInv'
  BY SMTT(60), <1>1, <1>5, <1>6 DEF PathInv, CarrierTypes, HeadInv
<1>8. UnderWay' = UnderWay /\ \A n, k : Place(n, k)' = Place(n, k)
  BY <1>1, <1>2, <1>5, <1>6 DEF UnderWay, Place
<1>9. ASSUME NEW i \in 1 .. UnderWay
      PROVE  InFlight(i)' = InFlight(i)
  <2>1. i \in 1 .. Len(buffer) + Len(stream)
    BY <1>9 DEF UnderWay
  <2>2. CASE i <= Len(buffer)
    BY SMTT(60), <1>2, <1>5, <2>1, <2>2 DEF InFlight
  <2>3. CASE i > Len(buffer) /\ i <= Len(buffer) + m
    BY SMTT(60), <1>2, <1>4, <1>5, <2>1, <2>3 DEF InFlight
  <2>4. CASE i > Len(buffer) + m
    <3>1. /\ i - (Len(buffer) + m) \in 1 .. Len(stream) - m
          /\ m + (i - (Len(buffer) + m)) = i - Len(buffer)
          /\ ~(i <= Len(buffer)) /\ ~(i <= Len(buffer) + m)
      BY <1>2, <2>1, <2>4
    <3>2. QED
      BY ZenonT(60), <1>5, <1>6, <3>1 DEF InFlight
  <2>5. QED
    BY <1>2, <2>1, <2>2, <2>3, <2>4
<1>10. InFlightInv => InFlightInv'
  BY <1>1, <1>8, <1>9 DEF InFlightInv
<1>11. DeliveredInv => DeliveredInv'
  BY <1>1 DEF DeliveredInv
<1>12. RingInv => RingInv'
  BY <1>1, <1>8 DEF RingInv, Consumed
<1>13. QED
  BY SMTT(60), <1>1, <1>7, <1>10, <1>11, <1>12 DEF PathInv, SentInv

(* Cut takes the chunks of exactly the next record.                        *)
LEMMA CutStep ==
  ASSUME PathInv, Cut
  PROVE  PathInv'
<1> DEFINE frame == SubSeq(buffer, 1, Size)
           d == Len(delivered)
<1>1. /\ UNCHANGED <<calls, rb, agent, written, stream, closed, accepted, short>>
      /\ Len(buffer) >= Size
      /\ delivered' = Append(delivered, frame)
      /\ buffer' = SubSeq(buffer, Size + 1, Len(buffer))
  BY DEF Cut, Enough, guestVars
<1>2. /\ stream \in Seq(ChunkSet) /\ buffer \in Seq(ChunkSet) /\ accepted \in Seq(Ids)
      /\ delivered \in Seq(Seq(ChunkSet)) /\ rb \in Seq([id : Ids, busy : BOOLEAN])
      /\ \A i \in 1 .. Len(buffer) : buffer[i] \in ChunkSet
  BY DEF PathInv, CarrierTypes
<1>3. /\ Len(stream) \in Nat /\ Len(buffer) \in Nat /\ Len(accepted) \in Nat
      /\ d \in Nat /\ Len(rb) \in Nat
  BY <1>2
<1>4. /\ frame \in Seq(ChunkSet) /\ Len(frame) = Size
      /\ \A k \in 1 .. Size : frame[k] = buffer[k]
  <2>1. \A k \in 1 .. Size : buffer[k] \in ChunkSet
    BY SMTT(60), <1>1, <1>2, <1>3, SizeIsNat
  <2>2. QED
    BY <2>1, SizeIsNat, SubSeqProperties
<1>5. /\ buffer' \in Seq(ChunkSet) /\ Len(buffer') = Len(buffer) - Size
      /\ \A i \in 1 .. Len(buffer) - Size : buffer'[i] = buffer[i + Size]
  <2>1. \A i \in Size + 1 .. Len(buffer) : buffer[i] \in ChunkSet
    BY SMTT(60), <1>2, <1>3, SizeIsNat
  <2>2. /\ buffer' \in Seq(ChunkSet)
        /\ Len(buffer') = IF Size + 1 <= Len(buffer) THEN Len(buffer) - (Size + 1) + 1 ELSE 0
        /\ \A i \in 1 .. Len(buffer) - (Size + 1) + 1 : buffer'[i] = buffer[Size + 1 + i - 1]
    BY SMTT(60), <1>1, <1>3, <2>1, SizeIsNat, SubSeqProperties
  <2>3. QED
    BY <1>1, <1>3, <2>2, SizeIsNat
<1>6. /\ delivered' \in Seq(Seq(ChunkSet)) /\ Len(delivered') = d + 1
      /\ \A i \in 1 .. d : delivered'[i] = delivered[i]
      /\ delivered'[d + 1] = frame
  BY SMTT(60), <1>1, <1>2, <1>4, AppendProperties
<1>7. CarrierTypes' /\ HeadInv'
  BY <1>1, <1>5, <1>6, SMTT(60) DEF PathInv, CarrierTypes, HeadInv
<1>8. UnderWay \in Nat /\ UnderWay >= Size /\ UnderWay' = UnderWay - Size
  <2>1. UnderWay' = (Len(buffer) - Size) + Len(stream)
    BY <1>1, <1>5 DEF UnderWay
  <2>2. QED
    BY <1>1, <1>3, <2>1, SizeIsNat DEF UnderWay
<1>9. d * Size \in Nat /\ (d + 1) * Size = d * Size + Size
  BY <1>3, Products
<1>10. ASSUME DeliveredInv, InFlightInv
       PROVE  DeliveredInv'
  <2>1. ASSUME NEW k \in 1 .. Size
        PROVE  d < Len(accepted) /\ frame[k] = <<accepted[d + 1], k>>
    <3>1. Place(d, k) = k
      BY <1>9, SizeIsNat DEF Place
    <3>2. k \in 1 .. UnderWay /\ k <= Len(buffer)
      BY <1>1, <1>3, <1>8, SizeIsNat
    <3>3. d < Len(accepted) /\ InFlight(k) = <<accepted[d + 1], k>>
      BY <1>3, <1>10, <3>1, <3>2 DEF InFlightInv
    <3>4. QED
      BY <1>4, <3>2, <3>3 DEF InFlight
  <2>2. d < Len(accepted)
    BY <2>1, SizeIsNat
  <2>3. frame = Chunks(accepted[d + 1])
    <3>1. frame = [k \in 1 .. Size |-> frame[k]]
      BY <1>4, LenProperties
    <3>2. QED
      BY ZenonT(60), <2>1, <3>1 DEF Chunks
  <2>4. \A i \in 1 .. d + 1 : i \in 1 .. d \/ i = d + 1
    BY <1>3
  <2>5. \A i \in 1 .. d : delivered'[i] = Chunks(accepted[i])
    BY <1>6, <1>10 DEF DeliveredInv
  <2>6. \A i \in 1 .. d + 1 : delivered'[i] = Chunks(accepted[i])
    BY ZenonT(60), <1>6, <2>3, <2>4, <2>5
  <2>7. QED
    BY <1>1, <1>3, <1>6, <2>2, <2>6, SMTT(60) DEF DeliveredInv, Chunks
<1>11. ASSUME InFlightInv, NEW n \in Nat, NEW k \in 1 .. Size, Place(n, k)' \in 1 .. UnderWay'
       PROVE  n < Len(accepted') /\ InFlight(Place(n, k))' = <<accepted'[n + 1], k>>
  <2>1. n * Size \in Nat
    BY Products
  <2>2. Place(n, k) \in Int /\ Place(n, k)' = Place(n, k) - Size
    BY <1>6, <1>9, <2>1, SizeIsNat DEF Place
  <2>3. PICK i \in Int : i = Place(n, k)
    BY <2>2
  <2>4. PICK j \in Int : j = Place(n, k)'
    BY <2>2, <1>11, <1>8
  <2>5. j + Size = i /\ i \in 1 .. UnderWay /\ j \in 1 .. UnderWay - Size
    BY SMTT(60), <1>8, <1>11, <2>2, <2>3, <2>4, SizeIsNat
  <2>6. n < Len(accepted) /\ InFlight(i) = <<accepted[n + 1], k>>
    BY <1>11, <2>3, <2>5 DEF InFlightInv
  <2>7. InFlight(j)' = InFlight(i)
    <3>1. CASE j <= Len(buffer')
      <4>1. j \in 1 .. Len(buffer) - Size /\ i <= Len(buffer)
        BY <1>3, <1>5, <2>5, <3>1, SizeIsNat
      <4>2. QED
        BY <1>5, <2>5, <3>1, <4>1 DEF InFlight
    <3>2. CASE ~(j <= Len(buffer'))
      <4>1. j - Len(buffer') = i - Len(buffer) /\ ~(i <= Len(buffer))
        BY <1>3, <1>5, <2>5, <3>2, SizeIsNat
      <4>2. QED
        BY ZenonT(60), <1>1, <3>2, <4>1 DEF InFlight
    <3>3. QED
      BY <3>1, <3>2
  <2>8. InFlight(Place(n, k))' = InFlight(j)'
    BY <2>4 DEF InFlight
  <2>9. QED
    BY <1>1, <2>6, <2>7, <2>8
<1>12. InFlightInv => InFlightInv'
  BY <1>11 DEF InFlightInv
<1>13. RingInv => RingInv'
  <2>1. Consumed' = Consumed
    BY <1>1 DEF Consumed
  <2>2. Len(delivered') * Size + UnderWay' = Len(delivered) * Size + UnderWay
    BY <1>6, <1>8, <1>9, SizeIsNat
  <2>3. QED
    BY <1>1, <2>1, <2>2 DEF RingInv
<1>14. QED
  BY <1>1, <1>7, <1>10, <1>12, <1>13 DEF PathInv, SentInv

-----------------------------------------------------------------------------
(* The invariant and the order of the stream                               *)

(* Every step of the telemetry keeps PathInv, and the daemon's and the     *)
(* dashboard's steps move no record.                                       *)
LEMMA PathStep == PathInv /\ [Next]_vars => PathInv'
<1> SUFFICES ASSUME PathInv, [Next]_vars PROVE PathInv'
  OBVIOUS
<1>1. CASE UNCHANGED telemetryVars
  BY <1>1, QuietStep DEF telemetryVars, guestVars, hostVars
<1>2. ASSUME NEW c \in Cpus, Reserve(c) \/ Submit(c) PROVE PathInv'
  BY SMTT(60), <1>2, ReserveStep, SubmitStep
<1>3. CASE Connect \/ ConnectRefused \/ ConnectFails
  <2>1. written > 0 => agent = "write"
    BY SMTT(60) DEF PathInv, HeadInv
  <2>2. QED
    BY <1>3, <2>1, QuietStep DEF Connect, ConnectRefused, ConnectFails, hostVars
<1>4. CASE Attach \/ NewRing \/ Poll
  <2>1. written > 0 => agent = "write"
    BY DEF PathInv, HeadInv
  <2>2. QED
    BY <1>4, <2>1, QuietStep DEF Attach, NewRing, Poll, hostVars
<1>5. CASE PollReturns
  <2>1. /\ UNCHANGED <<calls, rb, written, stream, buffer, accepted, delivered, short, closed>>
        /\ agent = "write" /\ agent' = "poll" /\ written = 0
    BY <1>5 DEF PollReturns, hostVars
  <2>2. QED
    BY <2>1, QuietStep
<1>6. CASE AgentStep
  BY ZenonT(60), <1>4, <1>5, <1>6, CleanupStep, WriteChunkStep, WrittenStep, WriteFailsStep DEF AgentStep
<1>7. CASE Guest
  BY <1>2, <1>3, <1>6, <1>7 DEF Guest, GuestStep
<1>8. CASE GuestFails
  BY ZenonT(60), <1>8, CleanupStep, SignalStep DEF GuestFails, GuestFault
<1>9. CASE CutDone \/ ReaderEnds
  BY <1>9, QuietStep DEF CutDone, ReaderEnds, guestVars
<1>10. CASE Host
  <2>1. /\ UNCHANGED <<calls, rb, agent, written, stream, buffer, accepted, delivered, short>>
        /\ closed => closed'
    BY ZenonT(60), <1>10 DEF Host, guestVars
  <2>2. QED
    BY <2>1, QuietStep
<1>11. CASE Dashboard \/ Over \/ UNCHANGED vars
  BY <1>1, <1>11 DEF Dashboard, Over, vars
<1>12. CASE Accept \/ Reader \/ EventCallback
  BY <1>3, <1>9, <1>12, ReadStep, CutStep DEF Accept, Reader, EventCallback
<1>13. QED
  BY <1>7, <1>8, <1>10, <1>11, <1>12 DEF Next

(* PathInv orders what was delivered.                                      *)
LEMMA PathInvOrders == PathInv => StreamInOrder
<1>1. PathInv => DOMAIN delivered = 1 .. Len(delivered)
  BY DEF PathInv, CarrierTypes
<1>2. QED
  BY <1>1 DEF PathInv, SentInv, DeliveredInv, StreamInOrder

(* event_cb is given the records the probes reserved, whole, in order and  *)
(* with none missing, as long as no write of the agent was short: for any  *)
(* processors and programs, record size, ring buffer, stream window and    *)
(* number of connection attempts, through faults, signals and a stop that  *)
(* closes the connection.                                                  *)
THEOREM StreamIsInOrder == Spec => []StreamInOrder
<1>1. Init => PathInv
  BY InitPath
<1>2. PathInv /\ [Next]_vars => PathInv'
  BY PathStep
<1>3. PathInv => StreamInOrder
  BY PathInvOrders
<1>4. QED
  BY <1>1, <1>2, <1>3, PTL DEF Spec

-----------------------------------------------------------------------------
(* The turns of the polling loop                                           *)

(* A nonempty set of natural numbers has a least element.                  *)
LEMMA LeastNatural ==
  ASSUME NEW T, T \subseteq Nat, T # {}
  PROVE  \E x \in T : \A y \in T : x <= y
<1> DEFINE R == OpToRel(<, Nat)
<1>1. IsWellFoundedOn(R, Nat)
  BY NatLessThanWellFounded
<1>2. \A x \in Nat, y \in Nat : <<y, x>> \in R <=> y < x
  BY DEF OpToRel
<1> HIDE DEF R
<1>3. PICK x \in T : \A y \in T : ~ (<<y, x>> \in R)
  BY ZenonT(60), <1>1, WFMin
<1>4. \A y \in T : ~ (y < x)
  BY ZenonT(30), <1>2, <1>3
<1>5. QED
  BY <1>4

(* Induction up to n, with a set in the place of the formula.              *)
LEMMA SetInduction ==
  ASSUME NEW n \in Nat, NEW S, 0 \in S, \A k \in 0 .. n - 1 : k \in S => k + 1 \in S
  PROVE  0 .. n \subseteq S
<1> SUFFICES ASSUME (0 .. n) \ S # {} PROVE FALSE
  OBVIOUS
<1>1. PICK x \in (0 .. n) \ S : \A y \in (0 .. n) \ S : x <= y
  <2>1. (0 .. n) \ S \subseteq Nat
    OBVIOUS
  <2>2. QED
    BY ZenonT(60), <2>1, LeastNatural
<1>2. x # 0 /\ x - 1 \in 0 .. n - 1 /\ x - 1 \in 0 .. n /\ ~(x <= x - 1)
  BY <1>1
<1>3. x - 1 \in S
  BY <1>1, <1>2
<1>4. x - 1 + 1 = x
  BY <1>1
<1>5. QED
  BY <1>1, <1>2, <1>3, <1>4

(* h holds the model m after each of the first n messages of s.            *)
After(h, m, s, n) == h = [i \in 0 .. n |-> IF i = 0 THEN m ELSE add_event(h[i - 1], s[i])]

(* There is such an h.                                                     *)
LEMMA AfterExists ==
  ASSUME NEW m, NEW s, NEW n \in Nat
  PROVE  \E h : After(h, m, s, n)
<1> DEFINE S == {k \in Nat : \E h : After(h, m, s, k)}
<1>1. 0 \in S
  <2> DEFINE h == [i \in 0 .. 0 |-> m]
  <2>1. After(h, m, s, 0)
    BY DEF After
  <2> HIDE DEF h
  <2>2. QED
    BY <2>1
<1>2. ASSUME NEW k \in 0 .. n - 1, k \in S PROVE k + 1 \in S
  <2>1. PICK h : After(h, m, s, k)
    BY <1>2
  <2> DEFINE g == [i \in 0 .. (k + 1) |-> IF i = k + 1 THEN add_event(h[k], s[i]) ELSE h[i]]
  <2>2. \A i \in 0 .. (k + 1) : g[i] = IF i = 0 THEN m ELSE add_event(g[i - 1], s[i])
    BY <2>1 DEF After
  <2>3. g = [i \in 0 .. (k + 1) |-> g[i]]
    OBVIOUS
  <2> HIDE DEF g
  <2>4. After(g, m, s, k + 1)
    BY ZenonT(60), <2>2, <2>3 DEF After
  <2>5. QED
    BY <2>4
<1> HIDE DEF S
<1>3. n \in S
  BY <1>1, <1>2, SetInduction
<1>4. QED
  BY <1>3 DEF S

(* The polling loop's models: each is the one before with one more message.*)
LEMMA TakenSteps ==
  ASSUME NEW m, NEW s, Len(s) \in Nat
  PROVE  /\ Taken(m, s)[0] = m
         /\ \A i \in 1 .. Len(s) : Taken(m, s)[i] = add_event(Taken(m, s)[i - 1], s[i])
<1> DEFINE T == Taken(m, s)
<1>1. T = CHOOSE h : After(h, m, s, Len(s))
  BY DEF Taken, After
<1>2. \E h : After(h, m, s, Len(s))
  BY ZenonT(60), AfterExists
<1> HIDE DEF T
<1>3. After(T, m, s, Len(s))
  BY <1>1, <1>2
<1>4. T[0] = m /\ \A i \in 1 .. Len(s) : T[i] = add_event(T[i - 1], s[i])
  BY <1>3 DEF After
<1>5. QED
  BY <1>4 DEF T

-----------------------------------------------------------------------------
(* The process tree                                                        *)

(* What Append does to the elements of a list.                             *)
LEMMA AppendEntry ==
  ASSUME NEW s \in Seq(Nat), NEW x \in Nat
  PROVE  /\ Append(s, x) \in Seq(Nat)
         /\ Range(Append(s, x)) = Range(s) \cup {x}
         /\ IsInjective(s) /\ x \notin Range(s) => IsInjective(Append(s, x))
<1> DEFINE t == Append(s, x)
<1>1. /\ t \in Seq(Nat) /\ DOMAIN t = 1 .. Len(s) + 1 /\ DOMAIN s = 1 .. Len(s) /\ Len(s) \in Nat
      /\ \A i \in 1 .. Len(s) : t[i] = s[i]
      /\ t[Len(s) + 1] = x
  BY AppendProperties
<1> HIDE DEF t
<1>2. \A i \in DOMAIN t : (i \in DOMAIN s /\ t[i] = s[i]) \/ (i = Len(s) + 1 /\ t[i] = x)
  <2> SUFFICES ASSUME NEW i \in DOMAIN t
               PROVE  (i \in DOMAIN s /\ t[i] = s[i]) \/ (i = Len(s) + 1 /\ t[i] = x)
    OBVIOUS
  <2>1. i \in 1 .. Len(s) \/ i = Len(s) + 1
    BY <1>1
  <2>2. CASE i \in 1 .. Len(s)
    BY <1>1, <2>2
  <2>3. CASE i = Len(s) + 1
    BY <1>1, <2>3
  <2>4. QED
    BY <2>1, <2>2, <2>3
<1>3. Len(s) + 1 \in DOMAIN t /\ \A i \in DOMAIN s : i \in DOMAIN t /\ t[i] = s[i]
  BY <1>1
<1>4. Range(t) = Range(s) \cup {x}
  BY <1>1, <1>2, <1>3 DEF Range
<1>5. IsInjective(s) /\ x \notin Range(s) => IsInjective(t)
  BY <1>2 DEF Range, IsInjective
<1>6. QED
  BY <1>1, <1>4, <1>5 DEF t

(* A process that was not known and is entered under one that was, or as a *)
(* root, leaves a forest.                                                  *)
LEMMA EntryKeepsForest ==
  ASSUME NEW processes, NEW roots, Forest(processes, roots),
         NEW pid \in Nat, pid \notin DOMAIN processes, NEW ppid, NEW entered,
         entered = [p \in DOMAIN processes \cup {pid} |->
                      IF p = pid THEN <<>> ELSE processes[p]]
  PROVE  /\ Forest(entered, Append(roots, pid))
         /\ ppid \in DOMAIN processes =>
              Forest([entered EXCEPT ![ppid] = Append(@, pid)], roots)
<1>1. /\ roots \in Seq(Nat)
      /\ \A p \in DOMAIN processes : processes[p] \in Seq(Nat)
      /\ \A S \in (SUBSET DOMAIN processes) \ {{}} :
           \E p \in S : \/ p \in Range(roots)
                        \/ \E q \in DOMAIN processes \ S : p \in Range(processes[q])
      /\ IsInjective(roots) /\ Range(roots) \subseteq DOMAIN processes
      /\ \A p \in DOMAIN processes :
           /\ IsInjective(processes[p])
           /\ Range(processes[p]) \subseteq DOMAIN processes \ Range(roots)
      /\ \A p, q \in DOMAIN processes : p # q => Range(processes[p]) \cap Range(processes[q]) = {}
  BY ZenonT(60) DEF Forest
<1>2. /\ DOMAIN entered = DOMAIN processes \cup {pid}
      /\ entered[pid] = <<>>
      /\ \A p \in DOMAIN processes : entered[p] = processes[p]
  OBVIOUS
<1>3. <<>> \in Seq(Nat) /\ IsInjective(<<>>) /\ Range(<<>>) = {}
  BY DEF IsInjective, Range
<1>4. ASSUME NEW S \in (SUBSET DOMAIN entered) \ {{}}, S # {pid}
      PROVE  \E p \in S : p \in Range(roots)
                          \/ \E q \in DOMAIN processes \ S : p \in Range(processes[q])
  <2> DEFINE R == S \ {pid}
  <2>1. R \in (SUBSET DOMAIN processes) \ {{}}
    BY <1>2, <1>4
  <2>2. PICK p \in R : p \in Range(roots)
                       \/ \E q \in DOMAIN processes \ R : p \in Range(processes[q])
    BY ZenonT(60), <1>1, <2>1
  <2>3. DOMAIN processes \ R = DOMAIN processes \ S
    OBVIOUS
  <2>4. QED
    BY <2>2, <2>3
<1>5. Forest(entered, Append(roots, pid))
  <2> DEFINE tops == Append(roots, pid)
  <2>1. /\ tops \in Seq(Nat) /\ Range(tops) = Range(roots) \cup {pid}
        /\ IsInjective(tops)
    BY <1>1, AppendEntry
  <2> HIDE DEF tops
  <2>2. \A p \in DOMAIN entered : entered[p] \in Seq(Nat) /\ IsInjective(entered[p])
    BY <1>1, <1>2, <1>3
  <2>3. \A p \in DOMAIN entered : Range(entered[p]) \subseteq DOMAIN entered \ Range(tops)
    BY SMTT(60), <1>1, <1>2, <1>3, <2>1
  <2>4. \A p, q \in DOMAIN entered : p # q => Range(entered[p]) \cap Range(entered[q]) = {}
    BY SMTT(60), <1>1, <1>2, <1>3
  <2>5. \A S \in (SUBSET DOMAIN entered) \ {{}} :
          \E p \in S : p \in Range(tops) \/ \E q \in DOMAIN entered \ S : p \in Range(entered[q])
    <3> SUFFICES ASSUME NEW S \in (SUBSET DOMAIN entered) \ {{}}
                 PROVE  \E p \in S : \/ p \in Range(tops)
                                     \/ \E q \in DOMAIN entered \ S : p \in Range(entered[q])
      BY ZenonT(60)
    <3>1. CASE S = {pid}
      BY <2>1, <3>1
    <3>2. CASE S # {pid}
      BY ZenonT(60), <1>2, <1>4, <2>1, <3>2
    <3>3. QED
      BY ZenonT(60), <3>1, <3>2
  <2>6. QED
    BY ZenonT(60), <1>1, <1>2, <2>1, <2>2, <2>3, <2>4, <2>5 DEF Forest, tops
<1>6. ASSUME ppid \in DOMAIN processes
      PROVE  Forest([entered EXCEPT ![ppid] = Append(@, pid)], roots)
  <2> DEFINE lists == [entered EXCEPT ![ppid] = Append(@, pid)]
             list == Append(processes[ppid], pid)
  <2>1. list \in Seq(Nat) /\ Range(list) = Range(processes[ppid]) \cup {pid} /\ IsInjective(list)
    <3>1. pid \notin Range(processes[ppid])
      BY SMTT(60), <1>1, <1>6
    <3>2. QED
      BY ZenonT(60), <1>1, <1>6, <3>1, AppendEntry
  <2>2. /\ DOMAIN lists = DOMAIN processes \cup {pid}
        /\ lists[pid] = <<>> /\ lists[ppid] = list
        /\ \A p \in DOMAIN processes \ {ppid} : lists[p] = processes[p]
    BY SMTT(60), <1>2, <1>6
  <2> HIDE DEF lists, list
  <2>3. \A p \in DOMAIN lists : lists[p] \in Seq(Nat) /\ IsInjective(lists[p])
    BY ZenonT(60), <1>1, <1>3, <2>1, <2>2
  <2>8. \A p \in DOMAIN processes :
          Range(lists[p]) = Range(processes[p]) \cup (IF p = ppid THEN {pid} ELSE {})
    BY <2>1, <2>2
  <2>9. Range(lists[pid]) = {}
    BY <1>3, <2>2
  <2>10. pid \notin Range(roots) /\ \A p \in DOMAIN processes : pid \notin Range(processes[p])
    BY SMTT(60), <1>1
  <2>4. \A p \in DOMAIN lists : Range(lists[p]) \subseteq DOMAIN lists \ Range(roots)
    <3>1. \A p \in DOMAIN processes : Range(processes[p]) \subseteq DOMAIN lists \ Range(roots)
      BY SMTT(60), <1>1, <2>2
    <3>2. pid \in DOMAIN lists \ Range(roots)
      BY SMTT(60), <2>2, <2>10
    <3>3. QED
      BY SMTT(60), <2>2, <2>8, <2>9, <3>1, <3>2
  <2>5. \A p, q \in DOMAIN lists : p # q => Range(lists[p]) \cap Range(lists[q]) = {}
    <3> SUFFICES ASSUME NEW p \in DOMAIN lists, NEW q \in DOMAIN lists, p # q,
                        NEW x \in Range(lists[p]), x \in Range(lists[q])
                 PROVE  FALSE
      BY SMTT(60)
    <3>1. p \in DOMAIN processes /\ q \in DOMAIN processes
      BY SMTT(60), <2>2, <2>9
    <3>2. x # pid
      BY SMTT(60), <2>8, <2>10, <3>1
    <3>3. x \in Range(processes[p]) \cap Range(processes[q])
      BY SMTT(60), <2>8, <3>1, <3>2
    <3>4. QED
      BY SMTT(60), <1>1, <3>1, <3>3
  <2>6. \A S \in (SUBSET DOMAIN lists) \ {{}} :
          \E p \in S : p \in Range(roots) \/ \E q \in DOMAIN lists \ S : p \in Range(lists[q])
    <3> SUFFICES ASSUME NEW S \in (SUBSET DOMAIN lists) \ {{}}
                 PROVE  \E p \in S : \/ p \in Range(roots)
                                     \/ \E q \in DOMAIN lists \ S : p \in Range(lists[q])
      BY SMTT(60)
    <3>1. CASE S = {pid}
      BY SMTT(60), <1>6, <2>2, <2>8, <3>1
    <3>2. CASE S # {pid}
      BY SMTT(60), <1>2, <1>4, <2>2, <2>8, <3>2
    <3>3. QED
      BY SMTT(60), <3>1, <3>2
  <2>7. QED
    BY ZenonT(60), <1>1, <2>2, <2>3, <2>4, <2>5, <2>6 DEF Forest, lists
<1>7. QED
  BY SMTT(60), <1>5, <1>6

-----------------------------------------------------------------------------
(* Messages                                                                *)

(* A message about the VM changes only the state that is shown.            *)
LEMMA StateMessage ==
  ASSUME NEW m, IsModel(m), NEW e, e \in Messages, IsState(e)
  PROVE  /\ IsModel(add_event(m, e))
         /\ add_event(m, e).vm_running = e.vm_running
         /\ add_event(m, e).vm_status_desc = e.arg
         /\ add_event(m, e).total_violations = m.total_violations
         /\ add_event(m, e).processes = m.processes
         /\ add_event(m, e).root_pids = m.root_pids
<1>1. e.vm_running \in BOOLEAN
  BY DEF Messages, IsState, EventTypes
<1>2. add_event(m, e) = [m EXCEPT !.vm_running = e.vm_running, !.vm_status_desc = e.arg]
  BY DEF add_event, IsState
<1>3. QED
  BY ZenonT(60), <1>1, <1>2 DEF IsModel

(* The processes with that of an event.                                    *)
Entered(m, e) ==
    [pid \in DOMAIN m.processes \cup {e.pid} |->
       IF pid = e.pid THEN <<>> ELSE m.processes[pid]]

(* An event is counted, and changes the tree if it enters a process.       *)
LEMMA EventMessage ==
  ASSUME NEW m, IsModel(m), NEW e, e \in Messages, ~IsState(e)
  PROVE  LET n == add_event(m, e)
         IN /\ IsModel(n)
            /\ n.vm_running = m.vm_running /\ n.vm_status_desc = m.vm_status_desc
            /\ n.total_violations = m.total_violations + IF Violates(e) THEN 1 ELSE 0
            /\ IF e.event_type # "EXEC" \/ e.pid \in DOMAIN m.processes
               THEN n.processes = m.processes /\ n.root_pids = m.root_pids
               ELSE IF e.ppid # 0 /\ e.ppid \in DOMAIN Entered(m, e)
               THEN /\ n.processes = [Entered(m, e) EXCEPT ![e.ppid] = Append(@, e.pid)]
                    /\ n.root_pids = m.root_pids
               ELSE /\ n.processes = Entered(m, e)
                    /\ n.root_pids = Append(m.root_pids, e.pid)
<1> DEFINE log == Append(m.logs, e)
           counted ==
             [m EXCEPT
               !.logs = IF Len(log) > LogSize THEN Tail(log) ELSE log,
               !.totals = [type \in CountedTypes |->
                             @[type] + IF e.event_type = type THEN 1 ELSE 0],
               !.total_violations = @ + IF PolicyRule(e.rec) THEN 1 ELSE 0]
           n == add_event(m, e)
<1>1. n = IF e.event_type = "EXEC" THEN TreeEntry(counted, e) ELSE counted
  BY DEF add_event, IsState
<1>2. /\ IsModel(counted)
      /\ counted.vm_running = m.vm_running /\ counted.vm_status_desc = m.vm_status_desc
      /\ counted.total_violations = m.total_violations + IF Violates(e) THEN 1 ELSE 0
      /\ counted.processes = m.processes /\ counted.root_pids = m.root_pids
  <2> DEFINE a == IF Len(log) > LogSize THEN Tail(log) ELSE log
             b == [type \in CountedTypes |->
                     m.totals[type] + IF e.event_type = type THEN 1 ELSE 0]
             c == m.total_violations + IF PolicyRule(e.rec) THEN 1 ELSE 0
  <2>1. counted = [m EXCEPT !.logs = a, !.totals = b, !.total_violations = c]
    BY DEF IsModel
  <2>2. c \in Nat /\ c = m.total_violations + IF Violates(e) THEN 1 ELSE 0
    BY DEF IsModel, Violates
  <2> HIDE DEF a, b, c, counted
  <2>3. QED
    BY ZenonT(60), <2>1, <2>2 DEF IsModel
<1> HIDE DEF counted, n
<1>3. CASE e.event_type # "EXEC" \/ e.pid \in DOMAIN m.processes
  <2>1. n = counted
    BY SMTT(60), <1>1, <1>2, <1>3 DEF TreeEntry
  <2>2. QED
    BY ZenonT(60), <1>2, <1>3, <2>1 DEF n
<1>4. CASE e.event_type = "EXEC" /\ e.pid \notin DOMAIN m.processes
  <2> DEFINE entered == Entered(m, e)
  <2>1. n = IF e.ppid # 0 /\ e.ppid \in DOMAIN entered
            THEN [counted EXCEPT !.processes =
                    [entered EXCEPT ![e.ppid] = Append(@, e.pid)]]
            ELSE [counted EXCEPT !.processes = entered, !.root_pids = Append(@, e.pid)]
    BY SMTT(60), <1>1, <1>2, <1>4 DEF TreeEntry, Entered
  <2> DEFINE more == [entered EXCEPT ![e.ppid] = Append(@, e.pid)]
  <2> HIDE DEF entered, more
  <2>2. CASE e.ppid # 0 /\ e.ppid \in DOMAIN entered
    <3>1. n = [counted EXCEPT !.processes = more]
      BY <2>1, <2>2 DEF more
    <3>2. IsModel(n) /\ n.processes = more /\ n.root_pids = m.root_pids
          /\ n.vm_running = m.vm_running /\ n.vm_status_desc = m.vm_status_desc
          /\ n.total_violations = counted.total_violations
      BY SMTT(60), <1>2, <3>1 DEF IsModel
    <3>3. QED
      BY ZenonT(60), <1>2, <1>4, <2>2, <3>2 DEF n, more, entered
  <2>3. CASE ~(e.ppid # 0 /\ e.ppid \in DOMAIN entered)
    <3>1. n = [counted EXCEPT !.processes = entered, !.root_pids = Append(@, e.pid)]
      BY <2>1, <2>3
    <3>2. IsModel(n) /\ n.processes = entered /\ n.root_pids = Append(m.root_pids, e.pid)
          /\ n.vm_running = m.vm_running /\ n.vm_status_desc = m.vm_status_desc
          /\ n.total_violations = counted.total_violations
      BY ZenonT(60), <1>2, <3>1 DEF IsModel
    <3>3. QED
      BY ZenonT(60), <1>2, <1>4, <2>3, <3>2 DEF n, entered
  <2>4. QED
    BY ZenonT(60), <2>2, <2>3
<1>5. QED
  BY ZenonT(60), <1>3, <1>4

(* A message keeps the tree a forest.                                      *)
LEMMA MessageKeepsForest ==
  ASSUME NEW m, IsModel(m), Forest(m.processes, m.root_pids), NEW e \in Messages,
         e.event_type = "EXEC" => e.pid # e.ppid
  PROVE  Forest(add_event(m, e).processes, add_event(m, e).root_pids)
<1> DEFINE n == add_event(m, e)
<1>1. CASE IsState(e)
  BY <1>1, StateMessage
<1>2. CASE ~IsState(e) /\ (e.event_type # "EXEC" \/ e.pid \in DOMAIN m.processes)
  <2>1. n.processes = m.processes /\ n.root_pids = m.root_pids
    BY ZenonT(60), <1>2, EventMessage
  <2>2. QED
    BY SMTT(60), <2>1
<1>3. CASE ~IsState(e) /\ e.event_type = "EXEC" /\ e.pid \notin DOMAIN m.processes
  <2> DEFINE entered == Entered(m, e)
             more == [entered EXCEPT ![e.ppid] = Append(@, e.pid)]
  <2>1. e.pid \in Nat
    BY ZenonT(60), <1>3 DEF Messages, IsState
  <2>2. IF e.ppid # 0 /\ e.ppid \in DOMAIN entered
        THEN n.processes = more /\ n.root_pids = m.root_pids
        ELSE n.processes = entered /\ n.root_pids = Append(m.root_pids, e.pid)
    BY ZenonT(60), <1>3, EventMessage
  <2>3. e.ppid \in DOMAIN entered => e.ppid \in DOMAIN m.processes
    BY SMTT(60), <1>3 DEF Entered
  <2>4. /\ Forest(entered, Append(m.root_pids, e.pid))
        /\ e.ppid \in DOMAIN m.processes => Forest(more, m.root_pids)
    BY ZenonT(60), <1>3, <2>1, EntryKeepsForest DEF Entered
  <2> HIDE DEF entered, more, n
  <2>5. Forest(n.processes, n.root_pids)
    BY ZenonT(60), <2>2, <2>3, <2>4
  <2>6. QED
    BY SMTT(60), <2>5 DEF n
<1>4. QED
  BY <1>1, <1>2, <1>3

(* The next message of the queue keeps what Reached says, and does not hide*)
(* that the VM was killed.                                                 *)
LEMMA MessageKeepsReached ==
  ASSUME QueueTypes, NEW k \in 0 .. Len(queue) - 1, NEW m, Reached(m, k)
  PROVE  LET n == add_event(m, queue[k + 1])
         IN /\ Reached(n, k + 1)
            /\ m.total_violations > 0 /\ ~m.vm_running
                 => n.total_violations > 0 /\ ~n.vm_running
<1> DEFINE e == queue[k + 1]
           n == add_event(m, e)
<1>1. /\ Len(queue) \in Nat /\ k + 1 \in 1 .. Len(queue) /\ k \in Nat /\ e \in Messages
      /\ e.event_type = "EXEC" => e.pid # e.ppid
  BY DEF QueueTypes
<1>2. IsModel(m) /\ m.total_violations \in Nat /\ m.vm_running \in BOOLEAN
  BY DEF Reached, IsModel
<1>3. /\ IsModel(n)
      /\ n.total_violations = m.total_violations + IF Violates(e) THEN 1 ELSE 0
      /\ n.vm_running = IF IsState(e) THEN e.vm_running ELSE m.vm_running
      /\ n.vm_status_desc = IF IsState(e) THEN e.arg ELSE m.vm_status_desc
  <2>1. CASE IsState(e)
    BY SMTT(60), <1>1, <1>2, <2>1, StateMessage DEF Violates
  <2>2. CASE ~IsState(e)
    BY ZenonT(60), <1>1, <1>2, <2>2, EventMessage
  <2>3. QED
    BY ZenonT(60), <2>1, <2>2
<1>4. Forest(n.processes, n.root_pids)
  BY ZenonT(60), <1>1, <1>2, MessageKeepsForest DEF Reached
<1> HIDE DEF n
<1>5. n.total_violations \in Nat /\ (m.total_violations > 0 => n.total_violations > 0)
  BY <1>2, <1>3
<1>14. /\ \A i \in k + 1 .. Len(queue) : Starts(queue[i]) => i = 1 /\ m.total_violations = 0
       /\ ~lost =>
            /\ m.vm_status_desc = "Kill Switch" => m.total_violations > 0
            /\ \A i \in k + 1 .. Len(queue) : Kills(queue[i]) => Reported(m, k, i)
            /\ announce \/ suspect => Reported(m, k, Len(queue) + 1)
  BY Zenon DEF Reached
<1>6. \A i \in k + 2 .. Len(queue) : ~Starts(queue[i])
  <2>1. \A i \in k + 2 .. Len(queue) : i \in k + 1 .. Len(queue) /\ i # 1
    BY <1>1
  <2>2. QED
    BY Zenon, <1>14, <2>1
<1>7. ASSUME NEW i \in k + 2 .. Len(queue) + 1, Reported(m, k, i) PROVE Reported(n, k + 1, i)
  <2>1. CASE m.total_violations > 0
    BY SMTT(60), <1>2, <1>5, <2>1 DEF Reported
  <2>2. CASE Violates(e)
    BY <1>2, <1>3, <2>2 DEF Reported
  <2>3. CASE ~(m.total_violations > 0) /\ ~Violates(e)
    <3>1. PICK j \in k + 1 .. i - 1 : Violates(queue[j])
      BY <1>7, <2>3 DEF Reported
    <3>2. j # k + 1
      BY <2>3, <3>1
    <3>3. j \in (k + 1) + 1 .. i - 1
      BY <1>1, <3>1, <3>2
    <3>4. QED
      BY <3>1, <3>3 DEF Reported
  <2>4. QED
    BY <2>1, <2>2, <2>3
<1>8. ASSUME ~lost PROVE n.vm_status_desc = "Kill Switch" => n.total_violations > 0
  <2>1. CASE Kills(e)
    <3>1. Reported(m, k, k + 1)
      <4>1. k + 1 \in k + 1 .. Len(queue)
        BY <1>1
      <4>2. QED
        BY Zenon, <1>8, <1>14, <2>1, <4>1
    <3>2. m.total_violations > 0
      BY <1>1, <3>1 DEF Reported
    <3>3. QED
      BY <1>5, <3>2
  <2>2. CASE ~Kills(e)
    <3>1. n.vm_status_desc = "Kill Switch" => m.vm_status_desc = "Kill Switch"
      BY <1>3, <2>2 DEF Kills
    <3>2. m.vm_status_desc = "Kill Switch" => m.total_violations > 0
      BY Zenon, <1>8, <1>14
    <3>3. QED
      BY ZenonT(60), <1>5, <3>1, <3>2
  <2>3. QED
    BY <2>1, <2>2
<1>9. ASSUME ~lost, NEW i \in k + 2 .. Len(queue), Kills(queue[i]) PROVE Reported(n, k + 1, i)
  <2>1. i \in k + 1 .. Len(queue) /\ i \in k + 2 .. Len(queue) + 1
    BY <1>1
  <2>2. Reported(m, k, i)
    BY Zenon, <1>9, <1>14, <2>1
  <2>3. QED
    BY SMTT(60), <1>7, <2>1, <2>2
<1>10. ASSUME ~lost, announce \/ suspect PROVE Reported(n, k + 1, Len(queue) + 1)
  <2>1. Len(queue) + 1 \in k + 2 .. Len(queue) + 1
    BY <1>1
  <2>2. Reported(m, k, Len(queue) + 1)
    BY Zenon, <1>10, <1>14
  <2>3. QED
    BY SMTT(60), <1>7, <2>1, <2>2
<1>11. Reached(n, k + 1)
  <2>1. (k + 1) + 1 = k + 2
    BY <1>1
  <2>2. QED
    BY ZenonT(60), <1>3, <1>4, <1>6, <1>8, <1>9, <1>10, <2>1 DEF Reached
<1>12. ASSUME m.total_violations > 0, ~m.vm_running PROVE n.total_violations > 0 /\ ~n.vm_running
  <2>1. n.total_violations > 0
    BY <1>2, <1>5, <1>12
  <2>2. ~Starts(e)
    <3>1. k + 1 \in k + 1 .. Len(queue) /\ m.total_violations # 0
      BY SMTT(60), <1>1, <1>2, <1>12
    <3>2. QED
      BY Zenon, <1>14, <3>1
  <2>3. ~n.vm_running
    BY <1>3, <1>12, <2>2 DEF Starts
  <2>4. QED
    BY <2>1, <2>3
<1>13. QED
  BY <1>11, <1>12 DEF n

-----------------------------------------------------------------------------
(* Steps of the dashboard and of the daemon                                *)

(* A turn of the polling loop takes the whole queue, and what Reached says *)
(* holds of the model it ends with.                                        *)
LEMMA TurnReaches ==
  ASSUME QueueTypes, Reached(model, 0), Turn
  PROVE  /\ Reached(model', Len(queue))
         /\ model.total_violations > 0 /\ ~model.vm_running
              => model'.total_violations > 0 /\ ~model'.vm_running
<1> DEFINE T == Taken(model, queue)
           Killed0 == model.total_violations > 0 /\ ~model.vm_running
           S == {k \in 0 .. Len(queue) :
                   /\ Reached(T[k], k)
                   /\ Killed0 => T[k].total_violations > 0 /\ ~T[k].vm_running}
<1>1. Len(queue) \in Nat
  BY DEF QueueTypes
<1>2. T[0] = model /\ \A i \in 1 .. Len(queue) : T[i] = add_event(T[i - 1], queue[i])
  BY <1>1, TakenSteps
<1>3. model' = T[Len(queue)]
  BY DEF Turn
<1> HIDE DEF T
<1>4. 0 \in S
  <2>1. 0 \in 0 .. Len(queue)
    BY <1>1
  <2>2. QED
    BY Zenon, <1>2, <2>1
<1>5. ASSUME NEW k \in 0 .. Len(queue) - 1, k \in S PROVE k + 1 \in S
  <2>1. Reached(T[k], k) /\ (Killed0 => T[k].total_violations > 0 /\ ~T[k].vm_running)
    BY Zenon, <1>5
  <2>2. k + 1 \in 0 .. Len(queue) /\ T[k + 1] = add_event(T[k], queue[k + 1])
    <3>1. k + 1 \in 1 .. Len(queue) /\ k + 1 \in 0 .. Len(queue) /\ (k + 1) - 1 = k
      BY <1>1
    <3>2. QED
      BY <1>2, <3>1
  <2>3. /\ Reached(T[k + 1], k + 1)
        /\ T[k].total_violations > 0 /\ ~T[k].vm_running
             => T[k + 1].total_violations > 0 /\ ~T[k + 1].vm_running
    BY Zenon, <2>1, <2>2, MessageKeepsReached
  <2>4. QED
    BY Zenon, <2>1, <2>2, <2>3
<1>6. Len(queue) \in S
  <2> HIDE DEF S
  <2>1. 0 .. Len(queue) \subseteq S
    BY ZenonT(60), <1>1, <1>4, <1>5, SetInduction
  <2>2. QED
    BY <1>1, <2>1
<1>7. QED
  BY Zenon, <1>3, <1>6

(* Steps that publish nothing, and announce nothing new.                   *)
LEMMA QuietDashboard ==
  ASSUME DashboardInv, UNCHANGED <<queue, model, lost, tree>>,
         announce' \/ suspect' => announce \/ suspect,
         main' = "start" => main = "start" /\ UNCHANGED <<reader, announce, suspect>>
  PROVE  DashboardInv'
<1>1. /\ QueueTypes /\ Reached(model, 0)
      /\ \A p \in DOMAIN tree : tree[p] \in BOOLEAN
      /\ main = "start" => /\ queue = <<>> /\ model.total_violations = 0
                           /\ reader = "none" /\ ~announce /\ ~suspect
  BY Zenon DEF DashboardInv
<1>2. QueueTypes'
  BY <1>1 DEF QueueTypes
<1>3. Reached(model, 0)'
  BY Zenon, <1>1 DEF Reached, Reported, Forest, IsModel
<1>4. (\A p \in DOMAIN tree : tree[p] \in BOOLEAN)'
  BY Zenon, <1>1
<1>5. (main = "start" => /\ queue = <<>> /\ model.total_violations = 0
                         /\ reader = "none" /\ ~announce /\ ~suspect)'
  BY Zenon, <1>1
<1>6. QED
  BY Zenon, <1>2, <1>3, <1>4, <1>5 DEF DashboardInv

(* A turn keeps the invariant.                                             *)
LEMMA TurnKeepsDashboard ==
  ASSUME DashboardInv, Turn, UNCHANGED reader
  PROVE  DashboardInv'
<1>1. /\ QueueTypes /\ Reached(model, 0)
      /\ \A p \in DOMAIN tree : tree[p] \in BOOLEAN
      /\ main = "start" => queue = <<>> /\ reader = "none" /\ ~announce /\ ~suspect
  BY Zenon DEF DashboardInv
<1>2. /\ queue' = <<>> /\ queue # <<>>
      /\ UNCHANGED <<main, tree, announce, suspect, lost>>
  BY DEF Turn, daemonVars
<1>3. Reached(model', Len(queue))
  BY Zenon, <1>1, TurnReaches
<1>4. QueueTypes'
  BY <1>2, MonitorAssumption DEF QueueTypes
<1>5. IsModel(model)' /\ Forest(model.processes, model.root_pids)'
  BY Zenon, <1>3 DEF Reached, IsModel, Forest
<1>6. /\ Len(queue)' = 0 /\ 0 + 1 .. Len(queue)' = {} /\ Len(queue) + 1 .. (Len(queue) + 1) - 1 = {}
      /\ Len(queue) \in Nat
  BY <1>1, <1>2 DEF QueueTypes
<1>7. ASSUME ~lost
      PROVE  /\ model'.vm_status_desc = "Kill Switch" => model'.total_violations > 0
             /\ announce \/ suspect => model'.total_violations > 0
  <2>1. announce \/ suspect => Reported(model', Len(queue), Len(queue) + 1)
    BY Zenon, <1>3, <1>7 DEF Reached
  <2>2. Reported(model', Len(queue), Len(queue) + 1) => model'.total_violations > 0
    BY Zenon, <1>6 DEF Reported
  <2>3. model'.vm_status_desc = "Kill Switch" => model'.total_violations > 0
    BY Zenon, <1>3, <1>7 DEF Reached
  <2>4. QED
    BY Zenon, <2>1, <2>2, <2>3
<1>8. Reached(model, 0)'
  BY Zenon, <1>2, <1>5, <1>6, <1>7 DEF Reached, Reported
<1>9. QED
  BY Zenon, <1>1, <1>2, <1>4, <1>8 DEF DashboardInv

(* A message that is published, dropped or pushes out the oldest one: the  *)
(* start of the VM is the first, and a kill follows a violation.           *)
LEMMA PublishKeeps ==
  ASSUME QueueTypes, Reached(model, 0),
         NEW message \in Messages, message.event_type = "EXEC" => message.pid # message.ppid,
         Publish(message), UNCHANGED model,
         Starts(message) => queue = <<>> /\ model.total_violations = 0,
         Kills(message) => announce \/ suspect,
         announce' \/ suspect' => announce \/ suspect \/ Violates(message)
  PROVE  QueueTypes' /\ Reached(model, 0)'
<1>1. /\ queue \in Seq(Messages) /\ Len(queue) <= QueueSize /\ Len(queue) \in Nat
      /\ \A i \in 1 .. Len(queue) : queue[i].event_type = "EXEC" => queue[i].pid # queue[i].ppid
      /\ QueueSize \in Nat \ {0}
  BY MonitorAssumption DEF QueueTypes
<1>2. /\ IsModel(model) /\ Forest(model.processes, model.root_pids)
      /\ \A i \in 0 + 1 .. Len(queue) :
           Starts(queue[i]) => i = 1 /\ model.total_violations = 0
      /\ ~lost =>
           /\ model.vm_status_desc = "Kill Switch" => model.total_violations > 0
           /\ \A i \in 0 + 1 .. Len(queue) : Kills(queue[i]) => Reported(model, 0, i)
           /\ announce \/ suspect => Reported(model, 0, Len(queue) + 1)
  BY Zenon DEF Reached
<1>3. IsModel(model)' /\ Forest(model.processes, model.root_pids)'
  BY Zenon, <1>2 DEF IsModel, Forest
<1>4. CASE UNCHANGED queue /\ lost'
  <2>1. QueueTypes'
    BY <1>4 DEF QueueTypes
  <2>2. (\A i \in 0 + 1 .. Len(queue) :
           Starts(queue[i]) => i = 1 /\ model.total_violations = 0)'
    BY ZenonT(60), <1>2, <1>4
  <2>3. QED
    BY ZenonT(60), <1>3, <1>4, <2>1, <2>2 DEF Reached
<1> DEFINE full == Append(queue, message)
<1>5. /\ full \in Seq(Messages) /\ Len(full) = Len(queue) + 1
      /\ \A i \in 1 .. Len(queue) : full[i] = queue[i]
      /\ full[Len(queue) + 1] = message
  BY <1>1, AppendProperties
<1> HIDE DEF full
<1>6. \A i \in 1 .. Len(full) : full[i].event_type = "EXEC" => full[i].pid # full[i].ppid
  <2>1. \A i \in 1 .. Len(full) : i \in 1 .. Len(queue) \/ i = Len(queue) + 1
    BY <1>1, <1>5
  <2>2. QED
    BY ZenonT(60), <1>1, <1>5, <2>1
<1>7. \A i \in 1 .. Len(full) : Starts(full[i]) => i = 1 /\ model.total_violations = 0
  <2> SUFFICES ASSUME NEW i \in 1 .. Len(full), Starts(full[i])
               PROVE  i = 1 /\ model.total_violations = 0
    OBVIOUS
  <2>1. CASE i \in 1 .. Len(queue)
    <3>1. i \in 0 + 1 .. Len(queue) /\ full[i] = queue[i]
      BY SMTT(60), <1>5, <2>1
    <3>2. QED
      BY ZenonT(60), <1>2, <3>1
  <2>2. CASE i = Len(queue) + 1
    <3>1. Starts(message)
      BY Zenon, <1>5, <2>2
    <3>2. queue = <<>> /\ model.total_violations = 0
      BY ZenonT(60), <3>1
    <3>3. i = 1
      BY SMTT(60), <2>2, <3>2
    <3>4. QED
      BY <3>2, <3>3
  <2>3. i \in 1 .. Len(queue) \/ i = Len(queue) + 1
    BY <1>1, <1>5
  <2>4. QED
    BY ZenonT(60), <2>1, <2>2, <2>3
<1>8. CASE queue' = full /\ Len(full) <= QueueSize /\ (lost' => lost) /\ (lost => lost')
  <2>1. QueueTypes'
    BY <1>5, <1>6, <1>8 DEF QueueTypes
  <2>2. (\A i \in 0 + 1 .. Len(queue) :
           Starts(queue[i]) => i = 1 /\ model.total_violations = 0)'
    <3>1. 0 + 1 = 1
      OBVIOUS
    <3>2. QED
      BY ZenonT(60), <1>7, <1>8, <3>1
  <2>3. ASSUME NEW i \in 1 .. Len(queue) + 1, Reported(model, 0, i)
        PROVE  Reported(model, 0, i)'
    <3>1. \A j \in 0 + 1 .. i - 1 : j \in 1 .. Len(queue)
      BY <1>1
    <3>2. \A j \in 0 + 1 .. i - 1 : queue'[j] = queue[j]
      BY Zenon, <1>5, <1>8, <3>1
    <3>3. QED
      BY ZenonT(60), <2>3, <3>2 DEF Reported, Violates, IsState
  <2>4. ASSUME ~lost PROVE announce \/ suspect => Reported(model, 0, Len(queue) + 1)
    BY Zenon, <1>2, <2>4
  <2>5. ASSUME ~lost, NEW i \in 0 + 1 .. Len(full), Kills(full[i])
        PROVE  Reported(model, 0, i)'
    <3>1. CASE i \in 1 .. Len(queue)
      <4>1. i \in 0 + 1 .. Len(queue) /\ i \in 1 .. Len(queue) + 1 /\ full[i] = queue[i]
        BY SMTT(60), <1>1, <1>5, <3>1
      <4>2. Reported(model, 0, i)
        BY Zenon, <1>2, <2>5, <4>1
      <4>3. QED
        BY ZenonT(60), <2>3, <4>1, <4>2
    <3>2. CASE i = Len(queue) + 1
      <4>1. announce \/ suspect
        BY Zenon, <1>5, <2>5, <3>2
      <4>2. Reported(model, 0, i) /\ i \in 1 .. Len(queue) + 1
        <5>1. i \in 1 .. Len(queue) + 1
          BY SMTT(60), <1>1, <3>2
        <5>2. QED
          BY ZenonT(60), <2>4, <2>5, <3>2, <4>1, <5>1
      <4>3. QED
        BY Zenon, <2>3, <4>2
    <3>3. i \in 1 .. Len(queue) \/ i = Len(queue) + 1
      BY <1>1, <1>5
    <3>4. QED
      BY Zenon, <3>1, <3>2, <3>3
  <2>6. ASSUME ~lost, announce' \/ suspect', NEW n, n = Len(full) + 1
        PROVE  Reported(model, 0, n)'
    <3>1. CASE Violates(message)
      <4>1. Len(queue) + 1 \in 0 + 1 .. n - 1
        BY SMTT(60), <1>1, <1>5, <2>6
      <4>2. queue'[Len(queue) + 1] = message
        BY Zenon, <1>5, <1>8
      <4>3. QED
        BY ZenonT(60), <3>1, <4>1, <4>2 DEF Reported, Violates, IsState
    <3>2. CASE ~Violates(message)
      <4>1. Reported(model, 0, Len(queue) + 1)
        BY ZenonT(60), <2>4, <2>6, <3>2
      <4>2. PICK i \in 1 .. Len(queue) + 1 : i = Len(queue) + 1
        BY <1>1
      <4>3. Reported(model, 0, i)'
        BY ZenonT(60), <2>3, <4>1, <4>2
      <4>4. \A j \in 0 + 1 .. i - 1 : j \in 0 + 1 .. n - 1
        BY SMTT(60), <1>1, <1>5, <2>6, <4>2
      <4>5. QED
        BY Zenon, <4>3, <4>4 DEF Reported
    <3>3. QED
      BY Zenon, <3>1, <3>2
  <2>7. ~lost' =>
          /\ (model.vm_status_desc = "Kill Switch" => model.total_violations > 0)'
          /\ (\A i \in 0 + 1 .. Len(queue) : Kills(queue[i]) => Reported(model, 0, i))'
          /\ (announce \/ suspect => Reported(model, 0, Len(queue) + 1))'
    <3> SUFFICES ASSUME ~lost'
                 PROVE  /\ (model.vm_status_desc = "Kill Switch" => model.total_violations > 0)'
                        /\ (\A i \in 0 + 1 .. Len(queue) : Kills(queue[i]) => Reported(model, 0, i))'
                        /\ (announce \/ suspect => Reported(model, 0, Len(queue) + 1))'
      BY Zenon
    <3>1. ~lost
      BY Zenon, <1>8
    <3>2. (model.vm_status_desc = "Kill Switch" => model.total_violations > 0)'
      BY Zenon, <1>2, <3>1
    <3>3. (\A i \in 0 + 1 .. Len(queue) : Kills(queue[i]) => Reported(model, 0, i))'
      BY Zenon, <1>8, <2>5, <3>1 DEF Kills, IsState
    <3>4. (announce \/ suspect => Reported(model, 0, Len(queue) + 1))'
      BY Zenon, <1>8, <2>6, <3>1 DEF Reported
    <3>5. QED
      BY Zenon, <3>2, <3>3, <3>4
  <2>8. QED
    BY ZenonT(60), <1>3, <2>1, <2>2, <2>7 DEF Reached
<1>9. CASE queue' = Tail(full) /\ Len(full) > QueueSize /\ lost'
  <2>1. /\ queue' \in Seq(Messages) /\ Len(queue') = Len(queue) /\ Len(queue) >= 1
        /\ \A i \in 1 .. Len(queue') : queue'[i] = full[i + 1]
    <3>1. full # <<>>
      BY SMTT(60), <1>1, <1>5
    <3>2. QED
      BY SMTT(60), <1>1, <1>5, <1>9, <3>1, HeadTailProperties
  <2>2. \A i \in 1 .. Len(queue') : i + 1 \in 1 .. Len(full) /\ i + 1 # 1
    BY SMTT(60), <1>1, <1>5, <2>1
  <2>3. QueueTypes'
    <3>1. \A i \in 1 .. Len(queue') :
            queue'[i].event_type = "EXEC" => queue'[i].pid # queue'[i].ppid
      BY ZenonT(60), <1>6, <2>1, <2>2
    <3>2. Len(queue') <= QueueSize
      BY <1>1, <2>1
    <3>3. QED
      BY SMTT(60), <2>1, <3>1, <3>2 DEF QueueTypes
  <2>4. (\A i \in 0 + 1 .. Len(queue) :
           Starts(queue[i]) => i = 1 /\ model.total_violations = 0)'
    <3>1. 0 + 1 = 1
      OBVIOUS
    <3>2. QED
      BY ZenonT(60), <1>7, <2>1, <2>2, <3>1
  <2>5. QED
    BY ZenonT(60), <1>3, <1>9, <2>3, <2>4 DEF Reached
<1>10. (UNCHANGED queue /\ lost')
       \/ /\ queue' = IF Len(full) > QueueSize THEN Tail(full) ELSE full
          /\ lost' = (lost \/ Len(queue) = QueueSize)
  BY Zenon DEF Publish, full
<1>11. CASE Len(queue) = QueueSize
  <2>1. Len(full) > QueueSize
    BY SMTT(60), <1>1, <1>5, <1>11
  <2>2. QED
    BY ZenonT(60), <1>4, <1>9, <1>10, <1>11, <2>1
<1>12. CASE Len(queue) # QueueSize
  <2>1. ~(Len(full) > QueueSize) /\ Len(full) <= QueueSize
    BY SMTT(60), <1>1, <1>5, <1>12
  <2>2. QED
    BY ZenonT(60), <1>4, <1>8, <1>10, <1>12, <2>1
<1>13. QED
  BY ZenonT(60), <1>11, <1>12

(* What the reader can hand to add_event.                                   *)
Events ==
    [event_type : EventTypes \cup {"UNKNOWN"}, pid : Nat, ppid : Nat,
     comm : {"interpreter", "other"}, arg : {"sensitive", "plain"}]

(* What memcpy makes of a frame is an event of a program, or none that is  *)
(* known.                                                                  *)
LEMMA DecodeIsEvent ==
  ASSUME NEW frame, frame[1] \in ChunkSet
  PROVE  /\ Decode(frame) \in Events
         /\ Decode(frame).event_type = "EXEC" => Decode(frame).pid # Decode(frame).ppid
<1> DEFINE id == frame[1][1]
<1>1. id \in Ids /\ frame[1][2] \in Nat
  BY SMTT(60), SizeIsNat DEF ChunkSet
<1>2. id[1] \in Cpus /\ id[2] \in DOMAIN Programs[id[1]]
  BY SMTT(60), <1>1 DEF Ids
<1>3. /\ EventOf(id) \in [event_type : EventTypes, pid : Nat, ppid : Nat,
                         comm : {"interpreter", "other"}, arg : {"sensitive", "plain"}]
      /\ EventOf(id).pid # EventOf(id).ppid
  <2> DEFINE E == [event_type : EventTypes, pid : Nat, ppid : Nat,
                   comm : {"interpreter", "other"}, arg : {"sensitive", "plain"}]
  <2>1. /\ Programs \in [Cpus -> Seq(E)]
        /\ \A c \in Cpus : \A i \in DOMAIN Programs[c] : Programs[c][i].pid # Programs[c][i].ppid
    BY ZenonT(60), GuestAssumption
  <2> HIDE DEF E
  <2>2. EventOf(id) \in E
    BY <1>2, <2>1 DEF EventOf
  <2>3. EventOf(id).pid # EventOf(id).ppid
    BY Zenon, <1>2, <2>1 DEF EventOf
  <2>4. QED
    BY SMTT(60), <2>2, <2>3 DEF E
<1> DEFINE e == EventOf(id)
           d == Decode(frame)
<1>4. \/ d = [event_type |-> "UNKNOWN", pid |-> 0, ppid |-> 0, comm |-> "other", arg |-> "plain"]
      \/ d = e
      \/ d = [e EXCEPT !.arg = "plain"]
  BY DEF Decode
<1> HIDE DEF e, d
<1>5. d \in Events /\ (d.event_type = "EXEC" => d.pid # d.ppid)
  BY SMTT(60), <1>3, <1>4 DEF Events, EventTypes, e
<1>6. QED
  BY <1>5 DEF d

(* What add_event of the daemon publishes for an event is a message, and   *)
(* it keeps the flags of the process tree.                                 *)
LEMMA EventIsMessage ==
  ASSUME NEW event \in Events, \A p \in DOMAIN tree : tree[p] \in BOOLEAN
  PROVE  /\ MonitorEvent(event, process_event(tree, event)) \in Messages
         /\ \A p \in DOMAIN TreeAfter(tree, event) : TreeAfter(tree, event)[p] \in BOOLEAN
<1>1. IsUntrustedScript(tree, event) \in BOOLEAN
  BY DEF IsUntrustedScript, is_preinstall_process
<1>2. is_preinstall_process(tree, event.ppid) \in BOOLEAN
  BY DEF is_preinstall_process
<1>3. \A p \in DOMAIN TreeAfter(tree, event) : TreeAfter(tree, event)[p] \in BOOLEAN
  BY SMTT(60), <1>1 DEF TreeAfter
<1>4. process_event(tree, event) \in
        [event_type : EventTypes \cup {"UNKNOWN"}, is_preinstall : BOOLEAN,
         is_sensitive : BOOLEAN, is_unauthorized : BOOLEAN]
  BY SMTT(60), <1>1, <1>2 DEF process_event, Events
<1>5. MonitorEvent(event, process_event(tree, event)) \in Messages
  BY <1>4 DEF MonitorEvent, Messages, Events
<1>6. QED
  BY <1>3, <1>5

(* An event of the guest: a violation is published before the kill that    *)
(* follows it.                                                             *)
LEMMA EventKeepsDashboard ==
  ASSUME PathInv, DashboardInv, EventCallback
  PROVE  DashboardInv'
<1> DEFINE frame == SubSeq(buffer, 1, Size)
           event == Decode(frame)
           message == MonitorEvent(event, process_event(tree, event))
<1>1. /\ QueueTypes /\ Reached(model, 0)
      /\ \A p \in DOMAIN tree : tree[p] \in BOOLEAN
      /\ main = "start" => reader = "none"
  BY Zenon DEF DashboardInv
<1>2. /\ delivered \in Seq(Seq(ChunkSet)) /\ buffer \in Seq(ChunkSet)
  BY DEF PathInv, CarrierTypes
<1>3. Size \in Nat /\ Size >= 2
  BY SizeIsNat
<1>4. reader = "cut" /\ Len(buffer) >= Size /\ delivered' = Append(delivered, frame)
  BY DEF EventCallback, Cut, Enough
<1>5. frame \in Seq(ChunkSet) /\ Len(frame) = Size /\ frame[1] \in ChunkSet
  BY SMTT(60), <1>2, <1>3, <1>4
<1> HIDE DEF frame
<1>6. delivered'[Len(delivered')] = frame
  BY SMTT(60), <1>2, <1>4, <1>5, AppendProperties
<1>7. AddEvent(event)
  BY SMTT(60), <1>6 DEF EventCallback
<1>8. event \in Events /\ (event.event_type = "EXEC" => event.pid # event.ppid)
  BY SMTT(60), <1>5, DecodeIsEvent
<1> HIDE DEF event
<1>9. /\ message \in Messages
      /\ \A p \in DOMAIN TreeAfter(tree, event) : TreeAfter(tree, event)[p] \in BOOLEAN
  BY SMTT(60), <1>1, <1>8, EventIsMessage
<1>10. message.event_type = event.event_type /\ message.pid = event.pid /\ message.ppid = event.ppid
       /\ message.rec = process_event(tree, event)
  BY DEF MonitorEvent
<1>11. event.event_type # "VM_STATE_CHANGE"
  BY SMTT(60), <1>8 DEF Events, EventTypes
<1>12. ~IsState(message)
  BY <1>10, <1>11 DEF IsState
<1>13. /\ Publish(message) /\ tree' = TreeAfter(tree, event)
       /\ UNCHANGED <<main, model>>
       /\ announce' \/ suspect' => announce \/ suspect \/ PolicyRule(message.rec)
  <2> HIDE DEF message
  <2>1. AddEvent(event) => /\ Publish(MonitorEvent(event, process_event(tree, event)))
                           /\ tree' = TreeAfter(tree, event) /\ UNCHANGED <<main, monitorVars>>
    BY Zenon DEF AddEvent
  <2>2. AddEvent(event) =>
          (announce' \/ suspect' => announce \/ suspect \/ PolicyRule(process_event(tree, event)))
    BY ZenonT(60) DEF AddEvent
  <2>3. Publish(message)
    BY <1>7, <2>1 DEF message
  <2>4. QED
    BY ZenonT(60), <1>7, <1>10, <2>1, <2>2, <2>3 DEF monitorVars
<1> HIDE DEF message
<1>14. QueueTypes' /\ Reached(model, 0)'
  <2>1. ~Starts(message) /\ ~Kills(message) /\ (Violates(message) <=> PolicyRule(message.rec))
    BY ZenonT(60), <1>12 DEF Starts, Kills, Violates
  <2>2. message.event_type = "EXEC" => message.pid # message.ppid
    BY SMTT(60), <1>8, <1>10
  <2>3. model' = model
    BY <1>13
  <2>4. announce' \/ suspect' => announce \/ suspect \/ Violates(message)
    BY ZenonT(60), <1>13, <2>1
  <2>5. QED
    BY ZenonT(60), <1>1, <1>9, <1>13, <2>1, <2>2, <2>3, <2>4, PublishKeeps
<1>15. main' # "start"
  BY SMTT(60), <1>1, <1>4, <1>13
<1>16. (\A p \in DOMAIN tree : tree[p] \in BOOLEAN)'
  BY <1>9, <1>13
<1>17. QED
  BY Zenon, <1>14, <1>15, <1>16 DEF DashboardInv

(* main and the threads that stop the VM.                                  *)
LEMMA DaemonKeepsDashboard ==
  ASSUME DashboardInv, DaemonStep, UNCHANGED reader
  PROVE  DashboardInv'
<1>1. /\ QueueTypes /\ Reached(model, 0)
      /\ \A p \in DOMAIN tree : tree[p] \in BOOLEAN
      /\ main = "start" => /\ queue = <<>> /\ model.total_violations = 0
                           /\ reader = "none" /\ ~announce /\ ~suspect
  BY Zenon DEF DashboardInv
<1>2. ASSUME NEW live \in BOOLEAN, NEW desc \in {"Started", "Kill Switch", "Graceful Shutdown"},
             Publish(VmState(live, desc)),
             UNCHANGED <<model, tree>>, main' # "start",
             live => main = "start",
             desc = "Kill Switch" => announce \/ suspect,
             announce' \/ suspect' => announce \/ suspect
      PROVE  DashboardInv'
  <2> DEFINE message == VmState(live, desc)
  <2>1. /\ message \in Messages
        /\ message.event_type = "VM_STATE_CHANGE"
        /\ message.vm_running = live /\ message.arg = desc
    BY DEF VmState, Messages
  <2>2. Publish(message)
    BY <1>2
  <2> HIDE DEF message
  <2>3. message.event_type # "EXEC"
    BY <2>1
  <2>4. /\ Starts(message) => queue = <<>> /\ model.total_violations = 0
        /\ Kills(message) => announce \/ suspect
    BY ZenonT(60), <1>1, <1>2, <2>1 DEF Starts, Kills
  <2>5. model' = model /\ tree' = tree
    BY <1>2
  <2>6. QueueTypes' /\ Reached(model, 0)'
    BY ZenonT(60), <1>1, <1>2, <2>1, <2>2, <2>3, <2>4, <2>5, PublishKeeps
  <2>7. (\A p \in DOMAIN tree : tree[p] \in BOOLEAN)'
    BY Zenon, <1>1, <2>5
  <2>8. QED
    BY ZenonT(60), <1>2, <2>6, <2>7 DEF DashboardInv
<1>3. CASE Boot
  BY Zenon, <1>2, <1>3 DEF Boot, monitorVars
<1>4. CASE Announce
  <2>1. main # "start"
    BY Zenon, <1>1, <1>4 DEF Announce
  <2>2. QED
    BY Zenon, <1>2, <1>4, <2>1 DEF Announce, monitorVars
<1>5. CASE WorkerAlerts
  <2>1. main # "start"
    BY Zenon, <1>1, <1>5 DEF WorkerAlerts
  <2>2. QED
    BY Zenon, <1>2, <1>5, <2>1 DEF WorkerAlerts, monitorVars
<1>6. CASE Shutdown
  BY Zenon, <1>2, <1>6 DEF Shutdown, monitorVars
<1>7. CASE StartHandler \/ Killed \/ WorkerStops \/ WorkerEnds \/ Exit
  <2>1. /\ UNCHANGED <<queue, model, lost, tree>> /\ announce' = announce /\ suspect' = suspect
        /\ main' = "start" => main = "start"
    BY <1>7 DEF StartHandler, Killed, WorkerStops, WorkerEnds, Exit, ipc, monitorVars
  <2>2. QED
    BY ZenonT(60), <2>1, QuietDashboard
<1>8. QED
  BY ZenonT(60), <1>3, <1>4, <1>5, <1>6, <1>7 DEF DaemonStep

-----------------------------------------------------------------------------
(* What the dashboard shows                                                *)

(* The dashboard starts empty.                                             *)
LEMMA InitDashboard == Init => DashboardInv
<1> SUFFICES ASSUME Init PROVE DashboardInv
  OBVIOUS
<1>1. /\ reader = "none" /\ main = "start" /\ tree = EmptyTree /\ announce = FALSE /\ suspect = FALSE
      /\ queue = <<>> /\ model = EmptyModel
  BY DEF Init, GuestInit, MonitorInit
<1>2. QueueTypes
  BY <1>1, MonitorAssumption DEF QueueTypes
<1>3. \A p \in DOMAIN tree : tree[p] \in BOOLEAN
  BY SMTT(60), <1>1 DEF EmptyTree
<1>4. /\ IsModel(model) /\ model.total_violations = 0 /\ model.vm_status_desc = "Offline"
      /\ model.processes = [pid \in {} |-> <<>>] /\ model.root_pids = <<>>
  BY SMTT(60), <1>1 DEF EmptyModel, IsModel
<1>5. Forest(model.processes, model.root_pids)
  <2>1. DOMAIN model.processes = {} /\ <<>> \in Seq(Nat) /\ Range(<<>>) = {} /\ IsInjective(<<>>)
    BY SMTT(60), <1>4 DEF Range, IsInjective
  <2>2. QED
    BY SMTT(60), <1>4, <2>1 DEF Forest
<1>6. 0 + 1 .. Len(queue) = {}
  BY <1>1
<1>7. Reached(model, 0)
  <2>1. ~announce /\ ~suspect /\ "Offline" # "Kill Switch"
    BY Zenon, <1>1
  <2>2. QED
    BY Zenon, <1>4, <1>5, <1>6, <2>1 DEF Reached
<1>8. QED
  BY ZenonT(60), <1>1, <1>2, <1>3, <1>4, <1>7 DEF DashboardInv

(* Every step keeps the invariant of the dashboard.                        *)
LEMMA DashboardStep == PathInv /\ DashboardInv /\ [Next]_vars => DashboardInv'
<1> SUFFICES ASSUME PathInv, DashboardInv, [Next]_vars PROVE DashboardInv'
  OBVIOUS
<1>1. ASSUME UNCHANGED <<queue, model, lost, tree, announce, suspect, main>>,
             main = "start" => UNCHANGED reader
      PROVE  DashboardInv'
  BY <1>1, QuietDashboard
<1>2. main = "start" => reader = "none"
  BY Zenon DEF DashboardInv
<1>3. CASE Guest \/ GuestFails
  <2>1. UNCHANGED reader
    BY ZenonT(60), <1>3 DEF Guest, GuestFails, GuestStep, GuestFault, Reserve, Submit, ConnectRefused, ConnectFails,
                AgentStep, Attach, NewRing, Poll, PollReturns, Cleanup, WriteChunk, Written,
                WriteFails, AgentSignal, hostVars
  <2>2. UNCHANGED <<queue, model, lost, tree, announce, suspect, main>>
    BY <1>3 DEF Guest, GuestFails, pathVars, daemonVars, ipc, monitorVars
  <2>3. QED
    BY SMTT(60), <1>1, <2>1, <2>2
<1>4. CASE Accept \/ Reader
  <2>1. UNCHANGED <<queue, model, lost, tree, announce, suspect, main>>
    BY <1>4 DEF Accept, Reader, pathVars, daemonVars, ipc, monitorVars
  <2>2. main # "start"
    BY <1>2, <1>4 DEF Accept, Reader, Read, CutDone, ReaderEnds
  <2>3. QED
    BY <1>1, <2>1, <2>2
<1>5. CASE EventCallback
  BY <1>5, EventKeepsDashboard
<1>6. CASE Host
  <2>1. DaemonStep /\ UNCHANGED reader
    BY Zenon, <1>6 DEF Host
  <2>2. QED
    BY Zenon, <2>1, DaemonKeepsDashboard
<1>7. CASE Dashboard
  <2>1. UNCHANGED reader
    BY <1>7 DEF Dashboard, telemetryVars, hostVars
  <2>2. CASE Turn
    BY SMTT(60), <2>1, <2>2, TurnKeepsDashboard
  <2>3. CASE Subscribe \/ MonitorExits
    <3>1. UNCHANGED <<queue, model, lost, tree, announce, suspect, main>>
      BY <2>3 DEF Subscribe, MonitorExits, daemonVars
    <3>2. QED
      BY SMTT(60), <1>1, <2>1, <3>1
  <2>4. QED
    BY SMTT(60), <1>7, <2>2, <2>3 DEF Dashboard
<1>8. CASE Over \/ UNCHANGED vars
  <2>1. UNCHANGED <<queue, model, lost, tree, announce, suspect, main, reader>>
    BY <1>8 DEF Over, vars, telemetryVars, hostVars, pathVars, daemonVars, ipc, monitorVars
  <2>2. QED
    BY SMTT(60), <1>1, <2>1
<1>9. QED
  BY ZenonT(60), <1>3, <1>4, <1>5, <1>6, <1>7, <1>8 DEF Next

(* A kill that is shown is shown after any step.                           *)
LEMMA KillStaysShown ==
  ASSUME DashboardInv, [Next]_vars, status(model) = "KILLED", ~lost'
  PROVE  status(model') = "KILLED"
<1>1. CASE UNCHANGED model
  BY <1>1
<1>2. CASE Turn
  <2>1. ~lost
    BY Zenon, <1>2 DEF Turn
  <2>2. QueueTypes /\ Reached(model, 0)
    BY Zenon DEF DashboardInv
  <2>3. ~model.vm_running /\ (model.total_violations > 0 \/ model.vm_status_desc = "Kill Switch")
    BY Zenon DEF status
  <2>4. model.vm_status_desc = "Kill Switch" => model.total_violations > 0
    BY Zenon, <2>1, <2>2 DEF Reached
  <2>5. model'.total_violations > 0 /\ ~model'.vm_running
    BY ZenonT(60), <1>2, <2>2, <2>3, <2>4, TurnReaches
  <2>6. QED
    BY Zenon, <2>5 DEF status
<1>3. Turn \/ UNCHANGED model
  <2>1. CASE Guest \/ GuestFails \/ Accept \/ Reader \/ EventCallback \/ Over \/ UNCHANGED vars
    BY SMTT(60), <2>1 DEF Guest, GuestFails, Accept, Reader, EventCallback, AddEvent, Over, vars, pathVars, monitorVars
  <2>2. CASE Host
    BY <2>2 DEF Host, DaemonStep, Boot, StartHandler, Announce, Killed, Shutdown, Exit,
                WorkerAlerts, WorkerStops, WorkerEnds,
                monitorVars
  <2>3. CASE Dashboard
    BY <2>3 DEF Dashboard, Subscribe, MonitorExits
  <2>4. QED
    BY ZenonT(60), <2>1, <2>2, <2>3 DEF Next
<1>4. QED
  BY SMTT(60), <1>1, <1>2, <1>3

(* Once the dashboard shows that the VM was killed it keeps showing it, as *)
(* long as every message arrives: for any guest, any size of the queue and *)
(* of the log, and wherever the polling loop cuts what the threads of the  *)
(* daemon publish.                                                         *)
THEOREM KilledStaysKilled == Spec => KilledIsFinal
<1>1. Init => PathInv /\ DashboardInv
  BY SMTT(60), InitPath, InitDashboard
<1>2. PathInv /\ DashboardInv /\ [Next]_vars => (PathInv /\ DashboardInv)'
  BY PathStep, DashboardStep
<1>3. DashboardInv /\ [Next]_vars
        => [status(model) = "KILLED" /\ ~lost' => status(model') = "KILLED"]_pathVars
  BY Zenon, KillStaysShown
<1>4. QED
  BY <1>1, <1>2, <1>3, PTL DEF Spec, KilledIsFinal

(* The dashboard's process tree is a forest with every known process in it *)
(* once, for any programs of the guest whose processes are not their own   *)
(* parents, in whatever order their starts arrive and with whatever events *)
(* lost.                                                                   *)
THEOREM TreeIsForest == Spec => []ProcessForest
<1>1. Init => PathInv /\ DashboardInv
  BY InitPath, InitDashboard
<1>2. PathInv /\ DashboardInv /\ [Next]_vars => (PathInv /\ DashboardInv)'
  BY PathStep, DashboardStep
<1>3. DashboardInv => ProcessForest
  <2>1. DashboardInv => Forest(model.processes, model.root_pids)
    BY Zenon DEF DashboardInv, Reached
  <2>2. QED
    BY Zenon, <2>1 DEF Forest, ProcessForest
<1>4. QED
  BY <1>1, <1>2, <1>3, PTL DEF Spec

=============================================================================
