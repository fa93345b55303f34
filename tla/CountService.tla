---------------------------- MODULE CountService ----------------------------
(***************************************************************************)
(* What a caller of ParallelRunner::run may rely on, with no pool, queue   *)
(* or worker in sight: a call on n rows is answered once, and the answer   *)
(* counts each of the rows 0 .. n-1 exactly once; it is 0 for a query that *)
(* refers to no field.  Calls of different threads do not influence each   *)
(* other's answers.                                                        *)
(***************************************************************************)
EXTENDS Integers

CONSTANTS Callers, RowCounts, FieldCounts

VARIABLES
    busy,    \* the callers with a call in progress
    query,   \* rows and fields of each caller's latest call
    reply    \* the latest reply of each caller: row |-> times counted

vars == <<busy, query, reply>>

Exactly(q) == [r \in 0 .. (q.n - 1) |-> IF q.f = 0 THEN 0 ELSE 1]

Nothing == [n |-> 0, f |-> 0]

Init ==
    /\ busy = {}
    /\ query = [c \in Callers |-> Nothing]
    /\ reply = [c \in Callers |-> Exactly(Nothing)]

Call(c) ==
    /\ c \notin busy
    /\ busy' = busy \cup {c}
    /\ \E n \in RowCounts, f \in FieldCounts : query' = [query EXCEPT ![c] = [n |-> n, f |-> f]]
    /\ UNCHANGED reply

Reply(c) ==
    /\ c \in busy
    /\ busy' = busy \ {c}
    /\ reply' = [reply EXCEPT ![c] = Exactly(query[c])]
    /\ UNCHANGED query

(* A call on no rows is answered on the spot.                              *)
CallOnNothing(c) ==
    /\ c \notin busy
    /\ 0 \in RowCounts
    /\ query' = [query EXCEPT ![c] = Nothing]
    /\ reply' = [reply EXCEPT ![c] = Exactly(Nothing)]
    /\ UNCHANGED busy

Next == \E c \in Callers : Call(c) \/ Reply(c) \/ CallOnNothing(c)

Spec == Init /\ [][Next]_vars

FairSpec == Spec /\ \A c \in Callers : WF_vars(Reply(c))

=============================================================================
