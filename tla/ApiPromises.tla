---------------------------- MODULE ApiPromises ----------------------------
(***************************************************************************)
(* The calls of EngineApi, and which of the sentences that                 *)
(* docs/SDK_REFERENCE.md says of them have failed so far.                  *)
(***************************************************************************)
EXTENDS EngineApi

VARIABLE broken  \* history: the promises that did not hold of some call

(* "destroy", line 68: apex_destroy is "Safe to call multiple times on     *)
(* same handle (no-op after first call)".                                  *)
(* "error code", line 155: apex_set_logic returns "Non-zero error code on  *)
(* failure".                                                               *)
(* "logic", line 145: apex_set_logic is to "Set the expression logic to    *)
(* evaluate on data".                                                      *)
(* "count", line 244: apex_execute_parallel returns "Total match count on  *)
(* success"; line 710 offers it APEX_EXEC_MODE_GPU_THROUGHPUT.             *)
Promises == {"destroy", "error code", "logic", "count"}

(* What the last call did is not what was promised of it.  A kernel that   *)
(* is handed rows where it expects planes counts nothing meaningful.       *)
Breaks(promise) ==
    CASE promise = "destroy" -> process = "double delete"
      [] promise = "error code" -> answer.did = "set" /\ answer.code = 0 /\ ~answer.stored
      [] promise = "logic" -> Executed /\ answer.expr # answer.bound
      [] promise = "count" ->
           Executed /\ answer.mode = "GPU_THROUGHPUT" /\ answer.form # answer.expects

PromisesInit == Init /\ broken = {}

PromisesNext == Next /\ broken' = broken \cup {p \in Promises : Breaks(p)'}

PromisesSpec == PromisesInit /\ [][PromisesNext]_<<vars, broken>>

(* docs/SDK_REFERENCE.md, lines 68, 145, 155 and 244, quoted above.  They  *)
(* say that no promise is ever broken; stated here in a weaker form, that  *)
(* one of the four is kept, so that its violation exhibits a call that     *)
(* breaks each of them.                                                    *)
SdkReference == broken # Promises

=============================================================================
