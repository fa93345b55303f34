-------------------------- MODULE EngineApiProofs --------------------------
(***************************************************************************)
(* What an execution uses is coherent, and why a process goes down, for    *)
(* any number of engines, schemas, layouts, expressions and threads.  The  *)
(* proofs go through IInv.                                                 *)
(***************************************************************************)
EXTENDS EngineApi, TLAPS

(* IInv holds of engines nobody has created.                               *)
LEMMA InitInv == Init => IInv
<1> SUFFICES ASSUME Init PROVE IInv
  OBVIOUS
<1> USE DEF Init
<1>1. TypeOK
  BY DEF TypeOK
<1>2. LogicInv /\ CallInv /\ PipelineInv /\ DownInv
  BY DEF LogicInv, CallInv, PipelineInv, DownInv
<1>3. /\ call = [t \in Callers |-> call[t]] /\ buffers = [e \in Engines |-> buffers[e]]
      /\ building = [t \in Callers |-> building[t]]
  OBVIOUS
<1>4. ~Executed
  BY DEF Executed, Zero
<1>5. QED
  BY <1>1, <1>2, <1>3, <1>4 DEF IInv

-----------------------------------------------------------------------------
(* Executions in progress                                                  *)

(* An execution stays coherent while the history of dispatches grows.      *)
LEMMA CoherentStays ==
  ASSUME NEW x, NEW seen, NEW more, Coherent(x, seen),
         \A s \in Schemas : seen[s] \subseteq more[s]
  PROVE  Coherent(x, more)
<1>1. x \in Executions /\ x.schema \in Schemas
  BY DEF Coherent, Executions
<1>2. QED
  BY <1>1 DEF Coherent

(* A step that leaves the pipelines and the process alone keeps what is    *)
(* said of them.                                                           *)
LEMMA FramedInv ==
  ASSUME IInv, process = "up", UNCHANGED <<process, gpu>>
  PROVE  /\ PipelineInv' /\ DownInv' /\ dispatched' = dispatched
         /\ building' = [t \in Callers |-> building'[t]]
<1>1. process' = "up" /\ UNCHANGED <<pipeline, building, dispatched>>
  BY DEF gpu
<1>2. QED
  BY <1>1 DEF IInv, PipelineInv, DownInv

(* A call that changes the maps of an engine disturbs the executions that  *)
(* are in progress there, and no other.                                    *)
LEMMA ChangesKeepCalls ==
  ASSUME IInv, process = "up", NEW e \in Engines, NEW reply, reply.did # "ran",
         Changes(e, reply)
  PROVE  /\ CallInv' /\ PipelineInv' /\ DownInv' /\ ~Executed'
         /\ call' = [t \in Callers |-> call'[t]] /\ buffers' = [f \in Engines |-> buffers'[f]]
         /\ building' = [t \in Callers |-> building'[t]]
<1>1. call' = Disturbed(e) /\ UNCHANGED <<process, gpu, buffers>> /\ answer' = reply
  BY DEF Changes
<1>2. ~Executed'
  BY <1>1 DEF Executed
<1>3. call' = [t \in Callers |-> call'[t]] /\ buffers' = [f \in Engines |-> buffers'[f]]
  BY <1>1 DEF Disturbed, IInv
<1>4. /\ PipelineInv' /\ DownInv' /\ dispatched' = dispatched
      /\ building' = [t \in Callers |-> building'[t]]
  BY <1>1, FramedInv
<1>5. ASSUME NEW t \in Callers, call'[t] # None
      PROVE  \/ call'[t] \in {Undefined(f) : f \in Engines}
             \/ /\ Coherent(call'[t], dispatched')
                /\ buffers'[call'[t].engine] = t
                /\ \A u \in Callers \ {t} : ~ (call'[u] # None /\ call'[u].engine = call'[t].engine)
  <2>1. CASE InProgress(t, e)
    BY <1>1, <2>1 DEF Disturbed
  <2>2. CASE ~InProgress(t, e)
    <3>1. call'[t] = call[t] /\ call[t] # None /\ call[t].engine # e
      BY <1>1, <1>5, <2>2 DEF Disturbed, InProgress
    <3>2. CASE call[t] \in {Undefined(f) : f \in Engines}
      BY <3>1, <3>2
    <3>3. CASE call[t] \notin {Undefined(f) : f \in Engines}
      <4>1. /\ Coherent(call[t], dispatched) /\ buffers[call[t].engine] = t
            /\ \A u \in Callers \ {t} : ~InProgress(u, call[t].engine)
        BY <3>1, <3>3 DEF IInv, CallInv
      <4>2. \A u \in Callers \ {t} : ~ (call'[u] # None /\ call'[u].engine = call'[t].engine)
        BY <1>1, <3>1, <4>1 DEF Disturbed, InProgress, Undefined
      <4>3. QED
        BY <1>1, <1>4, <3>1, <4>1, <4>2
    <3>4. QED
      BY <3>2, <3>3
  <2>3. QED
    BY <2>1, <2>2
<1>6. CallInv'
  BY <1>5 DEF CallInv, InProgress, Undefined
<1>7. QED
  BY <1>2, <1>3, <1>4, <1>6

(* A process that goes down for a reason DownInv allows.                   *)
LEMMA DownKeepsInv ==
  ASSUME IInv, NEW why \in {"double delete", "deleted in use", "null kernel", "map race"},
         Down(why),
         why = "double delete" => \E e \in Engines : handle[e] = "freed",
         why = "deleted in use" => \E e \in Engines, t \in Callers : InProgress(t, e),
         why = "null kernel" =>
           \E e \in Engines, s \in Schemas :
             compiled[e][s] # None /\ compiled[e][s].expr \notin Compilable /\ Bound(e) = {},
         why = "map race" => Inserting
  PROVE  IInv'
<1>1. /\ process' = why
      /\ UNCHANGED <<handle, registry, metadata, expr_logic, compiled>>
      /\ UNCHANGED <<pipeline, building, dispatched, buffers, call, answer>>
  BY DEF Down, maps, gpu
<1>2. TypeOK' /\ LogicInv' /\ CallInv' /\ PipelineInv' /\ (Executed' => Coherent(answer, dispatched)')
  <2>1. TypeOK'
    BY <1>1 DEF IInv, TypeOK
  <2>2. LogicInv'
    BY <1>1 DEF IInv, LogicInv
  <2>3. CallInv'
    BY <1>1 DEF IInv, CallInv, InProgress
  <2>4. PipelineInv'
    BY <1>1 DEF IInv, PipelineInv
  <2>5. Executed' => Coherent(answer, dispatched)'
    BY <1>1 DEF IInv, Executed
  <2>6. QED
    BY <2>1, <2>2, <2>3, <2>4, <2>5
<1>3. DownInv'
  BY <1>1 DEF DownInv, InProgress, Bound, Inserting
<1>4. QED
  BY <1>1, <1>2, <1>3 DEF IInv

-----------------------------------------------------------------------------
(* Calls that change the maps                                              *)

(* Creating and destroying an engine leave what it stores alone; the       *)
(* second apex_destroy, or one during an execution, takes the process down.*)
LEMMA HandleKeepsInv ==
  ASSUME IInv, process = "up", NEW e \in Engines, apex_create(e) \/ apex_destroy(e)
  PROVE  IInv'
<1>1. CASE handle[e] = "freed" /\ Down("double delete")
  BY <1>1, DownKeepsInv
<1>2. CASE (\E t \in Callers : InProgress(t, e)) /\ Down("deleted in use")
  BY <1>2, DownKeepsInv
<1>3. CASE /\ handle' \in {[handle EXCEPT ![e] = "live"], [handle EXCEPT ![e] = "freed"]}
           /\ Changes(e, Zero)
           /\ UNCHANGED <<registry, metadata, expr_logic, compiled>>
  <2>1. UNCHANGED <<pipeline, dispatched>> /\ process' = "up"
    BY <1>3 DEF Changes, gpu
  <2>2. handle' \in [Engines -> {"unused", "live", "freed"}]
    BY <1>3 DEF IInv, TypeOK
  <2>3. TypeOK'
    BY <1>3, <2>1, <2>2 DEF IInv, TypeOK
  <2>4. LogicInv'
    BY <1>3 DEF IInv, LogicInv
  <2>5. QED
    BY <1>3, <2>3, <2>4, ChangesKeepCalls DEF IInv, Zero
<1>4. QED
  BY <1>1, <1>2, <1>3 DEF apex_create, apex_destroy

(* register_schema keeps the first layout of a name, so the fields looked  *)
(* up before stay those of the registry.                                   *)
LEMMA RegisterKeepsInv ==
  ASSUME IInv, process = "up", NEW e \in Engines, NEW s \in Schemas, NEW layout \in Layouts,
         apex_register_schema(e, s, layout)
  PROVE  IInv'
<1>1. /\ Changes(e, Zero) /\ UNCHANGED <<process, handle, expr_logic, compiled, pipeline, dispatched>>
      /\ registry' = [registry EXCEPT ![e][s] = register_schema(@, layout)]
      /\ metadata' = [metadata EXCEPT ![e][s] = layout]
  BY DEF apex_register_schema, Changes, gpu
<1>2. /\ registry \in [Engines -> [Schemas -> Layouts \cup {None}]]
      /\ metadata \in [Engines -> [Schemas -> Layouts \cup {None}]]
  BY DEF IInv, TypeOK
<1>3. register_schema(registry[e][s], layout) \in Layouts \cup {None}
  BY <1>2 DEF register_schema
<1>4. /\ registry' \in [Engines -> [Schemas -> Layouts \cup {None}]]
      /\ metadata' \in [Engines -> [Schemas -> Layouts \cup {None}]]
  BY <1>1, <1>2, <1>3
<1>5. TypeOK'
  BY <1>1, <1>4 DEF IInv, TypeOK
<1>6. \A f \in Engines, r \in Schemas : registry[f][r] # None => registry'[f][r] = registry[f][r]
  BY <1>1, <1>2 DEF register_schema
<1>7. ASSUME NEW f \in Engines, NEW r \in Schemas
      PROVE  /\ expr_logic'[f][r] # None => expr_logic'[f][r].fields \in {None, registry'[f][r]}
             /\ compiled'[f][r] # None => compiled'[f][r].fields = registry'[f][r]
  <2>1. expr_logic[f][r] # None => expr_logic[f][r].fields \in {None, registry[f][r]}
    BY DEF IInv, LogicInv
  <2>2. compiled[f][r] # None => compiled[f][r].fields = registry[f][r] /\ registry[f][r] # None
    BY ApiAssumption DEF IInv, LogicInv, TypeOK, Threshold
  <2>3. QED
    BY <1>1, <1>6, <2>1, <2>2
<1>8. LogicInv'
  BY <1>7 DEF LogicInv
<1>9. QED
  BY <1>1, <1>5, <1>8, ChangesKeepCalls DEF IInv, Zero

(* set_expression stores a compiled kernel with the registry's fields, or  *)
(* keeps the logic there was.                                              *)
LEMMA SetLogicKeepsInv ==
  ASSUME IInv, process = "up", NEW e \in Engines, NEW s \in Schemas, NEW x \in Exprs,
         NEW mode \in Modes, apex_set_logic(e, s, x, mode)
  PROVE  IInv'
<1>1. /\ Changes(e, Set(x \in Compilable))
      /\ UNCHANGED <<process, handle, registry, metadata, compiled, pipeline, dispatched>>
      /\ expr_logic' = [expr_logic EXCEPT ![e][s] = set_expression(e, s, x, mode)]
  BY DEF apex_set_logic, Changes, gpu
<1>2. /\ expr_logic \in [Engines -> [Schemas -> Logic \cup {None}]]
      /\ registry \in [Engines -> [Schemas -> Layouts \cup {None}]]
  BY DEF IInv, TypeOK
<1>3. /\ set_expression(e, s, x, mode) \in Logic \cup {None}
      /\ set_expression(e, s, x, mode) # None =>
           set_expression(e, s, x, mode).fields \in {None, registry[e][s]}
  BY <1>2 DEF set_expression, Logic, IInv, LogicInv
<1>4. expr_logic' \in [Engines -> [Schemas -> Logic \cup {None}]]
  BY <1>1, <1>2, <1>3
<1>5. TypeOK'
  BY <1>1, <1>4 DEF IInv, TypeOK
<1>6. \A f \in Engines, r \in Schemas :
        expr_logic'[f][r] # None => expr_logic'[f][r].fields \in {None, registry[f][r]}
  BY <1>1, <1>2, <1>3 DEF IInv, LogicInv
<1>7. LogicInv'
  BY <1>1, <1>6 DEF IInv, LogicInv
<1>8. Set(x \in Compilable).did # "ran"
  BY DEF Set
<1>9. QED
  BY <1>1, <1>5, <1>7, <1>8, ChangesKeepCalls DEF IInv

(* set_logic stores a threshold on a registered field, with or without a   *)
(* kernel.                                                                 *)
LEMMA SetThresholdKeepsInv ==
  ASSUME IInv, process = "up", NEW e \in Engines, NEW s \in Schemas, NEW x \in Exprs,
         set_logic(e, s, x)
  PROVE  IInv'
<1> DEFINE logic == [expr |-> x, mode |-> "BIT_SLICED", fields |-> registry[e][s]]
<1>1. /\ Changes(e, Zero)
      /\ UNCHANGED <<process, handle, registry, metadata, expr_logic, pipeline, dispatched>>
      /\ compiled' = [compiled EXCEPT ![e][s] = logic]
      /\ registry[e][s] # None
  BY DEF set_logic, Changes, gpu
<1>2. /\ compiled \in [Engines -> [Schemas -> Threshold \cup {None}]]
      /\ registry \in [Engines -> [Schemas -> Layouts \cup {None}]]
  BY DEF IInv, TypeOK
<1>3. logic \in Threshold \cup {None} /\ logic.fields = registry[e][s]
  BY <1>1, <1>2 DEF Threshold
<1> HIDE DEF logic
<1>4. compiled' \in [Engines -> [Schemas -> Threshold \cup {None}]]
  BY <1>1, <1>2, <1>3
<1>5. TypeOK'
  BY <1>1, <1>4 DEF IInv, TypeOK
<1>6. \A f \in Engines, r \in Schemas :
        compiled'[f][r] # None => compiled'[f][r].fields = registry[f][r]
  BY <1>1, <1>2, <1>3 DEF IInv, LogicInv
<1>7. LogicInv'
  BY <1>1, <1>6 DEF IInv, LogicInv
<1>8. QED
  BY <1>1, <1>5, <1>7, ChangesKeepCalls DEF IInv, Zero

-----------------------------------------------------------------------------
(* Executions                                                              *)

(* What the engine has stored under a name.                                *)
LEMMA StoredLogic ==
  ASSUME IInv, NEW e \in Engines, NEW s \in Schemas
  PROVE  /\ registry[e][s] \in Layouts \cup {None} /\ metadata[e][s] \in Layouts \cup {None}
         /\ expr_logic[e][s] # None =>
              expr_logic[e][s] \in Logic /\ expr_logic[e][s].fields \in {None, registry[e][s]}
         /\ compiled[e][s] # None =>
              compiled[e][s] \in Threshold /\ compiled[e][s].fields = registry[e][s]
<1>1. TypeOK /\ LogicInv
  BY DEF IInv
<1>2. /\ registry[e][s] \in Layouts \cup {None} /\ metadata[e][s] \in Layouts \cup {None}
      /\ expr_logic[e][s] \in Logic \cup {None} /\ compiled[e][s] \in Threshold \cup {None}
  BY <1>1 DEF TypeOK
<1>3. QED
  BY <1>1, <1>2 DEF LogicInv

(* An execution of stored logic, before a pipeline is chosen for it.       *)
LEMMA RanIsCoherent ==
  ASSUME NEW e \in Engines, NEW s \in Schemas, NEW logic \in Logic,
         NEW stride \in {logic.fields, metadata[e][s]}, NEW form \in {"rows", "planes"},
         metadata[e][s] \in Layouts \cup {None}, logic.fields \in {None, registry[e][s]}
  PROVE  /\ Coherent(Ran(e, s, logic, stride, form), dispatched)
         /\ Ran(e, s, logic, stride, form).engine = e
         /\ Ran(e, s, logic, stride, form).schema = s
         /\ Ran(e, s, logic, stride, form).expr = logic.expr
         /\ Ran(e, s, logic, stride, form).bound = logic.expr
         /\ Ran(e, s, logic, stride, form).mode = logic.mode
<1> DEFINE x == Ran(e, s, logic, stride, form)
<1>1. logic.expr \in Compilable /\ logic.mode \in Modes /\ logic.fields \in Layouts \cup {None}
  BY DEF Logic
<1>2. stride \in Layouts \cup {None}
  BY <1>1
<1>3. /\ x \in Executions
      /\ x.engine = e /\ x.schema = s /\ x.fields = logic.fields /\ x.stride = stride
      /\ x.expr = logic.expr /\ x.bound = logic.expr /\ x.mode = logic.mode /\ x.own = TRUE
      /\ x.mixed = (registry[e][s] # metadata[e][s])
  BY <1>1, <1>2 DEF Ran, Executions
<1> HIDE DEF x
<1>4. Coherent(x, dispatched)
  BY <1>3 DEF Coherent
<1>5. QED
  BY <1>3, <1>4 DEF x

(* A step that changes no more than the answer only has to answer with a   *)
(* coherent execution.                                                     *)
LEMMA AnswerKeepsInv ==
  ASSUME IInv, process = "up", UNCHANGED <<process, maps, gpu, buffers, call>>,
         Executed' => Coherent(answer', dispatched)
  PROVE  IInv'
<1>1. /\ UNCHANGED <<process, handle, registry, metadata, expr_logic, compiled>>
      /\ UNCHANGED <<pipeline, dispatched, buffers, call>>
  BY DEF maps, gpu
<1>2. TypeOK'
  BY <1>1 DEF IInv, TypeOK
<1>3. LogicInv'
  BY <1>1 DEF IInv, LogicInv
<1>4. CallInv'
  BY <1>1 DEF IInv, CallInv, InProgress
<1>5. /\ PipelineInv' /\ DownInv'
      /\ building' = [t \in Callers |-> building'[t]]
  BY FramedInv
<1>6. QED
  BY <1>1, <1>2, <1>3, <1>4, <1>5 DEF IInv

(* An entry point that finds nothing to run.                               *)
LEMMA NothingKeepsInv ==
  ASSUME IInv, process = "up", Nothing
  PROVE  IInv'
<1>1. UNCHANGED <<process, maps, gpu, buffers, call>> /\ ~Executed'
  BY DEF Nothing, Executed, Zero
<1>2. QED
  BY <1>1, AnswerKeepsInv

(* The pool's workers and the native paths run the kernel on buffers that  *)
(* no other call touches.                                                  *)
LEMMA RunKernelKeepsInv ==
  ASSUME IInv, process = "up", NEW e \in Engines, NEW s \in Bound(e),
         NEW form \in {"rows", "planes"}, RunKernel(e, s, expr_logic[e][s], form)
  PROVE  IInv'
<1>1. CASE Nothing
  BY <1>1, NothingKeepsInv
<1>2. CASE /\ answer' = Ran(e, s, expr_logic[e][s], metadata[e][s], form)
           /\ UNCHANGED <<process, maps, gpu, buffers, call>>
  <2>1. s \in Schemas /\ expr_logic[e][s] # None
    BY DEF Bound
  <2>2. Coherent(Ran(e, s, expr_logic[e][s], metadata[e][s], form), dispatched)
    BY <2>1, StoredLogic, RanIsCoherent
  <2>3. QED
    BY <1>2, <2>2, AnswerKeepsInv
<1>3. QED
  BY <1>1, <1>2 DEF RunKernel

(* A step of MetalDevice::dispatch leaves the engines alone, and the       *)
(* history of dispatches does not shrink.                                  *)
LEMMA GpuStepKeepsInv ==
  ASSUME IInv, process = "up", UNCHANGED <<process, maps, buffers, call>>,
         pipeline' \in [Schemas -> Compilable \cup {None}],
         dispatched' \in [Schemas -> SUBSET Compilable],
         \A s \in Schemas : dispatched[s] \subseteq dispatched'[s],
         building' = [t \in Callers |-> building'[t]], PipelineInv',
         Executed' => Coherent(answer', dispatched')
  PROVE  IInv'
<1>1. /\ process' = "up" /\ UNCHANGED <<handle, registry, metadata, expr_logic, compiled>>
      /\ UNCHANGED <<buffers, call>>
  BY DEF maps
<1>2. TypeOK'
  BY <1>1 DEF IInv, TypeOK
<1>3. LogicInv'
  BY <1>1 DEF IInv, LogicInv
<1>4. CallInv'
  <2>1. \A t \in Callers : Coherent(call[t], dispatched) => Coherent(call[t], dispatched')
    BY CoherentStays
  <2>2. QED
    BY <1>1, <2>1 DEF IInv, CallInv, InProgress
<1>5. DownInv'
  BY <1>1 DEF DownInv
<1>6. QED
  BY <1>1, <1>2, <1>3, <1>4, <1>5 DEF IInv

(* What is said of the pipelines survives a longer history.                *)
LEMMA PipelinesStay ==
  ASSUME PipelineInv, NEW more, \A s \in Schemas : dispatched[s] \subseteq more[s]
  PROVE  /\ \A s \in Schemas : pipeline[s] # None => pipeline[s] \in more[s]
         /\ \A t \in Callers : building[t] # None =>
              /\ building[t] \in [at : {"compile", "insert"}, run : Executions]
              /\ Coherent(building[t].run, more)
              /\ building[t].run.expr \in more[building[t].run.schema]
<1>1. \A s \in Schemas : pipeline[s] # None => pipeline[s] \in more[s]
  BY DEF PipelineInv
<1>2. ASSUME NEW t \in Callers, building[t] # None
      PROVE  /\ building[t] \in [at : {"compile", "insert"}, run : Executions]
             /\ Coherent(building[t].run, more)
             /\ building[t].run.expr \in more[building[t].run.schema]
  <2>1. /\ building[t] \in [at : {"compile", "insert"}, run : Executions]
        /\ Coherent(building[t].run, dispatched)
        /\ building[t].run.expr \in dispatched[building[t].run.schema]
    BY <1>2 DEF PipelineInv
  <2>2. building[t].run.schema \in Schemas
    BY <2>1 DEF Coherent, Executions
  <2>3. QED
    BY <2>1, <2>2, CoherentStays
<1>3. QED
  BY <1>1, <1>2

(* MetalDevice::dispatch may run the pipeline of another expression, but   *)
(* one that was dispatched under the same schema name.                     *)
LEMMA DispatchKeepsInv ==
  ASSUME IInv, process = "up", NEW t \in Callers, NEW e \in Engines, NEW s \in Bound(e),
         NEW stride \in {expr_logic[e][s].fields, metadata[e][s]},
         building[t] = None, expr_logic[e][s].mode = "GPU_THROUGHPUT",
         dispatch(t, e, s, expr_logic[e][s], stride)
  PROVE  IInv'
<1> DEFINE logic == expr_logic[e][s]
           run == Ran(e, s, logic, stride, "planes")
           more == [dispatched EXCEPT ![s] = @ \cup {logic.expr}]
<1>1. s \in Schemas /\ logic # None
  BY DEF Bound
<1>2. logic \in Logic /\ logic.expr \in Compilable
  BY <1>1, StoredLogic DEF Logic
<1>3. /\ Coherent(run, dispatched) /\ run.schema = s
      /\ run.expr = logic.expr /\ run.mode = "GPU_THROUGHPUT"
  BY <1>1, <1>2, StoredLogic, RanIsCoherent
<1> HIDE DEF run
<1>4. CASE Nothing
  BY <1>4, NothingKeepsInv
<1>5. CASE Inserting /\ Down("map race")
  BY <1>5, DownKeepsInv
<1>6. CASE /\ IF pipeline[s] # None
              THEN answer' \in {Zero, [run EXCEPT !.expr = pipeline[s]]} /\ UNCHANGED building
              ELSE /\ building' = [building EXCEPT ![t] = [at |-> "compile", run |-> run]]
                   /\ answer' = Zero
           /\ dispatched' = more
           /\ UNCHANGED <<process, maps, pipeline, buffers, call>>
  <2>1. /\ dispatched \in [Schemas -> SUBSET Compilable]
        /\ pipeline \in [Schemas -> Compilable \cup {None}]
        /\ building = [u \in Callers |-> building[u]] /\ PipelineInv
    BY DEF IInv, TypeOK
  <2>2. /\ more \in [Schemas -> SUBSET Compilable] /\ logic.expr \in more[s]
        /\ \A r \in Schemas : dispatched[r] \subseteq more[r]
    BY <1>1, <1>2, <2>1
  <2> HIDE DEF logic, more
  <2>3. /\ \A r \in Schemas : pipeline[r] # None => pipeline[r] \in more[r]
        /\ \A u \in Callers : building[u] # None =>
             /\ building[u] \in [at : {"compile", "insert"}, run : Executions]
             /\ Coherent(building[u].run, more)
             /\ building[u].run.expr \in more[building[u].run.schema]
    BY <2>1, <2>2, PipelinesStay
  <2>4. CASE pipeline[s] # None
    <3>1. UNCHANGED <<pipeline, building>> /\ dispatched' = more
      BY <1>6, <2>4
    <3>2. PipelineInv'
      BY <2>1, <2>3, <3>1 DEF PipelineInv
    <3>3. Executed' => Coherent(answer', more)
      <4>1. CASE answer' = Zero
        BY <4>1 DEF Executed, Zero
      <4>2. CASE answer' = [run EXCEPT !.expr = pipeline[s]]
        <5>1. run \in Executions /\ pipeline[s] \in Compilable /\ pipeline[s] \in more[s]
          BY <1>1, <1>3, <2>1, <2>3, <2>4 DEF Coherent
        <5>2. /\ answer' \in Executions /\ answer'.expr = pipeline[s]
              /\ answer'.schema = s /\ answer'.mode = "GPU_THROUGHPUT"
              /\ answer'.fields = run.fields /\ answer'.stride = run.stride
              /\ answer'.mixed = run.mixed /\ answer'.own = run.own
          BY SMTT(60), <1>3, <4>2, <5>1 DEF Executions
        <5>3. QED
          BY <1>3, <5>1, <5>2 DEF Coherent
      <4>3. QED
        BY <1>6, <2>4, <4>1, <4>2
    <3>4. QED
      BY <1>6, <2>1, <2>2, <3>1, <3>2, <3>3, GpuStepKeepsInv
  <2>5. CASE pipeline[s] = None
    <3>1. /\ building'[t] = [at |-> "compile", run |-> run]
          /\ \A u \in Callers \ {t} : building'[u] = building[u]
          /\ building' = [u \in Callers |-> building'[u]]
          /\ pipeline' = pipeline /\ dispatched' = more /\ answer' = Zero
      BY <1>6, <2>1, <2>5
    <3>2. Coherent(run, more) /\ run \in Executions
      BY <1>3, <2>2, CoherentStays DEF Coherent
    <3>3. \A u \in Callers : building'[u] # None =>
            /\ building'[u] \in [at : {"compile", "insert"}, run : Executions]
            /\ Coherent(building'[u].run, more)
            /\ building'[u].run.expr \in more[building'[u].run.schema]
      BY <1>3, <2>2, <2>3, <3>1, <3>2
    <3>4. \A u, v \in Callers :
            /\ building'[u] # None /\ building'[u].at = "insert"
            /\ building'[v] # None /\ building'[v].at = "insert"
            => u = v
      BY <2>1, <3>1 DEF PipelineInv
    <3>5. PipelineInv'
      BY <2>3, <3>1, <3>3, <3>4 DEF PipelineInv
    <3>6. QED
      BY <1>6, <2>1, <2>2, <3>1, <3>5, GpuStepKeepsInv DEF Executed, Zero
  <2>6. QED
    BY <2>4, <2>5
<1>7. QED
  BY <1>4, <1>5, <1>6 DEF dispatch, Cached, run

(* A compiled pipeline is inserted by one thread at a time, or the process *)
(* goes down.                                                              *)
LEMMA CompileKeepsInv ==
  ASSUME IInv, process = "up", NEW t \in Callers, CompilePipeline(t)
  PROVE  IInv'
<1>1. building[t] # None /\ building[t].at = "compile"
  BY DEF CompilePipeline
<1>2. /\ building = [u \in Callers |-> building[u]] /\ PipelineInv
      /\ pipeline \in [Schemas -> Compilable \cup {None}]
      /\ dispatched \in [Schemas -> SUBSET Compilable]
  BY DEF IInv, TypeOK
<1>3. building[t] \in [at : {"compile", "insert"}, run : Executions]
  BY <1>1, <1>2 DEF PipelineInv
<1>4. CASE Inserting /\ Down("map race")
  BY <1>4, DownKeepsInv
<1>5. CASE /\ \/ ~Inserting /\ building' = [building EXCEPT ![t].at = "insert"]
              \/ building' = [building EXCEPT ![t] = None]
           /\ answer' = Zero
           /\ UNCHANGED <<process, maps, pipeline, dispatched, buffers, call>>
  <2>1. /\ building' = [u \in Callers |-> building'[u]]
        /\ \A u \in Callers \ {t} : building'[u] = building[u]
        /\ building'[t] # None =>
             ~Inserting /\ building'[t] = [building[t] EXCEPT !.at = "insert"]
    BY <1>2, <1>5
  <2>2. building'[t] # None =>
          /\ building'[t] \in [at : {"compile", "insert"}, run : Executions]
          /\ building'[t].run = building[t].run /\ building'[t].at = "insert"
    BY <1>3, <2>1
  <2>3. \A u \in Callers : building'[u] # None =>
          /\ building'[u] \in [at : {"compile", "insert"}, run : Executions]
          /\ Coherent(building'[u].run, dispatched)
          /\ building'[u].run.expr \in dispatched[building'[u].run.schema]
    BY <1>1, <1>2, <2>1, <2>2 DEF PipelineInv
  <2>4. \A u, v \in Callers :
          /\ building'[u] # None /\ building'[u].at = "insert"
          /\ building'[v] # None /\ building'[v].at = "insert"
          => u = v
    BY <1>2, <2>1 DEF PipelineInv, Inserting
  <2>5. PipelineInv'
    BY <1>2, <1>5, <2>3, <2>4 DEF PipelineInv
  <2>6. QED
    BY <1>2, <1>5, <2>1, <2>5, GpuStepKeepsInv DEF Executed, Zero
<1>6. QED
  BY <1>4, <1>5 DEF CompilePipeline

(* The pipeline inserted is that of the expression dispatched.             *)
LEMMA InsertKeepsInv ==
  ASSUME IInv, process = "up", NEW t \in Callers, InsertPipeline(t)
  PROVE  IInv'
<1> DEFINE run == building[t].run
<1>1. building[t] # None
  BY DEF InsertPipeline
<1>2. /\ pipeline' = [pipeline EXCEPT ![run.schema] = run.expr]
      /\ answer' \in {Zero, run}
      /\ building' = [building EXCEPT ![t] = None]
      /\ UNCHANGED <<process, maps, dispatched, buffers, call>>
  BY DEF InsertPipeline
<1>3. /\ building = [u \in Callers |-> building[u]] /\ PipelineInv
      /\ pipeline \in [Schemas -> Compilable \cup {None}]
      /\ dispatched \in [Schemas -> SUBSET Compilable]
  BY DEF IInv, TypeOK
<1>4. Coherent(run, dispatched) /\ run.expr \in dispatched[run.schema]
  BY <1>1, <1>3 DEF PipelineInv
<1>5. run.schema \in Schemas /\ run.expr \in Compilable
  BY <1>4 DEF Coherent, Executions
<1> HIDE DEF run
<1>6. /\ pipeline' \in [Schemas -> Compilable \cup {None}]
      /\ \A s \in Schemas : pipeline'[s] # None => pipeline'[s] \in dispatched[s]
  BY <1>2, <1>3, <1>4, <1>5 DEF PipelineInv
<1>7. /\ building' = [u \in Callers |-> building'[u]]
      /\ \A u \in Callers : building'[u] # None => building'[u] = building[u]
  BY <1>2, <1>3
<1>8. PipelineInv'
  BY <1>2, <1>3, <1>6, <1>7 DEF PipelineInv
<1>9. Executed' => Coherent(answer', dispatched')
  BY <1>2, <1>4 DEF Executed, Zero
<1>10. QED
  BY <1>2, <1>3, <1>6, <1>7, <1>8, <1>9, GpuStepKeepsInv

(* A call that gathers rows into the buffers of an engine is coherent when *)
(* no other is in progress there; otherwise it disturbs all of them.       *)
LEMMA GatherKeepsInv ==
  ASSUME IInv, process = "up", NEW e \in Engines, NEW s \in Schemas, NEW t \in Callers,
         NEW logic \in Logic, NEW form \in {"rows", "planes"},
         logic.fields \in {None, registry[e][s]},
         Gather(t, e, s, logic, form)
  PROVE  IInv'
<1> DEFINE ran == Ran(e, s, logic, metadata[e][s], form)
           alone == \A u \in Callers : ~InProgress(u, e)
<1>1. CASE Nothing
  BY <1>1, NothingKeepsInv
<1>2. CASE /\ call' = [Disturbed(e) EXCEPT ![t] = IF ~alone THEN Undefined(e) ELSE ran]
           /\ buffers' = [buffers EXCEPT ![e] = t]
           /\ answer' = Zero
           /\ UNCHANGED <<process, maps, gpu>>
  <2>1. Coherent(ran, dispatched) /\ ran.engine = e
    BY StoredLogic, RanIsCoherent
  <2> HIDE DEF ran
  <2>2. UNCHANGED <<process, handle, registry, metadata, expr_logic, compiled, pipeline, dispatched>>
    BY <1>2 DEF maps, gpu
  <2>3. TypeOK' /\ LogicInv' /\ ~Executed'
    BY <1>2, <2>2 DEF IInv, TypeOK, LogicInv, Executed, Zero
  <2>4. PipelineInv' /\ DownInv' /\ building' = [u \in Callers |-> building'[u]]
    BY <1>2, FramedInv
  <2>5. call' = [u \in Callers |-> call'[u]] /\ buffers' = [f \in Engines |-> buffers'[f]]
    BY ZenonT(60), <1>2 DEF IInv, Disturbed
  <2>6. call'[t] = IF alone THEN ran ELSE Undefined(e)
    BY <1>2 DEF Disturbed
  <2>7. \A u \in Callers \ {t} : call'[u] = IF InProgress(u, e) THEN Undefined(e) ELSE call[u]
    BY <1>2 DEF Disturbed
  <2>8. /\ buffers'[e] = t
        /\ \A f \in Engines \ {e} : buffers'[f] = buffers[f]
    BY <1>2 DEF IInv
  <2>9. ASSUME NEW u \in Callers, call'[u] # None
        PROVE  \/ call'[u] \in {Undefined(f) : f \in Engines}
               \/ /\ Coherent(call'[u], dispatched)
                  /\ buffers'[call'[u].engine] = u
                  /\ \A v \in Callers \ {u} : ~ (call'[v] # None /\ call'[v].engine = call'[u].engine)
    <3>1. CASE u = t /\ alone
      <4>1. call'[u] = ran
        BY <2>6, <3>1
      <4>2. \A v \in Callers \ {u} : ~ (call'[v] # None /\ call'[v].engine = e)
        BY SMTT(60), <2>7, <3>1 DEF InProgress
      <4>3. QED
        BY <2>1, <2>8, <3>1, <4>1, <4>2
    <3>2. CASE (u = t /\ ~alone) \/ (u # t /\ InProgress(u, e))
      BY SMTT(60), <2>6, <2>7, <3>2
    <3>3. CASE u # t /\ ~InProgress(u, e)
      <4>1. call'[u] = call[u] /\ call[u] # None /\ call[u].engine # e
        BY <2>7, <2>9, <3>3 DEF InProgress
      <4>2. CASE call[u] \in {Undefined(f) : f \in Engines}
        BY <4>1, <4>2
      <4>3. CASE call[u] \notin {Undefined(f) : f \in Engines}
        <5>1. /\ Coherent(call[u], dispatched) /\ buffers[call[u].engine] = u
              /\ \A v \in Callers \ {u} : ~InProgress(v, call[u].engine)
          BY SMTT(60), <4>1, <4>3 DEF IInv, CallInv
        <5>2. call[u].engine \in Engines \ {e}
          BY SMTT(60), <4>1, <5>1 DEF Coherent, Executions
        <5>3. call'[t].engine = e
          BY <2>1, <2>6 DEF Undefined
        <5>4. \A v \in Callers \ {u} : ~ (call'[v] # None /\ call'[v].engine = call'[u].engine)
          BY SMTT(60), <2>7, <4>1, <5>1, <5>3 DEF InProgress, Undefined
        <5>5. QED
          BY <2>8, <4>1, <5>1, <5>2, <5>4
      <4>4. QED
        BY <4>2, <4>3
    <3>4. QED
      BY <3>1, <3>2, <3>3
  <2>10. CallInv'
    BY <2>2, <2>9 DEF CallInv, InProgress, Undefined
  <2>11. QED
    BY SMTT(60), <2>3, <2>4, <2>5, <2>10 DEF IInv
<1>3. QED
  BY <1>1, <1>2 DEF Gather

(* The kernel runs, and the call gathers its next rows or returns.         *)
LEMMA KernelKeepsInv ==
  ASSUME IInv, process = "up", NEW t \in Callers, Kernel(t)
  PROVE  IInv'
<1> DEFINE own == buffers[call[t].engine] = t
           done == IF call[t].did = "ran" THEN [call[t] EXCEPT !.own = @ /\ own] ELSE call[t]
<1>1. call[t] # None /\ UNCHANGED <<process, maps, gpu>>
  BY DEF Kernel
<1>2. UNCHANGED <<process, handle, registry, metadata, expr_logic, compiled, pipeline, dispatched>>
  BY <1>1 DEF maps, gpu
<1>3. TypeOK' /\ LogicInv'
  BY <1>2 DEF IInv, TypeOK, LogicInv
<1>4. PipelineInv' /\ DownInv' /\ building' = [u \in Callers |-> building'[u]]
  BY <1>1, FramedInv
<1>5. done = call[t]
  <2>1. CASE call[t] \in {Undefined(f) : f \in Engines}
    BY <2>1 DEF Undefined
  <2>2. CASE Coherent(call[t], dispatched) /\ own
    BY SMTT(60), <2>2 DEF Coherent, Executions
  <2>3. QED
    BY <1>1, <2>1, <2>2 DEF IInv, CallInv
<1>6. call[t].engine \in Engines
  BY <1>1 DEF IInv, CallInv, Undefined, Coherent, Executions
<1>7. CASE /\ call' = [call EXCEPT ![t] = done]
           /\ buffers' = [buffers EXCEPT ![done.engine] = t]
           /\ answer' = Zero
  <2> HIDE DEF done
  <2>1. call' = call
    BY SMTT(60), <1>5, <1>7 DEF IInv
  <2>2. \A u \in Callers :
          /\ call[u] # None /\ Coherent(call[u], dispatched) /\ buffers[call[u].engine] = u
          /\ \A v \in Callers \ {u} : ~InProgress(v, call[u].engine)
          => buffers'[call[u].engine] = u
    BY SMTT(60), <1>1, <1>5, <1>6, <1>7 DEF IInv, InProgress, Coherent, Executions
  <2>3. CallInv'
    BY <1>2, <2>1, <2>2 DEF IInv, CallInv, InProgress
  <2>4. buffers' = [f \in Engines |-> buffers'[f]] /\ ~Executed'
    BY <1>7 DEF IInv, Executed, Zero
  <2>5. QED
    BY <1>3, <1>4, <2>1, <2>3, <2>4 DEF IInv
<1>8. CASE /\ call' = [call EXCEPT ![t] = None]
           /\ answer' = done
           /\ UNCHANGED buffers
  <2> HIDE DEF done
  <2>1. /\ call'[t] = None /\ \A u \in Callers \ {t} : call'[u] = call[u]
        /\ call' = [u \in Callers |-> call'[u]]
    BY SMTT(60), <1>8 DEF IInv
  <2>2. CallInv'
    BY ZenonT(60), <1>2, <1>8, <2>1 DEF IInv, CallInv, InProgress
  <2>3. answer' = call[t]
    BY <1>5, <1>8
  <2>4. Executed' => Coherent(answer', dispatched')
    BY <1>1, <1>2, <2>3 DEF IInv, CallInv, Executed, Undefined
  <2>5. QED
    BY <1>3, <1>4, <1>8, <2>1, <2>2, <2>4 DEF IInv
<1>9. QED
  BY <1>7, <1>8 DEF Kernel

(* Gathering for stored expression logic.                                  *)
LEMMA GatherBoundKeepsInv ==
  ASSUME IInv, process = "up", NEW e \in Engines, NEW s \in Bound(e), NEW t \in Callers,
         Gather(t, e, s, expr_logic[e][s], FormOf(expr_logic[e][s].mode))
  PROVE  IInv'
<1>1. s \in Schemas /\ expr_logic[e][s] # None
  BY DEF Bound
<1>2. expr_logic[e][s] \in Logic /\ expr_logic[e][s].fields \in {None, registry[e][s]}
  BY <1>1, StoredLogic
<1>3. FormOf(expr_logic[e][s].mode) \in {"rows", "planes"}
  BY DEF FormOf
<1>4. QED
  BY <1>1, <1>2, <1>3, GatherKeepsInv

(* The legacy path of execute and execute_parallel: a threshold without a  *)
(* kernel takes the process down.                                          *)
LEMMA LegacyKeepsInv ==
  ASSUME IInv, process = "up", NEW e \in Engines, NEW t \in Callers,
         Bound(e) = {}, ExecuteLegacy(t, e)
  PROVE  IInv'
<1>1. CASE Nothing
  BY <1>1, NothingKeepsInv
<1>2. ASSUME NEW s \in Schemas, compiled[e][s] # None, compiled[e][s].expr \in Compilable,
             Gather(t, e, s, compiled[e][s], "planes")
      PROVE  IInv'
  <2>1. compiled[e][s] \in Threshold /\ compiled[e][s].fields = registry[e][s]
    BY <1>2, StoredLogic
  <2>2. compiled[e][s] \in Logic
    BY <1>2, <2>1, ApiAssumption DEF Threshold, Logic
  <2>3. QED
    BY <1>2, <2>1, <2>2, GatherKeepsInv
<1>3. ASSUME NEW s \in Schemas, compiled[e][s] # None, compiled[e][s].expr \notin Compilable,
             Down("null kernel")
      PROVE  IInv'
  BY <1>3, DownKeepsInv
<1>4. QED
  BY <1>1, <1>2, <1>3 DEF ExecuteLegacy

(* Every entry point that executes keeps the invariant.                    *)
LEMMA ExecutionKeepsInv ==
  ASSUME IInv, process = "up", NEW e \in Engines, NEW t \in Callers, Execution(t, e)
  PROVE  IInv'
<1>1. building[t] = None
  BY DEF Execution
<1>2. CASE execute(t, e)
  <2>1. CASE Bound(e) = {}
    BY <1>2, <2>1, LegacyKeepsInv DEF execute
  <2>2. CASE Bound(e) # {}
    <3>1. PICK s \in Bound(e) :
            IF expr_logic[e][s].mode = "GPU_THROUGHPUT" /\ metadata[e][s] # None
            THEN dispatch(t, e, s, expr_logic[e][s], metadata[e][s])
            ELSE Gather(t, e, s, expr_logic[e][s], FormOf(expr_logic[e][s].mode))
      BY <1>2, <2>2 DEF execute
    <3>2. QED
      BY <1>1, <3>1, DispatchKeepsInv, GatherBoundKeepsInv
  <2>3. QED
    BY <2>1, <2>2
<1>3. CASE execute_parallel(t, e)
  <2>1. CASE Bound(e) = {}
    BY <1>3, <2>1, LegacyKeepsInv DEF execute_parallel
  <2>2. CASE Bound(e) # {}
    <3>1. PICK s \in Bound(e) :
            RunKernel(e, s, expr_logic[e][s], FormOf(expr_logic[e][s].mode))
      BY <1>3, <2>2 DEF execute_parallel
    <3>2. FormOf(expr_logic[e][s].mode) \in {"rows", "planes"}
      BY DEF FormOf
    <3>3. QED
      BY <3>1, <3>2, RunKernelKeepsInv
  <2>3. QED
    BY <2>1, <2>2
<1>4. CASE execute_vector(t, e)
  BY <1>4, NothingKeepsInv, GatherBoundKeepsInv DEF execute_vector
<1>5. ASSUME NEW s \in Schemas, execute_native(t, e, s) \/ execute_native_parallel(e, s)
      PROVE  IInv'
  <2>1. CASE s \notin Bound(e)
    BY <1>5, <2>1, NothingKeepsInv DEF execute_native, execute_native_parallel
  <2>2. CASE s \in Bound(e) /\ RunKernel(e, s, expr_logic[e][s], "planes")
    BY <2>2, RunKernelKeepsInv
  <2>3. CASE /\ s \in Bound(e) /\ expr_logic[e][s].mode = "GPU_THROUGHPUT"
             /\ dispatch(t, e, s, expr_logic[e][s], expr_logic[e][s].fields)
    BY <1>1, <2>3, DispatchKeepsInv
  <2>4. QED
    BY <1>5, <2>1, <2>2, <2>3 DEF execute_native, execute_native_parallel
<1>6. QED
  BY <1>2, <1>3, <1>4, <1>5 DEF Execution

-----------------------------------------------------------------------------

(* Every step of every call preserves IInv.                                *)
LEMMA NextInv == IInv /\ [Next]_vars => IInv'
<1>1. ASSUME IInv, Next PROVE IInv'
  <2>1. process = "up"
    BY <1>1 DEF Next
  <2>2. ASSUME NEW e \in Engines, apex_create(e) \/ apex_destroy(e) PROVE IInv'
    BY <1>1, <2>1, <2>2, HandleKeepsInv
  <2>3. ASSUME NEW e \in Engines, NEW s \in Schemas, NEW layout \in Layouts,
               apex_register_schema(e, s, layout)
        PROVE  IInv'
    BY <1>1, <2>1, <2>3, RegisterKeepsInv
  <2>4. ASSUME NEW e \in Engines, NEW s \in Schemas, NEW x \in Exprs, NEW mode \in Modes,
               apex_set_logic(e, s, x, mode)
        PROVE  IInv'
    BY <1>1, <2>1, <2>4, SetLogicKeepsInv
  <2>5. ASSUME NEW e \in Engines, NEW s \in Schemas, NEW x \in Exprs, set_logic(e, s, x)
        PROVE  IInv'
    BY <1>1, <2>1, <2>5, SetThresholdKeepsInv
  <2>6. ASSUME NEW e \in Engines, NEW t \in Callers, Execution(t, e) PROVE IInv'
    BY <1>1, <2>1, <2>6, ExecutionKeepsInv
  <2>7. ASSUME NEW t \in Callers, Kernel(t) \/ CompilePipeline(t) \/ InsertPipeline(t)
        PROVE  IInv'
    BY <1>1, <2>1, <2>7, KernelKeepsInv, CompileKeepsInv, InsertKeepsInv
  <2>8. QED
    BY <1>1, <2>2, <2>3, <2>4, <2>5, <2>6, <2>7 DEF Next
<1>2. ASSUME IInv, UNCHANGED vars PROVE IInv'
  <2>1. /\ UNCHANGED <<process, handle, registry, metadata, expr_logic, compiled>>
        /\ UNCHANGED <<pipeline, building, dispatched, buffers, call, answer>>
    BY <1>2 DEF vars, maps, gpu
  <2>2. TypeOK' /\ LogicInv'
    BY <1>2, <2>1 DEF IInv, TypeOK, LogicInv
  <2>3. CallInv'
    BY <1>2, <2>1 DEF IInv, CallInv, InProgress
  <2>4. PipelineInv'
    BY <1>2, <2>1 DEF IInv, PipelineInv
  <2>5. DownInv'
    BY <1>2, <2>1 DEF IInv, DownInv, InProgress, Inserting, Bound
  <2>6. QED
    BY <1>2, <2>1, <2>2, <2>3, <2>4, <2>5 DEF IInv, Executed
<1>3. QED
  BY <1>1, <1>2

(* The inductive invariant: the logic an engine stores, the executions in  *)
(* progress, the pipelines, the last answer and the reasons a process is   *)
(* down for agree, whatever calls of whatever threads overlap.             *)
THEOREM EngineInvariant == Spec => []IInv
<1>1. QED
  BY InitInv, NextInv, PTL DEF Spec

(* The offsets and the stride of an execution belong to one layout, unless *)
(* its schema was registered again with another one.                       *)
THEOREM OffsetsMatchStride == Spec => []OneLayout
<1>1. IInv => OneLayout
  BY DEF IInv, Coherent, OneLayout
<1>2. QED
  BY <1>1, EngineInvariant, PTL

(* An execution evaluates the expression bound to its schema, or, on the   *)
(* GPU, one dispatched earlier under the same schema name: the cache of    *)
(* MetalDevice::dispatch never mixes up two names, also when threads build *)
(* pipelines for one name at the same time.                                *)
THEOREM PipelinesAreOfTheirSchema == Spec => []RunsBoundExpression
<1>1. IInv => RunsBoundExpression
  BY DEF IInv, Coherent, RunsBoundExpression
<1>2. QED
  BY <1>1, EngineInvariant, PTL

(* An execution that no other call disturbed read its own caller's rows in *)
(* every chunk, although the engine's gather buffers are shared.           *)
THEOREM RowsAreTheCallers == Spec => []OwnRows
<1>1. IInv => OwnRows
  BY DEF IInv, Coherent, OwnRows
<1>2. QED
  BY <1>1, EngineInvariant, PTL

=============================================================================
