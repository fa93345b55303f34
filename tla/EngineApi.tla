----------------------------- MODULE EngineApi -----------------------------
(***************************************************************************)
(* The state an ApexEngine keeps between calls, and the calls of the C API *)
(* that read and change it (src/api/engine.cpp, src/core/registry.cpp,     *)
(* src/api/aarchgate_c_api.cpp, and the pipeline cache of                  *)
(* src/gpu/metal_device.mm, which the engines of a process share).         *)
(*                                                                         *)
(* An expression and a schema layout (offsets and stride) are opaque: the  *)
(* modules ExprKernel and ThreadPool say what a kernel computes.  Here an  *)
(* execution is the record of what it evaluated, and with which layout.    *)
(* Calls of several threads may overlap (the Python binding releases the   *)
(* interpreter lock around an execution).  Those that gather rows into the *)
(* buffers of the engine take several steps, and so do those that build a  *)
(* GPU pipeline; the others take one.  Where the code has no defined       *)
(* behaviour left (a second delete, a call through a null kernel, two      *)
(* threads in an unlocked map) the process is down and nothing follows.    *)
(***************************************************************************)
EXTENDS Integers, FiniteSets

CONSTANTS
    Engines, Schemas, Layouts,
    Exprs,       \* expression trees
    Compilable,  \* those the JIT compiles; it returns nullptr for the others
    Modes,       \* execution modes in use, among them that of set_logic
    HasMetal,    \* built for Apple, with a Metal device
    Callers,     \* threads
    None         \* no value

ASSUME ApiAssumption ==
    /\ Compilable \subseteq Exprs
    /\ Modes \subseteq {"BIT_SLICED", "SCALAR", "GPU_THROUGHPUT"}
    /\ "BIT_SLICED" \in Modes
    /\ HasMetal \in BOOLEAN
    /\ None \notin Layouts /\ None \notin Exprs

VARIABLES
    process,     \* "up", or why its behaviour is undefined
    handle,      \* "unused", "live" or "freed"
    registry,    \* registry_: schema -> layout of the offsets
    metadata,    \* schema_metadata_: schema -> layout of the stride
    expr_logic,  \* expr_logic_
    compiled,    \* compiled_logic_, the legacy single-field logic
    pipeline,    \* pipeline_cache_ of the MetalDevice singleton
    buffers,     \* field_buffers_: the thread whose rows they hold
    call,        \* executions in progress on the buffers
    building,    \* executions that found no pipeline, and how far they are
    dispatched,  \* history: the expressions dispatched under a schema name
    answer       \* what the last call did

maps == <<handle, registry, metadata, expr_logic, compiled>>
gpu == <<pipeline, building, dispatched>>
vars == <<process, maps, gpu, buffers, call, answer>>

Logic == [expr : Compilable, mode : Modes, fields : Layouts \cup {None}]

(* set_logic stores what compile_comparison returns, nullptr included.     *)
Threshold == [expr : Exprs, mode : {"BIT_SLICED"}, fields : Layouts]

Zero == [did |-> "nothing"]

(* apex_set_logic returns 0; stored says whether set_expression kept it.   *)
Set(stored) == [did |-> "set", code |-> 0, stored |-> stored]

(* An execution: the expression bound to the schema and the one evaluated, *)
(* the layouts of its offsets and stride, and whether the schema had two;  *)
(* the form of the data handed to the kernel and the form it expects; and  *)
(* whether the rows were the caller's.                                     *)
Ran(e, s, logic, stride, form) ==
    [did |-> "ran", engine |-> e, schema |-> s, bound |-> logic.expr, expr |-> logic.expr,
     mode |-> logic.mode, fields |-> logic.fields, stride |-> stride,
     mixed |-> registry[e][s] # metadata[e][s], form |-> form,
     expects |-> IF logic.mode = "SCALAR" THEN "rows" ELSE "planes",
     own |-> TRUE]

(* The result of one that another call interferes with is anything.        *)
Undefined(e) == [did |-> "undefined", engine |-> e]

Init ==
    /\ process = "up"
    /\ handle = [e \in Engines |-> "unused"]
    /\ registry = [e \in Engines |-> [s \in Schemas |-> None]]
    /\ metadata = [e \in Engines |-> [s \in Schemas |-> None]]
    /\ expr_logic = [e \in Engines |-> [s \in Schemas |-> None]]
    /\ compiled = [e \in Engines |-> [s \in Schemas |-> None]]
    /\ pipeline = [s \in Schemas |-> None]
    /\ buffers = [e \in Engines |-> None]
    /\ call = [t \in Callers |-> None]
    /\ building = [t \in Callers |-> None]
    /\ dispatched = [s \in Schemas |-> {}]
    /\ answer = Zero

-----------------------------------------------------------------------------

InProgress(t, e) == call[t] # None /\ call[t].engine = e

(* The executions in progress on engine e are disturbed.                   *)
Disturbed(e) ==
    [t \in Callers |-> IF InProgress(t, e) THEN Undefined(e) ELSE call[t]]

(* What every call that changes the maps of engine e does besides.         *)
Changes(e, reply) ==
    /\ call' = Disturbed(e)
    /\ answer' = reply
    /\ UNCHANGED <<process, gpu, buffers>>

(* Behaviour is undefined from here on.                                    *)
Down(why) ==
    /\ process' = why
    /\ UNCHANGED <<maps, gpu, buffers, call, answer>>

apex_create(e) ==
    /\ handle[e] = "unused"
    /\ handle' = [handle EXCEPT ![e] = "live"]
    /\ Changes(e, Zero)
    /\ UNCHANGED <<registry, metadata, expr_logic, compiled>>

(* Deletes whatever the handle points to: a second call deletes the engine *)
(* again, and a call during an execution takes it away under its feet.     *)
apex_destroy(e) ==
    \/ handle[e] = "freed" /\ Down("double delete")
    \/ /\ handle[e] = "live" /\ \E t \in Callers : InProgress(t, e)
       /\ Down("deleted in use")
    \/ /\ handle[e] = "live" /\ \A t \in Callers : ~InProgress(t, e)
       /\ handle' = [handle EXCEPT ![e] = "freed"]
       /\ Changes(e, Zero)
       /\ UNCHANGED <<registry, metadata, expr_logic, compiled>>

(* Mutant: a second registration replaces the first in the registry too.   *)
register_schema_replacing(old, layout) == layout

(* SchemaRegistry::register_schema emplaces: the first layout registered   *)
(* under a name stays.                                                     *)
register_schema(old, layout) == IF old = None THEN layout ELSE old

(* The engine's own metadata keeps the last layout.                        *)
apex_register_schema(e, s, layout) ==
    /\ handle[e] = "live"
    /\ registry' = [registry EXCEPT ![e][s] = register_schema(@, layout)]
    /\ metadata' = [metadata EXCEPT ![e][s] = layout]
    /\ Changes(e, Zero)
    /\ UNCHANGED <<handle, expr_logic, compiled>>

(* Mutant: the logic is stored without looking at the kernel.              *)
set_expression_unchecked(e, s, x, mode) ==
    [expr |-> x, mode |-> mode, fields |-> registry[e][s]]

(* set_expression looks the fields up in the registry; it keeps the old    *)
(* logic when the JIT returns nullptr.                                     *)
set_expression(e, s, x, mode) ==
    IF x \in Compilable THEN [expr |-> x, mode |-> mode, fields |-> registry[e][s]]
    ELSE expr_logic[e][s]

(* apex_set_logic returns 0 in both cases.                                 *)
apex_set_logic(e, s, x, mode) ==
    /\ handle[e] = "live"
    /\ expr_logic' = [expr_logic EXCEPT ![e][s] = set_expression(e, s, x, mode)]
    /\ Changes(e, Set(x \in Compilable))
    /\ UNCHANGED <<handle, registry, metadata, compiled>>

(* ApexEngine::set_logic: a threshold on one field, stored with whatever   *)
(* kernel the JIT returned.                                                *)
set_logic(e, s, x) ==
    /\ handle[e] = "live"
    /\ registry[e][s] # None
    /\ compiled' = [compiled EXCEPT ![e][s] =
                      [expr |-> x, mode |-> "BIT_SLICED", fields |-> registry[e][s]]]
    /\ Changes(e, Zero)
    /\ UNCHANGED <<handle, registry, metadata, expr_logic>>

Bound(e) == {s \in Schemas : expr_logic[e][s] # None}

(* Nothing is set, there are no rows, or there is no memory: 0.            *)
Nothing == answer' = Zero /\ UNCHANGED <<process, maps, gpu, buffers, call>>

(* Mutant: the cache is looked up by nothing.                              *)
CachedAny(s) ==
    LET some == {pipeline[r] : r \in Schemas} \ {None}
    IN  IF some = {} THEN None ELSE CHOOSE x \in some : TRUE

(* pipeline_cache_.find: the key is the name of the schema alone.          *)
Cached(s) == pipeline[s]

(* pipeline_cache_ has no lock: a thread that is inserting in it.          *)
Inserting == \E t \in Callers : building[t] # None /\ building[t].at = "insert"

(* MetalDevice::dispatch, up to the lookup.  With no device or no fields   *)
(* it returns 0, and so it does when the columns cannot be mapped after a  *)
(* hit.  On a miss the source is copied: the engine is not read again.     *)
dispatch(t, e, s, logic, stride) ==
    LET run == Ran(e, s, logic, stride, "planes")
    IN  \/ Nothing
        \/ HasMetal /\ logic.fields # None /\ Inserting /\ Down("map race")
        \/ /\ HasMetal /\ logic.fields # None /\ ~Inserting
           /\ IF Cached(s) # None
              THEN answer' \in {Zero, [run EXCEPT !.expr = Cached(s)]} /\ UNCHANGED building
              ELSE /\ building' = [building EXCEPT ![t] = [at |-> "compile", run |-> run]]
                   /\ answer' = Zero
           /\ dispatched' = [dispatched EXCEPT ![s] = @ \cup {logic.expr}]
           /\ UNCHANGED <<process, maps, pipeline, buffers, call>>

(* The shader compiles, or dispatch returns 0 and caches nothing.          *)
CompilePipeline(t) ==
    /\ building[t] # None /\ building[t].at = "compile"
    /\ \/ Inserting /\ Down("map race")
       \/ /\ \/ ~Inserting /\ building' = [building EXCEPT ![t].at = "insert"]
             \/ building' = [building EXCEPT ![t] = None]
          /\ answer' = Zero
          /\ UNCHANGED <<process, maps, pipeline, dispatched, buffers, call>>

(* operator[] replaces what another thread inserted since the lookup.      *)
InsertPipeline(t) ==
    /\ building[t] # None /\ building[t].at = "insert"
    /\ LET run == building[t].run
       IN  /\ pipeline' = [pipeline EXCEPT ![run.schema] = run.expr]
           /\ answer' \in {Zero, run}
    /\ building' = [building EXCEPT ![t] = None]
    /\ UNCHANGED <<process, maps, dispatched, buffers, call>>

(* The kernel runs on buffers of the call's own (a worker's of the pool,   *)
(* or the caller's planes).                                                *)
RunKernel(e, s, logic, form) ==
    \/ Nothing
    \/ /\ metadata[e][s] # None
       /\ answer' = Ran(e, s, logic, metadata[e][s], form)
       /\ UNCHANGED <<process, maps, gpu, buffers, call>>

(* The rows of thread t are gathered into the buffers of the engine; so    *)
(* may those of other calls in progress be.                                *)
Gather(t, e, s, logic, form) ==
    \/ Nothing
    \/ /\ metadata[e][s] # None
       /\ call' = [Disturbed(e) EXCEPT ![t] =
                     IF \E u \in Callers : InProgress(u, e) THEN Undefined(e)
                     ELSE Ran(e, s, logic, metadata[e][s], form)]
       /\ buffers' = [buffers EXCEPT ![e] = t]
       /\ answer' = Zero
       /\ UNCHANGED <<process, maps, gpu>>

(* The kernel runs on what the buffers hold, and the next chunk of rows is *)
(* gathered or the call returns.                                           *)
Kernel(t) ==
    /\ call[t] # None
    /\ LET own == buffers[call[t].engine] = t
           done == IF call[t].did = "ran" THEN [call[t] EXCEPT !.own = @ /\ own] ELSE call[t]
       IN \/ /\ call' = [call EXCEPT ![t] = done]
             /\ buffers' = [buffers EXCEPT ![done.engine] = t]
             /\ answer' = Zero
          \/ /\ call' = [call EXCEPT ![t] = None]
             /\ answer' = done
             /\ UNCHANGED buffers
    /\ UNCHANGED <<process, maps, gpu>>

(* process_chunk_expr and worker_thread slice the rows in one mode only.   *)
FormOf(mode) == IF mode = "BIT_SLICED" THEN "planes" ELSE "rows"

(* The legacy path, when no expression is set: the kernel is called        *)
(* without a look at it.                                                   *)
ExecuteLegacy(t, e) ==
    IF \A s \in Schemas : compiled[e][s] = None THEN Nothing
    ELSE \E s \in Schemas :
           /\ compiled[e][s] # None
           /\ IF compiled[e][s].expr \in Compilable
              THEN Gather(t, e, s, compiled[e][s], "planes")
              ELSE Nothing \/ (metadata[e][s] # None /\ Down("null kernel"))

(* expr_logic_.begin(): the first of the schemas with an expression, in    *)
(* the order of the hash map.                                              *)
execute(t, e) ==
    IF Bound(e) = {} THEN ExecuteLegacy(t, e)
    ELSE \E s \in Bound(e) :
           LET logic == expr_logic[e][s]
           IN  IF logic.mode = "GPU_THROUGHPUT" /\ metadata[e][s] # None
               THEN dispatch(t, e, s, logic, metadata[e][s])
               ELSE Gather(t, e, s, logic, FormOf(logic.mode))

(* Mutant: the pool's workers gather into the buffers of the engine.       *)
execute_parallel_shared(t, e) ==
    IF Bound(e) = {} THEN ExecuteLegacy(t, e)
    ELSE /\ buffers' = [buffers EXCEPT ![e] = t]
         /\ answer' = Zero
         /\ UNCHANGED <<process, maps, gpu, call>>

(* The thread pool runs the kernel in every mode, on its own buffers.      *)
execute_parallel(t, e) ==
    IF Bound(e) = {} THEN ExecuteLegacy(t, e)
    ELSE \E s \in Bound(e) : RunKernel(e, s, expr_logic[e][s], FormOf(expr_logic[e][s].mode))

execute_vector(t, e) ==
    IF Bound(e) = {} THEN Nothing
    ELSE \E s \in Bound(e) : Gather(t, e, s, expr_logic[e][s], FormOf(expr_logic[e][s].mode))

(* The caller passes bit-planes, which go to the kernel of any mode.       *)
execute_native(t, e, s) ==
    IF s \notin Bound(e) THEN Nothing
    ELSE IF expr_logic[e][s].mode = "GPU_THROUGHPUT"
         THEN dispatch(t, e, s, expr_logic[e][s], expr_logic[e][s].fields)
    ELSE RunKernel(e, s, expr_logic[e][s], "planes")

execute_native_parallel(e, s) ==
    IF s \notin Bound(e) THEN Nothing
    ELSE RunKernel(e, s, expr_logic[e][s], "planes")

Execution(t, e) ==
    /\ handle[e] = "live" /\ call[t] = None /\ building[t] = None
    /\ \/ execute(t, e) \/ execute_parallel(t, e) \/ execute_vector(t, e)
       \/ \E s \in Schemas : execute_native(t, e, s) \/ execute_native_parallel(e, s)

Next ==
    /\ process = "up"
    /\ \/ \E e \in Engines :
            \/ apex_create(e) \/ apex_destroy(e)
            \/ \E s \in Schemas :
                 \/ \E layout \in Layouts : apex_register_schema(e, s, layout)
                 \/ \E x \in Exprs, mode \in Modes : apex_set_logic(e, s, x, mode)
                 \/ \E x \in Exprs : set_logic(e, s, x)
            \/ \E t \in Callers : Execution(t, e)
       \/ \E t \in Callers : Kernel(t) \/ CompilePipeline(t) \/ InsertPipeline(t)

Spec == Init /\ [][Next]_vars

-----------------------------------------------------------------------------
(* Properties                                                              *)

(* Type invariant of the engine's maps: an expression is stored with a     *)
(* kernel that was compiled for it, a threshold perhaps without one.       *)
TypeOK ==
    /\ process \in {"up", "double delete", "deleted in use", "null kernel", "map race"}
    /\ handle \in [Engines -> {"unused", "live", "freed"}]
    /\ registry \in [Engines -> [Schemas -> Layouts \cup {None}]]
    /\ metadata \in [Engines -> [Schemas -> Layouts \cup {None}]]
    /\ expr_logic \in [Engines -> [Schemas -> Logic \cup {None}]]
    /\ compiled \in [Engines -> [Schemas -> Threshold \cup {None}]]
    /\ pipeline \in [Schemas -> Compilable \cup {None}]
    /\ dispatched \in [Schemas -> SUBSET Compilable]

(* An execution that no other call interfered with.                        *)
Executed == answer.did = "ran"

(* The field descriptors a kernel uses were looked up when its expression  *)
(* was set.  They are still those of the schema when it runs: unless a     *)
(* schema was registered again with another layout, the offsets and the    *)
(* stride of an execution belong to one layout.                            *)
OneLayout == Executed /\ answer.fields # None /\ ~answer.mixed => answer.fields = answer.stride

(* An execution evaluates the expression bound to its schema, with one     *)
(* exception: on the GPU it may evaluate another one, if that was          *)
(* dispatched earlier under the same schema name, by any thread on any     *)
(* engine of the process.  A first use of a name, and a name used with one *)
(* expression only, always run their own.                                  *)
RunsBoundExpression ==
    Executed /\ answer.expr # answer.bound =>
      answer.mode = "GPU_THROUGHPUT" /\ answer.expr \in dispatched[answer.schema]

(* An execution reads its own caller's rows in every chunk unless, while   *)
(* it is in progress, another thread calls execute or execute_vector on    *)
(* the same engine (or execute_parallel, when no expression is set), or    *)
(* changes the engine: executions by the thread pool, on the GPU and of    *)
(* bit-planes may overlap with it freely.                                  *)
OwnRows == Executed => answer.own

-----------------------------------------------------------------------------
(* The inductive invariant behind these properties.                        *)

Executions ==
    [did : {"ran"}, engine : Engines, schema : Schemas, bound : Compilable, expr : Compilable,
     mode : Modes, fields : Layouts \cup {None}, stride : Layouts \cup {None},
     mixed : BOOLEAN, form : {"rows", "planes"}, expects : {"rows", "planes"}, own : BOOLEAN]

(* The logic an engine stores: its fields are those of the registry, where *)
(* the first layout stays; set_logic only stores thresholds on a           *)
(* registered field.                                                       *)
LogicInv ==
    \A e \in Engines, s \in Schemas :
      /\ expr_logic[e][s] # None => expr_logic[e][s].fields \in {None, registry[e][s]}
      /\ compiled[e][s] # None => compiled[e][s].fields = registry[e][s]

(* An execution that used one layout, its own rows, and its own expression *)
(* or one of those seen on the GPU under its schema's name.                *)
Coherent(x, seen) ==
    /\ x \in Executions
    /\ x.fields # None /\ ~x.mixed => x.fields = x.stride
    /\ x.expr # x.bound => x.mode = "GPU_THROUGHPUT" /\ x.expr \in seen[x.schema]
    /\ x.own = TRUE

(* An undisturbed execution on the buffers of an engine is the only one    *)
(* there, and the buffers hold its rows.                                   *)
CallInv ==
    \A t \in Callers : call[t] # None =>
      \/ call[t] \in {Undefined(e) : e \in Engines}
      \/ /\ Coherent(call[t], dispatched)
         /\ buffers[call[t].engine] = t
         /\ \A u \in Callers \ {t} : ~InProgress(u, call[t].engine)

(* A pipeline is one of an expression dispatched under the name it is      *)
(* cached by, and so is one that is being built.  One thread inserts.      *)
PipelineInv ==
    /\ \A s \in Schemas : pipeline[s] # None => pipeline[s] \in dispatched[s]
    /\ \A t \in Callers : building[t] # None =>
         /\ building[t] \in [at : {"compile", "insert"}, run : Executions]
         /\ Coherent(building[t].run, dispatched)
         /\ building[t].run.expr \in dispatched[building[t].run.schema]
    /\ \A t, u \in Callers :
         /\ building[t] # None /\ building[t].at = "insert"
         /\ building[u] # None /\ building[u].at = "insert"
         => t = u

(* Why the process is down: an engine was destroyed twice, or during an    *)
(* execution; a threshold without a kernel was executed; two threads met   *)
(* in the pipeline cache.  Expressions are never run without a kernel.     *)
DownInv ==
    /\ process = "double delete" => \E e \in Engines : handle[e] = "freed"
    /\ process = "deleted in use" => \E e \in Engines, t \in Callers : InProgress(t, e)
    /\ process = "null kernel" =>
         \E e \in Engines, s \in Schemas :
           /\ compiled[e][s] # None /\ compiled[e][s].expr \notin Compilable
           /\ Bound(e) = {}
    /\ process = "map race" => Inserting

(* What holds between any two steps of any calls: the types, the logic     *)
(* stored, the executions in progress, the pipelines, the causes of        *)
(* undefined behaviour and the last answer.                                *)
IInv ==
    /\ TypeOK
    /\ call = [t \in Callers |-> call[t]] /\ buffers = [e \in Engines |-> buffers[e]]
    /\ building = [t \in Callers |-> building[t]]
    /\ LogicInv
    /\ CallInv
    /\ PipelineInv
    /\ DownInv
    /\ Executed => Coherent(answer, dispatched)

=============================================================================
