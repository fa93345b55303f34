\* One caller, one engine, one schema; the JIT cannot compile bad.
CONSTANTS
    Engines = {e1}
    Schemas = {s1}
    Layouts = {l1}
    Exprs = {x, y, bad}
    Compilable = {x, y}
    Modes = {"BIT_SLICED", "SCALAR", "GPU_THROUGHPUT"}
    HasMetal = TRUE
    Callers = {t1}
    None = None
SPECIFICATION PromisesSpec
INVARIANT SdkReference
CHECK_DEADLOCK FALSE
