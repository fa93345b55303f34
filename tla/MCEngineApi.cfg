\* One engine with two schemas, two layouts and two expressions; bad is one the
\* JIT cannot compile.  What SCALAR does here, BIT_SLICED does too.
CONSTANTS
    Engines = {e1}
    Schemas = {s1, s2}
    Layouts = {l1, l2}
    Exprs = {x, y, bad}
    Compilable = {x, y}
    Modes = {"BIT_SLICED", "GPU_THROUGHPUT"}
    HasMetal = TRUE
    Callers = {t1, t2}
    None = None
CONSTRAINT FiveSet
SYMMETRY Symmetry
SPECIFICATION Spec
INVARIANTS
    IInv
    OneLayout
    RunsBoundExpression
    OwnRows
CHECK_DEADLOCK FALSE
