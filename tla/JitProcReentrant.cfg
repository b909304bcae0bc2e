\* A running body may find its own bytecode stale and call itself again.
SPECIFICATION Spec
CONSTANTS
    Cmds = {c1, c2}
    Procs = {p1, p2, p3}
    Codes = {k1, k2, k3}
    NULL = NULL
    WILD = WILD
    JIT_REQINVOKE = 1
    MaxDepth = 2
    MaxEpoch = 1
    Reentrant = TRUE
SYMMETRY Symmetric
INVARIANTS ActivationsLive
CHECK_DEADLOCK FALSE
