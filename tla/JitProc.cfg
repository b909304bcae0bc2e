\* Procedures are never recompiled while one of their bodies runs.
SPECIFICATION Spec
CONSTANTS
    Cmds = {c1, c2}
    Procs = {p1, p2, p3}
    Codes = {k1, k2, k3}
    NULL = NULL
    WILD = WILD
    JIT_REQINVOKE = 1
    MaxDepth = 3
    MaxEpoch = 2
    Reentrant = FALSE
SYMMETRY Symmetric
INVARIANTS TypeOK RefCountExact ActivationsLive TypeTableFits NativeIsCurrent NoFault
PROPERTIES FreshStart TierSpec
