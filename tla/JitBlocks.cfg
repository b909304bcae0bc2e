\* Every body of up to four instructions, and four compiled procedures.
SPECIFICATION Spec
CONSTANTS
    Bodies <- SmallBodies
    Gaps = {0, 2}
    After = {0, 34}
    UNSET = UNSET
    Size = 3
INVARIANTS Partition MapExact ScanExact CutExact TargetsExact
\* JIT_Compile returns.
CHECK_DEADLOCK FALSE
