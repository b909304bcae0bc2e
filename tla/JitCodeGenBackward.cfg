\* A loop closed by an unconditional jump: where does it go?
SPECIFICATION Spec
CONSTANTS
    CFGs <- Forever
    Size <- X86Size
    Prologue = 6
    Epilogue = 5
    PageSize = 4096
    PatchSize = 32
    Loads = 1
    Adds = 1
INVARIANTS AllJumpsLand
CHECK_DEADLOCK FALSE
