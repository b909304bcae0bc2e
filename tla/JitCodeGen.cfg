\* Every graph of up to three blocks, one compilation after another.
SPECIFICATION FairSpec
CONSTANTS
    CFGs <- SmallCFGs
    Size <- X86Size
    Prologue = 6
    Epilogue = 5
    PageSize = 4096
    PatchSize = 32
    Loads = 1
    Adds = 1
INVARIANTS JumpsLand PatchesExact FallsThrough Complete
PROPERTIES Terminates
