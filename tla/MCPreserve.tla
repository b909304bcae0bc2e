----------------------------- MODULE MCPreserve -----------------------------
EXTENDS Preserve, TLC
CONSTANTS t1, t2, b1, b2, b3, u1, u2, u3, u4

\* Two threads, one of which can hold a block twice.
MCOf == (u1 :> t1) @@ (u2 :> t1) @@ (u3 :> t2) @@ (u4 :> t2)
==============================================================================
