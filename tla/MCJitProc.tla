------------------------------ MODULE MCJitProc ------------------------------
(* Small instances of JitProc for TLC. *)
EXTENDS JitProc, TLC

Symmetric == Permutations(Cmds) \cup Permutations(Procs) \cup Permutations(Codes)
==============================================================================
