----------------------------- MODULE JitCodeGen ------------------------------
(***************************************************************************)
(* JIT_CodeGen of generic/jit/tclJitCodeGen.c: from the control flow graph *)
(* of a body to machine code.  dfs visits the basic blocks, the special    *)
(* block of hoisted loads first, and writes each block where it finds      *)
(* codeEnd; jumps between blocks go through the labels of JitMCode, and a  *)
(* block that does not end in a jump relies on its successor being next.   *)
(*                                                                         *)
(* A quadruple is a record: kind, what codegen makes of it, and dest, the  *)
(* block a jump goes to.  Bodies are compiled one after the other: the     *)
(* label tables are global and are emptied between two compilations.       *)
(***************************************************************************)
EXTENDS JitMCode, Sequences

CONSTANTS
    CFGs,      \* bodies to compile, each a sequence of blocks of quadruples
    Size,      \* bytes of machine code per kind of quadruple, without the jump
    Prologue,  \* bytes of PROLOGUE and of EPILOGUE
    Epilogue,
    PageSize   \* bytes of the page the machine code is written to

Kinds == {"nop", "plain", "load", "save", "jtrue", "jfalse", "goto", "unsupported"}

JumpKinds == {"jtrue", "jfalse", "goto"}

\* A body is [special |-> quadruples, blocks |-> <<quadruples, ...>>]; block
\* numbers start at 0 and the special block has the number after the last.
Quadruple(dests) == [kind: Kinds, dest: dests]

IsCFG(g) ==
    /\ g.blocks \in Seq(Seq(Quadruple(0 .. Len(g.blocks) - 1))) /\ g.blocks # <<>>
    /\ g.special \in Seq(Quadruple({0}))

ASSUME CodeGenAssumption ==
    /\ \A g \in CFGs : IsCFG(g)
    /\ Size \in [Kinds -> Nat]
    /\ Prologue \in Nat \ {0} /\ Epilogue \in Nat /\ PageSize \in Nat

VARIABLES
    cfg,      \* the body being compiled
    pc,       \* where JIT_CodeGen is
    calls,    \* activations of dfs: the block, the quadruples written, the exits tried
    visited,  \* the blocks dfs has been called for
    asm,      \* the assembler
    blockEnd, \* the address where the code of each finished block ended
    fault     \* "none", or what stopped the process

vars == <<cfg, pc, calls, visited, asm, blockEnd, fault>>

LEAVE   == -1   \* labels; a block's label is its number
LINTERP == -2

Count    == Len(cfg.blocks)
Special  == Count
Quads(b) == IF b = Special THEN cfg.special ELSE cfg.blocks[b + 1]

LastOf(g, b) == LET q == g.blocks[b + 1] IN q[Len(q)]

EndsInJump(g, b) == g.blocks[b + 1] # <<>> /\ LastOf(g, b).kind \in JumpKinds

\* Mutants: the destination first, and only the destination.
JumpsFirst(b) ==
    IF b = Special THEN <<0>>
    ELSE (IF EndsInJump(cfg, b) THEN <<LastOf(cfg, b).dest>> ELSE <<>>)
         \o (IF b + 1 = Count THEN <<>> ELSE <<b + 1>>)
OnlyJumps(b) ==
    IF b = Special THEN <<0>>
    ELSE IF EndsInJump(cfg, b) THEN <<LastOf(cfg, b).dest>>
    ELSE IF b + 1 = Count THEN <<>> ELSE <<b + 1>>

\* The exits JIT_Compile gives a block: the block after it, whatever its last
\* quadruple is, and the destination of a jump.
Exits(b) ==
    IF b = Special THEN <<0>>
    ELSE (IF b + 1 = Count THEN <<>> ELSE <<b + 1>>)
         \o (IF EndsInJump(cfg, b) THEN <<LastOf(cfg, b).dest>> ELSE <<>>)

------------------------------------------------------------------------------
NoCFG == [special |-> <<>>, blocks |-> <<>>]

Init ==
    /\ cfg = NoCFG /\ pc = "idle" /\ calls = <<>> /\ visited = {}
    /\ asm = initLabelTable(0) /\ blockEnd = [b \in {} |-> 0]
    /\ fault = "none"

\* Mutant: the block is not marked.
Unmarked(frames, b, a) ==
    /\ calls' = Append(frames, [block |-> b, quad |-> 1, exit |-> 1])
    /\ visited' = visited
    /\ asm' = makeLabel(a, b)

\* dfs is called for block b: its label is made here.
Visit(frames, b, a) ==
    /\ calls' = Append(frames, [block |-> b, quad |-> 1, exit |-> 1])
    /\ visited' = visited \cup {b}
    /\ asm' = makeLabel(a, b)

\* JIT_CodeGen up to the first call of dfs.
Begin(g) ==
    /\ pc = "idle" /\ fault = "none"
    /\ cfg' = g /\ pc' = "dfs"
    /\ calls' = <<[block |-> Len(g.blocks), quad |-> 1, exit |-> 1]>>
    /\ visited' = {Len(g.blocks)}
    /\ asm' = makeLabel(initLabelTable(Prologue), Len(g.blocks))
    /\ UNCHANGED <<blockEnd, fault>>

Top == calls[Len(calls)]

\* The jump that ends the code of a quadruple: its instruction and label.
JumpOf(q) == CASE q.kind = "load"   -> <<"JNE", LINTERP>>
               [] q.kind = "save"   -> <<"JMP", LEAVE>>
               [] q.kind = "jtrue"  -> <<"JNE", q.dest>>
               [] q.kind = "jfalse" -> <<"JE", q.dest>>
               [] q.kind = "goto"   -> <<"JMP", q.dest>>

\* The code of the quadruple q.
Generated(q) ==
    LET a == Emit(asm, Size[q.kind])
    IN  IF q.kind \in {"nop", "plain"} THEN a ELSE Jump(a, JumpOf(q)[1], JumpOf(q)[2])

FaultOf(q) ==
    IF q.kind = "unsupported" THEN "abort"
    ELSE IF q.kind \notin {"nop", "plain"} /\ Overflows(asm, JumpOf(q)[2]) THEN "patch list"
    ELSE IF Generated(q).codeEnd > PageSize THEN "page"
    ELSE "none"

Writing == pc = "dfs" /\ fault = "none" /\ calls # <<>>

\* One round of codegen's loop.
Generate ==
    /\ Writing /\ Top.quad <= Len(Quads(Top.block))
    /\ LET q == Quads(Top.block)[Top.quad]
       IN  /\ fault' = FaultOf(q)
           /\ asm' = IF fault' = "none" THEN Generated(q) ELSE asm
    /\ calls' = [calls EXCEPT ![Len(calls)].quad = @ + 1]
    /\ UNCHANGED <<cfg, pc, visited, blockEnd>>

Written == Writing /\ Top.quad > Len(Quads(Top.block))

EndOfBlock == [b \in DOMAIN blockEnd \cup {Top.block} |->
                 IF b \in DOMAIN blockEnd THEN blockEnd[b] ELSE asm.codeEnd]

\* Mutant: the loop over the exits stays at a visited block.
DescendStays ==
    /\ Written /\ Top.exit <= Len(Exits(Top.block))
    /\ LET b == Exits(Top.block)[Top.exit]
       IN  IF b \in visited THEN UNCHANGED <<calls, visited, asm>>
                            ELSE Visit([calls EXCEPT ![Len(calls)].exit = @ + 1], b, asm)
    /\ blockEnd' = EndOfBlock
    /\ UNCHANGED <<cfg, pc, fault>>

\* dfs goes on to the next exit of the block: a call, unless it was visited.
Descend ==
    /\ Written /\ Top.exit <= Len(Exits(Top.block))
    /\ LET b      == Exits(Top.block)[Top.exit]
           frames == [calls EXCEPT ![Len(calls)].exit = @ + 1]
       IN  IF b \in visited THEN calls' = frames /\ UNCHANGED <<visited, asm>>
                            ELSE Visit(frames, b, asm)
    /\ blockEnd' = EndOfBlock
    /\ UNCHANGED <<cfg, pc, fault>>

\* dfs returns.
Return ==
    /\ Written /\ Top.exit > Len(Exits(Top.block))
    /\ calls' = SubSeq(calls, 1, Len(calls) - 1)
    /\ blockEnd' = EndOfBlock
    /\ UNCHANGED <<cfg, pc, visited, asm, fault>>

\* The two ends of the procedure: LEAVE returns, LINTERP says "interpret".
\* A 5-byte move puts JIT_RESULT_INTERPRET in EAX.
Finish ==
    /\ pc = "dfs" /\ fault = "none" /\ calls = <<>>
    /\ asm' = Emit(makeLabel(Emit(makeLabel(asm, LEAVE), Epilogue), LINTERP), 5 + Epilogue)
    /\ fault' = IF asm'.codeEnd > PageSize THEN "page" ELSE "none"
    /\ pc' = "finish"
    /\ UNCHANGED <<cfg, calls, visited, blockEnd>>

\* finishLabelTable, and the page is made executable: JIT_CodeGen returns.
finishLabelTable ==
    /\ pc = "finish" /\ fault = "none"
    /\ cfg' = NoCFG /\ pc' = "idle" /\ visited' = {}
    /\ asm' = initLabelTable(0) /\ blockEnd' = [b \in {} |-> 0]
    /\ UNCHANGED <<calls, fault>>

Step == Generate \/ Descend \/ Return \/ Finish \/ finishLabelTable

Next == (\E g \in CFGs : Begin(g)) \/ Step

Spec == Init /\ [][Next]_vars

\* JIT_CodeGen runs to its end without giving way to anything.
FairSpec == Spec /\ WF_vars(Step)

------------------------------------------------------------------------------
(* What makes the machine code right.                                       *)

\* Every variable holds a value of its type.
TypeOK ==
    /\ pc # "idle" => IsCFG(cfg)
    /\ pc \in {"idle", "dfs", "finish"}
    /\ calls \in Seq([block: 0 .. Count, quad: Nat \ {0}, exit: Nat \ {0}])
    /\ visited \subseteq 0 .. Count
    /\ asm.codeEnd \in Nat
    /\ asm.labels \in [DOMAIN asm.labels -> Nat] /\ DOMAIN asm.labels \subseteq Int
    /\ asm.toPatch \subseteq Int \X Nat
    /\ asm.jumps \subseteq JumpType
    /\ blockEnd \in [DOMAIN blockEnd -> Nat] /\ DOMAIN blockEnd \subseteq visited
    /\ fault \in {"none", "abort", "patch list", "page"}

\* A jump whose label is known goes to that label, be it patched by makeLabel
\* (forward) or written by jumpNotEqual (backward).
JumpsLand == \A j \in asm.jumps : Patchable(asm, j) => Lands(asm, j)

\* The same of every jump, the backward ones of jumpEqual and jumpTo included.
AllJumpsLand == \A j \in asm.jumps : Lands(asm, j)

\* No jump is patched twice or forgotten: the waiting ones are those without a
\* label (toPatch in getRelative and makeLabel).
PatchesExact ==
    asm.toPatch = {<<j.label, j.at>> : j \in {i \in asm.jumps : ~Known(asm, i.label)}}

Successor(b) == IF b = Special THEN 0 ELSE IF b + 1 = Count THEN LEAVE ELSE b + 1

\* Control that runs off the end of a block's code is at the block that follows
\* it in the bytecode: dfs lays the blocks out in bytecode order, whatever
\* jumps they end in, although it only follows exits.
FallsThrough ==
    \A b \in DOMAIN blockEnd :
        Known(asm, Successor(b)) => asm.labels[Successor(b)] = blockEnd[b]

\* When the page is made executable every block is in it, every label exists
\* and no displacement is still waiting.
Complete ==
    pc = "finish" => /\ DOMAIN blockEnd = 0 .. Count
                     /\ DOMAIN asm.labels = {LEAVE, LINTERP} \cup 0 .. Count
                     /\ asm.toPatch = {}

\* A label has room for every jump that waits for it (struct needPatching).
PatchListFits == fault # "patch list"

\* The code of a body fits the page that was allocated for it.
PageFits == fault # "page"

\* Compiling a body ends in success or in failure.
NoAbort == fault # "abort"

\* dfs ends on every control flow graph, also a cyclic one.
Terminates == pc = "dfs" ~> (pc = "idle" \/ fault # "none")

------------------------------------------------------------------------------
(* The inductive invariant behind the properties above.                     *)

\* dfs is inside the special block and, from block 0 on, each block's successor.
Path ==
    /\ Len(calls) <= Count + 1
    /\ \A i \in DOMAIN calls : calls[i].block = IF i = 1 THEN Special ELSE i - 2

\* A block whose end is known has no quadruple left to write.
Finished ==
    \A i \in DOMAIN calls : calls[i].block \in DOMAIN blockEnd =>
                            calls[i].quad > Len(Quads(calls[i].block))

\* On the way down: the blocks before the top one are complete.
Descending ==
    /\ calls # <<>>
    /\ visited = {Special} \cup 0 .. Len(calls) - 2
    /\ DOMAIN blockEnd = visited \ {Top.block}
    /\ Top.exit = 1

\* On the way back: every block is complete and nothing more is written.
Returning ==
    /\ visited = 0 .. Count /\ DOMAIN blockEnd = 0 .. Count
    /\ blockEnd[Count - 1] = asm.codeEnd

Dfs ==
    /\ Path /\ Finished /\ (Descending \/ Returning)
    /\ DOMAIN asm.labels = visited
    /\ Aims(asm) \subseteq {LEAVE, LINTERP} \cup 0 .. Count

IInv ==
    /\ TypeOK /\ SoundAsm(asm) /\ FallsThrough /\ Complete
    /\ pc = "idle" => asm = initLabelTable(0) /\ blockEnd = [b \in {} |-> 0]
    /\ pc # "dfs" => calls = <<>>
    /\ pc # "idle" => asm.codeEnd > 0
    /\ pc = "dfs" => Dfs
==============================================================================
