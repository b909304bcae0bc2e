----------------------------- MODULE JitBlocks -------------------------------
(***************************************************************************)
(* One call of JIT_Compile in generic/jit/tclJitCompile.c, as far as the   *)
(* control flow graph.  A scan over the bytecode marks the leaders of the  *)
(* basic blocks, the marks are compressed in place to a sorted list,       *)
(* bc_to_bb is filled with the block of every position, the bytecode is    *)
(* cut into blocks of quadruples, and the blocks get their exits.          *)
(*                                                                         *)
(* The scan looks at bytes, not at instructions, reads offsets without     *)
(* sign and starts behind the first byte; bodies are therefore sequences   *)
(* of bytes.  Both arrays live on the C stack, leaders above bc_to_bb.     *)
(* The operands of quadruples other than the destination of a jump, and    *)
(* the simulated stack they come from, are left out.                       *)
(***************************************************************************)
EXTENDS Integers, Sequences, FiniteSets

CONSTANTS
    Bodies,  \* the bodies to compile
    Gaps,    \* words the C compiler may leave between bc_to_bb and leaders
    After,   \* what may be read behind the last byte of a body
    UNSET    \* the content of an array element nobody wrote

Byte == 0 .. 255

ASSUME BlocksAssumption ==
    /\ Bodies \subseteq Seq(Byte) \ {<<>>}
    /\ Gaps \subseteq Nat /\ After \subseteq Byte /\ After # {}
    /\ UNSET \notin Int

VARIABLES
    body,       \* the bytecode
    gap,        \* the words between the two arrays in this call
    phase,      \* the loop JIT_Compile is in
    i, j, k,    \* its loop variables
    pc,
    numblocks,
    leaders,
    bc_to_bb,
    blocks,     \* the quadruples of each block built so far
    got_done,   \* the last quadruple was INST_DONE
    exits,      \* the exits of each block
    marks       \* every position the scan marked, inside the array or not

scanVars == <<numblocks, leaders, marks>>
buildVars == <<k, pc, blocks, got_done, exits>>
vars == <<body, gap, phase, i, j, bc_to_bb, scanVars, buildVars>>

N == Len(body)  \* numCodeBytes

\* The byte at position p; t is what lies behind the body.
At(p, t) == IF p < N THEN body[p + 1] ELSE t

DONE == 0
JUMP1 == 34
JUMP_TRUE1 == 36
JUMP_TRUE4 == 37
JUMP_FALSE1 == 38
START_CMD == 105

Jumps1 == {JUMP1, JUMP_TRUE1, JUMP_FALSE1}
Jumps == Jumps1 \cup {JUMP_TRUE4}

\* Instructions that build_quad turns into no quadruple, and all it accepts.
Silent == {3, 64, START_CMD}
Supported == {DONE, 1, 10, 17, 29, 43, 61, 99} \cup 45 .. 50 \cup 52 .. 57 \cup Jumps \cup Silent

\* *adv: the length of an instruction.
Length(op) ==
    CASE op \in {1, 10, 17} \cup Jumps1 -> 2
      [] op = 29 -> 3
      [] op = JUMP_TRUE4 -> 5
      [] op = START_CMD -> 9
      [] OTHER -> 1

\* Four bytes as the int that JIT_Compile adds up, and one byte as a char.
Int4(b1, b2, b3, b4) ==
    (IF b1 < 128 THEN b1 ELSE b1 - 256) * 16777216 + b2 * 65536 + b3 * 256 + b4
Char(b) == IF b < 128 THEN b ELSE b - 256

Int4At(p, t) == Int4(At(p, t), At(p + 1, t), At(p + 2, t), At(p + 3, t))

------------------------------------------------------------------------------
\* JIT_Compile is called: leaders is cleared, its last element is the length.
Init ==
    /\ body \in Bodies /\ gap \in Gaps
    /\ phase = "scan" /\ i = 1 /\ j = 0 /\ k = 0 /\ pc = 0 /\ numblocks = 1
    /\ leaders = [p \in 0 .. N |-> IF p = N THEN N ELSE 0]
    /\ bc_to_bb = [p \in 0 .. N |-> UNSET]
    /\ blocks = <<>> /\ got_done = FALSE /\ exits = <<>>
    /\ marks = {}

\* leaders[p] = 1 for every p in S.  Outside the array this writes to memory that
\* the model does not have.
Mark(S) ==
    /\ marks' = marks \cup S
    /\ leaders' = [p \in 0 .. N |-> IF p \in S THEN 1 ELSE leaders[p]]

\* One round of the scan, at a byte that looks like a short jump ...
ScanJump1 ==
    /\ phase = "scan" /\ i < N /\ At(i, 0) \in Jumps1
    /\ \E t \in After : Mark({i + At(i + 1, t), i + 2})
    /\ i' = i + 2
    /\ UNCHANGED <<body, gap, phase, j, numblocks, bc_to_bb, buildVars>>

\* ... like a long conditional jump ...
ScanJumpTrue4 ==
    /\ phase = "scan" /\ i < N /\ At(i, 0) = JUMP_TRUE4
    /\ \E t \in After : Mark({i + Int4At(i + 1, t), i + 5})
    /\ i' = i + 4
    /\ UNCHANGED <<body, gap, phase, j, numblocks, bc_to_bb, buildVars>>

\* Mutant: the operands of START_CMD are scanned, too.
SkipNone(op) == 1

\* ... or like anything else.  Only START_CMD is known to have operands.
Skip(op) == IF op = START_CMD THEN 9 ELSE 1

ScanOther ==
    /\ phase = "scan" /\ i < N /\ At(i, 0) \notin Jumps
    /\ i' = i + Skip(At(i, 0))
    /\ UNCHANGED <<body, gap, phase, j, bc_to_bb, scanVars, buildVars>>

ScanEnd ==
    /\ phase = "scan" /\ i >= N
    /\ phase' = "compress" /\ i' = N - 1 /\ j' = N - 1
    /\ UNCHANGED <<body, gap, bc_to_bb, scanVars, buildVars>>

\* Mutant: the mark at i stays.
MovedKeepsMark == [leaders EXCEPT ![j] = i]

\* leaders[j] = i, and the mark at i is taken back.
Moved == [p \in 0 .. N |-> IF p = j THEN i ELSE IF p = i THEN 0 ELSE leaders[p]]

\* A mark becomes an entry of the list that grows downwards from the end.
Compress ==
    /\ phase = "compress" /\ i > 0 /\ i' = i - 1
    /\ IF leaders[i] # 0
       THEN leaders' = Moved /\ numblocks' = numblocks + 1 /\ j' = j - 1
       ELSE UNCHANGED <<leaders, numblocks, j>>
    /\ UNCHANGED <<body, gap, phase, bc_to_bb, marks, buildVars>>

CompressEnd ==
    /\ phase = "compress" /\ i <= 0
    /\ phase' = "map" /\ i' = 0
    /\ UNCHANGED <<body, gap, j, bc_to_bb, scanVars, buildVars>>

\* Mutant: the end of the block taken for one byte less.
MapRangeShort == leaders[j] .. leaders[j + 1] - 2

\* The elements of bc_to_bb that are written for the block at leaders[j]: the
\* bound of the loop adds the start of the block to the start of the next.
MapRange == leaders[j] .. leaders[j] + leaders[j + 1] - 2

\* Mutant: blocks numbered from 1.
FilledFromOne == [p \in 0 .. N |-> IF p \in MapRange THEN i + 1 ELSE bc_to_bb[p]]

Filled == [p \in 0 .. N |-> IF p \in MapRange THEN i ELSE bc_to_bb[p]]

\* bc_to_bb is filled for one block; behind its end are the elements of leaders.
MapBlock ==
    /\ phase = "map" /\ i < numblocks
    /\ bc_to_bb' = Filled
    /\ leaders' = [p \in 0 .. N |-> IF N + 1 + gap + p \in MapRange THEN i ELSE leaders[p]]
    /\ i' = i + 1 /\ j' = j + 1
    /\ UNCHANGED <<body, gap, phase, numblocks, marks, buildVars>>

\* Back to the first block, j = k, and on to its quadruples.
MapEnd ==
    /\ phase = "map" /\ i >= numblocks
    /\ phase' = "build" /\ i' = 0 /\ j' = j - numblocks
    /\ k' = 0 /\ pc' = 0 /\ blocks' = <<<<>>>> /\ got_done' = FALSE
    /\ UNCHANGED <<body, gap, exits, bc_to_bb, scanVars>>

------------------------------------------------------------------------------
\* What a jump of build_quad finds in bc_to_bb; pos is one more than pc.
Lookup(p) == IF p \in 0 .. N THEN bc_to_bb[p] ELSE UNSET

\* Mutant: short offsets read without sign, as in the scan.
DestinationUnsigned(op, t) == IF op \in Jumps1 THEN Lookup(pc + 1 + At(pc + 1, t)) ELSE UNSET

Destination(op, t) ==
    CASE op \in Jumps1 -> Lookup(pc + 1 + Char(At(pc + 1, t)))
      [] op = JUMP_TRUE4 -> Lookup(pc + 1 + Int4At(pc + 1, t))
      [] OTHER -> UNSET

\* Mutant: every DONE is kept.
DroppedSilent(op) == op \in Silent

\* Only the first of several DONE in a row is kept.
Dropped(op) == op \in Silent \/ (op = DONE /\ got_done)

\* build_quad on one instruction of block i, and its quadruple appended.
BuildQuad ==
    /\ phase = "build" /\ i < numblocks /\ k < leaders[j + 1] - leaders[j]
    /\ \E t \in After :
         LET op == At(pc, t) IN
         /\ op \in Supported
         /\ k' = k + Length(op) /\ pc' = pc + Length(op)
         /\ blocks' = IF Dropped(op) THEN blocks
                      ELSE [blocks EXCEPT ![i + 1] =
                              Append(@, [at |-> pc, op |-> op, dest |-> Destination(op, t)])]
         /\ got_done' = IF op \in Silent THEN got_done ELSE op = DONE
    /\ UNCHANGED <<body, gap, phase, i, j, bc_to_bb, exits, scanVars>>

\* goto err
Unsupported ==
    /\ phase = "build" /\ i < numblocks /\ k < leaders[j + 1] - leaders[j]
    /\ \E t \in After : At(pc, t) \notin Supported
    /\ phase' = "failed"
    /\ UNCHANGED <<body, gap, i, j, bc_to_bb, scanVars, buildVars>>

NextBlock ==
    /\ phase = "build" /\ i < numblocks /\ k >= leaders[j + 1] - leaders[j]
    /\ i' = i + 1 /\ j' = j + 1 /\ k' = 0
    /\ blocks' = IF i + 1 < numblocks THEN Append(blocks, <<>>) ELSE blocks
    /\ UNCHANGED <<body, gap, phase, pc, got_done, exits, bc_to_bb, scanVars>>

\* The exits of block b: the next block, and where its last quadruple jumps to.
ExitsOf(b) ==
    LET quads == blocks[b + 1]
        next == IF b + 1 < numblocks THEN <<b + 1>> ELSE <<>>
    IN  IF quads # <<>> /\ quads[Len(quads)].op \in Jumps
        THEN Append(next, quads[Len(quads)].dest)
        ELSE next

Flow ==
    /\ phase = "build" /\ i >= numblocks
    /\ phase' = "done" /\ exits' = [b \in 1 .. numblocks |-> ExitsOf(b - 1)]
    /\ UNCHANGED <<body, gap, i, j, k, pc, blocks, got_done, bc_to_bb, scanVars>>

Next ==
    \/ ScanJump1 \/ ScanJumpTrue4 \/ ScanOther \/ ScanEnd
    \/ Compress \/ CompressEnd
    \/ MapBlock \/ MapEnd
    \/ BuildQuad \/ Unsupported \/ NextBlock \/ Flow

Spec == Init /\ [][Next]_vars

------------------------------------------------------------------------------
\* What the bytecode says when it is read instruction by instruction.

\* The positions at which instructions start.
Starts ==
    LET from[p \in Nat] == IF p >= N THEN {} ELSE {p} \cup from[p + Length(body[p + 1])]
    IN  from[0]

JumpStarts == {s \in Starts : body[s + 1] \in Jumps}

Target(s) == s + (IF body[s + 1] = JUMP_TRUE4 THEN Int4At(s + 1, 0) ELSE Char(At(s + 1, 0)))

\* No byte of an operand that the scan looks at is taken for an instruction.
ScanStep(op) ==
    CASE op \in Jumps1 -> 2 [] op = JUMP_TRUE4 -> 4 [] op = START_CMD -> 9 [] OTHER -> 1

NoLookAlike ==
    \A s \in Starts :
      \A p \in s + (IF s = 0 THEN 1 ELSE ScanStep(body[s + 1])) .. s + Length(body[s + 1]) - 1 :
        At(p, 0) \notin Jumps \cup {START_CMD}

\* The last instruction ends where the body does.
Whole == \A s \in Starts : s + Length(body[s + 1]) <= N

\* The leaders, block 0 included, that the marks stand for, and those that
\* follow p.
Leaders == {0} \cup (marks \cap 1 .. N - 1)
Later(p) == {q \in Leaders : q > p}
IsLast(p) == Later(p) = {}
NextLeader(p) == IF IsLast(p) THEN N ELSE CHOOSE q \in Later(p) : \A r \in Later(p) : q <= r
LastLeader == CHOOSE p \in Leaders : IsLast(p)

\* Blocks begin at instructions.  A jump into the middle of one, or a short jump
\* back, taken for one 256 bytes further, may put a leader elsewhere.
Aligned == Whole /\ Leaders \subseteq Starts

\* The number of the block that holds position p.
BlockOf(p) == Cardinality({q \in Leaders : 0 < q /\ q <= p})

\* The list of leaders has its ends: its last element was not taken for a mark,
\* as when an operand just before the last byte looks like a jump or a short one
\* goes back to 256 bytes before the end; and not every single byte is marked.
Bounded == N \notin marks /\ (0 \notin marks \/ numblocks < N)

\* Filling bc_to_bb beyond its end has not reached the list, either.
Intact == Bounded /\ numblocks < N - LastLeader + 3 + gap

------------------------------------------------------------------------------
Block == 0 .. numblocks - 1 \cup {UNSET}

\* Types of the variables.  What bc_to_bb, jumps and exits name is a block of the
\* body, or garbage that nobody wrote.
TypeOK ==
    /\ body \in Seq(Byte) /\ gap \in Nat
    /\ phase \in {"scan", "compress", "map", "build", "done", "failed"}
    /\ i \in Nat /\ j \in 0 .. N /\ k \in Nat /\ pc \in Nat
    /\ numblocks \in 1 .. N
    /\ leaders \in [0 .. N -> 0 .. N]
    /\ bc_to_bb \in [0 .. N -> Block]
    /\ blocks \in Seq(Seq([at : Nat, op : Supported, dest : Block]))
    /\ exits \in Seq(Seq(Block))
    /\ got_done \in BOOLEAN /\ marks \subseteq Int

\* The end of leaders, from index first on, lists the leaders in ascending order.
Lists(first) ==
    /\ \A p, q \in first .. N - 1 : p < q => leaders[p] < leaders[q]
    /\ {leaders[p] : p \in first .. N - 1} = Leaders

\* The list of block starts, compressed into the array the marks are read from
\* (lines 253-262), holds byte 0 and every marked position of the body once and
\* in order: no mark is overwritten before it is read.
Partition == phase = "map" /\ i = 0 /\ (0 \notin marks \/ j > 0) => Lists(j)

\* The same while the blocks are built from the list (lines 285-327).  Filling
\* bc_to_bb only maps positions to blocks, as the comment above it says.
LeadersKept == phase = "build" /\ i = 0 => Lists(j)

\* bc_to_bb gives every position the number of its block (lines 264-274), but
\* for the last byte of the first block, although each block is filled beyond its
\* end, and whatever that does to leaders.
MapExact ==
    phase = "build" /\ Bounded =>
      \A p \in 0 .. N - 1 :
        bc_to_bb[p] = IF p = NextLeader(0) - 1 THEN UNSET ELSE BlockOf(p)

\* The marks for a jump: where it ends, and where it goes; a short jump back is
\* taken for one 256 bytes further.
MarksOf(s) ==
    {s + Length(body[s + 1]),
     Target(s) + (IF body[s + 1] \in Jumps1 /\ Target(s) < s THEN 256 ELSE 0)}

\* The scan over bytes (lines 224-245) marks what the instructions say, but for a
\* jump at byte 0, which it does not see: no byte of an operand is read as an
\* instruction, and none is passed over with an operand, whatever steps it takes.
ScanExact ==
    phase = "compress" /\ NoLookAlike /\ Whole =>
      marks = UNION {MarksOf(s) : s \in JumpStarts \ {0}}

\* The instruction before s, of those that have a quadruple, is DONE.
AfterDone(s) ==
    LET before == {p \in Starts : p < s /\ body[p + 1] \notin Silent}
    IN  \E p \in before : body[p + 1] = DONE /\ \A q \in before : q <= p

\* The instructions that get a quadruple: not the silent ones, nor a repeated DONE.
Kept == {s \in Starts : body[s + 1] \notin Silent /\ ~(body[s + 1] = DONE /\ AfterDone(s))}

InBlock(b) == {s \in Kept : BlockOf(s) = b - 1}

\* Every instruction that gets a quadruple is in the block its position belongs
\* to, once and in order (lines 285-327).
CutExact ==
    phase = "done" /\ Aligned /\ Intact =>
      \A b \in 1 .. numblocks :
        LET quads == blocks[b]
        IN  /\ \A n \in 1 .. Len(quads) - 1 : quads[n].at < quads[n + 1].at
            /\ {quads[n].at : n \in 1 .. Len(quads)} = InBlock(b)

\* The destination of a jump to a leader is the block that starts there: the
\* lookup one byte beyond the target (pos is pc + 1) makes a difference only for
\* a block of one byte before another, and for a first block of two.
ShortBlock(p) == IF p = 0 THEN NextLeader(p) <= 2 ELSE ~IsLast(p) /\ NextLeader(p) = p + 1

TargetsExact ==
    phase = "done" /\ Aligned /\ Intact =>
      \A b \in 1 .. numblocks : \A n \in 1 .. Len(blocks[b]) :
        LET q == blocks[b][n] IN
        q.op \in Jumps /\ Target(q.at) \in Leaders /\ ~ShortBlock(Target(q.at))
          => q.dest = BlockOf(Target(q.at))

\* Instructions are read from the body only (line 295): pc never passes its end.
InBounds == pc <= N

==============================================================================
