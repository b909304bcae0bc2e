---------------------------- MODULE MCJitBlocks ------------------------------
(* Bodies for JitBlocks: every program of a few instructions, and the bodies *)
(* of procedures as the Tcl compiler writes them.                            *)
EXTENDS JitBlocks, SequencesExt

CONSTANT Size \* instructions before the last

\* An instruction as its bytes, or a jump as its opcode and the index it goes to.
Fixed == {[op |-> 10, arg |-> <<0>>],    \* load a variable,
          [op |-> 10, arg |-> <<34>>],   \* or one whose index looks like a jump
          [op |-> 53, arg |-> <<>>],
          [op |-> 105, arg |-> <<0, 0, 0, 34, 0, 0, 0, 1>>]}

Jump1(t) == {[op |-> o, to |-> t] : o \in {JUMP1, JUMP_TRUE1}}
Forms(n) ==
    Fixed \cup UNION {Jump1(t) : t \in 1 .. Size + 1}
    \cup {[op |-> JUMP_FALSE1, to |-> t] : t \in n + 1 .. Size + 1}
    \cup {[op |-> JUMP_TRUE4, to |-> t] : t \in {1, Size + 1}}

Programs == {p \in [1 .. Size -> UNION {Forms(n) : n \in 1 .. Size}] :
               \A n \in 1 .. Size : p[n] \in Forms(n)}

StartOf(p, n) == FoldLeft(LAMBDA sum, q : sum + Length(q.op), 0, SubSeq(p, 1, n - 1))

Bytes(p, n) ==
    LET q == p[n] IN
    IF "arg" \in DOMAIN q THEN <<q.op>> \o q.arg
    ELSE LET off == StartOf(p, q.to) - StartOf(p, n)
             low == off % 256
             high == IF off < 0 THEN 255 ELSE 0
         IN  IF q.op = JUMP_TRUE4 THEN <<q.op, high, high, high, low>> ELSE <<q.op, low>>

Assembled(p) == FlattenSeq([n \in 1 .. Size |-> Bytes(p, n)]) \o <<DONE>>

\* proc sum {lower upper}: a while loop after an assignment
Sum == <<1, 0, 17, 2, 3, 105, 0, 0, 0, 54, 0, 0, 0, 1, 34, 36, 105, 0, 0, 0, 16, 0, 0, 0, 2, 10,
         2, 10, 0, 53, 17, 2, 3, 105, 0, 0, 0, 16, 0, 0, 0, 2, 10, 0, 1, 1, 53, 17, 0, 3, 10, 0,
         10, 1, 49, 36, 217, 1, 2, 3, 105, 0, 0, 0, 12, 0, 0, 0, 1, 10, 2, 0, 0>>

\* Four nested [if .. else ..], and nothing after them.
Nested == <<10, 0, 1, 0, 48, 38, 110, 105, 0, 0, 0, 106, 0, 0, 0, 1, 10, 0, 1, 1, 48, 38, 79, 105,
            0, 0, 0, 75, 0, 0, 0, 1, 10, 0, 1, 2, 48, 38, 48, 105, 0, 0, 0, 44, 0, 0, 0, 1, 10, 0,
            1, 3, 48, 38, 17, 105, 0, 0, 0, 13, 0, 0, 0, 1, 1, 0, 17, 0, 34, 15, 105, 0, 0, 0, 13,
            0, 0, 0, 1, 1, 1, 17, 0, 34, 15, 105, 0, 0, 0, 13, 0, 0, 0, 1, 1, 2, 17, 0, 34, 15,
            105, 0, 0, 0, 13, 0, 0, 0, 1, 1, 3, 17, 0, 34, 15, 105, 0, 0, 0, 13, 0, 0, 0, 1, 1, 4,
            17, 0, 0>>

\* A procedure that calls another one.
Calls == <<1, 0, 10, 0, 6, 2, 0>>

\* The body of [proc p {a0 .. a34} {return $a34}].
ReturnsLast == <<10, 34, 0, 0>>

SmallBodies == {Assembled(p) : p \in Programs} \cup {Sum, Nested, Calls, ReturnsLast}

NestedOnly == {Nested}
ReturnsLastOnly == {ReturnsLast}
==============================================================================
