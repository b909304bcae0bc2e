---------------------------- MODULE MCJitCodeGen -----------------------------
(* Bodies for JitCodeGen: every graph of up to three small blocks, and   *)
(* single bodies that reach one limit each.                                  *)
EXTENDS JitCodeGen

CONSTANTS Loads, Adds

Q(k, d) == [kind |-> k, dest |-> d]

Plain == {Q(k, 0) : k \in {"nop", "plain"}}

\* The last quadruple of block b of n: a conditional jump over code only goes
\* forward, as the Tcl compiler writes it, and the last block ends in DONE.
Lasts(b, n) ==
    IF b = n - 1 THEN {Q("save", 0)}
    ELSE {Q("plain", 0), Q("save", 0)} \cup {Q("jfalse", d) : d \in b + 1 .. n - 1}
         \cup {Q(k, d) : k \in {"jtrue", "goto"}, d \in 0 .. n - 1}

Blocks(b, n) == {p \o <<q>> : p \in {<<>>, <<Q("load", 0)>>}, q \in Lasts(b, n)}

Graphs == UNION {{<<x>> : x \in Blocks(0, 1)},
                 {<<x, y>> : x \in Blocks(0, 2), y \in Blocks(1, 2)},
                 {<<x, y, z>> : x \in Blocks(0, 3), y \in Blocks(1, 3), z \in Blocks(2, 3)}}

SmallCFGs == {[special |-> s, blocks |-> g] :
                s \in {<<>>, <<Q("nop", 0), Q("load", 0)>>}, g \in Graphs}

\* [set v 1] Loads times, then the result.
ManyLoads == {[special |-> [i \in 1 .. Loads |-> Q("load", 0)], blocks |-> <<<<Q("save", 0)>>>>]}

\* [incr v] Adds times, then the result.
ManyAdds == {[special |-> <<Q("load", 0)>>,
              blocks |-> <<[i \in 1 .. Adds |-> Q("plain", 0)] \o <<Q("save", 0)>>>>]}

\* [while 1 {incr n}]: the loop is closed by an unconditional jump.
Forever == {[special |-> <<Q("load", 0)>>,
             blocks |-> <<<<Q("load", 0), Q("plain", 0), Q("goto", 0)>>, <<Q("save", 0)>>>>]}

\* [expr {$n ** 2}]
Power == {[special |-> <<Q("load", 0), Q("load", 0)>>,
           blocks |-> <<<<Q("plain", 0), Q("unsupported", 0), Q("save", 0)>>>>]}

\* Bytes written for each kind, from the macros of mcode.h.
X86Size == [nop |-> 0, plain |-> 16, load |-> 34, save |-> 27, jtrue |-> 9, jfalse |-> 9,
            goto |-> 0, unsupported |-> 0]
==============================================================================
