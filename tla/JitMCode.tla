------------------------------ MODULE JitMCode -------------------------------
(***************************************************************************)
(* The assembler of generic/jit/arch/x86/mcode.c: machine code is written  *)
(* at codeEnd, a jump names a label, and a jump to a label that does not   *)
(* exist yet is remembered in toPatch until makeLabel fills it in.         *)
(*                                                                         *)
(* An assembler is a record: codeEnd, the address after the last byte;     *)
(* labels, the address of every label made; toPatch, the pairs <<label,    *)
(* address of the displacement>> waiting for a label; and jumps, the jump  *)
(* instructions in the machine code, with the displacement they hold.      *)
(***************************************************************************)
EXTENDS Integers, FiniteSets

CONSTANT PatchSize  \* room for waiting jumps that getRelative gives a label

ASSUME PatchAssumption == PatchSize \in Nat

\* initLabelTable on a fresh page, after a prologue of the given size.
initLabelTable(prologue) ==
    [codeEnd |-> prologue, labels |-> [l \in {} |-> 0], toPatch |-> {}, jumps |-> {}]

Emit(a, size) == [codeEnd |-> a.codeEnd + size, labels |-> a.labels,
                  toPatch |-> a.toPatch, jumps |-> a.jumps]

Known(a, l) == l \in DOMAIN a.labels

Waiting(a, l) == {p \in a.toPatch : p[1] = l}

\* getRelative writes past the end of the label's patch list.
Overflows(a, l) == ~Known(a, l) /\ Cardinality(Waiting(a, l)) >= PatchSize

\* What getRelative returns: 0 stands for an unknown label.
getRelative(a, l) == IF Known(a, l) THEN a.labels[l] ELSE 0

Opcode == [JE |-> 2, JNE |-> 2, JMP |-> 1]  \* bytes before the displacement

\* jumpEqual, jumpNotEqual and jumpTo: only JNE makes a known label relative.
Jump(a, op, l) ==
    LET at   == a.codeEnd + Opcode[op]
        rel  == getRelative(a, l)
        disp == IF op = "JNE" /\ rel # 0 THEN -((at - 2) - rel) - 6 ELSE rel
    IN  [codeEnd |-> at + 4,
         labels  |-> a.labels,
         toPatch |-> IF Known(a, l) THEN a.toPatch ELSE a.toPatch \cup {<<l, at>>},
         jumps   |-> a.jumps \cup {[at |-> at, op |-> op, label |-> l, disp |-> disp]}]

\* Mutant: relative to the displacement, not to the next instruction.
PatchedShort(a, j, l) ==
    IF <<l, j.at>> \in a.toPatch THEN [j EXCEPT !.disp = a.codeEnd - j.at] ELSE j

\* The jump j once every jump waiting for l is told that l is here.
Patched(a, j, l) ==
    IF <<l, j.at>> \in a.toPatch THEN [j EXCEPT !.disp = a.codeEnd - j.at - 4] ELSE j

\* Mutant: the patch list of the label is kept.
KeepsWaiting(a, l) ==
    [codeEnd |-> a.codeEnd,
     labels  |-> [x \in DOMAIN a.labels \cup {l} |-> IF x = l THEN a.codeEnd ELSE a.labels[x]],
     toPatch |-> a.toPatch,
     jumps   |-> {Patched(a, j, l) : j \in a.jumps}]

\* A label that exists already is a panic: callers make each label once.
makeLabel(a, l) ==
    [codeEnd |-> a.codeEnd,
     labels  |-> [x \in DOMAIN a.labels \cup {l} |-> IF x = l THEN a.codeEnd ELSE a.labels[x]],
     toPatch |-> a.toPatch \ Waiting(a, l),
     jumps   |-> {Patched(a, j, l) : j \in a.jumps}]

------------------------------------------------------------------------------
(* What the machine code of an assembler means.                             *)

JumpType == [at: Nat, op: DOMAIN Opcode, label: Int, disp: Int]

\* The labels that jumps have been written for.
Aims(a) == {j.label : j \in a.jumps}

\* The address control reaches when the jump j is taken.
Target(j) == j.at + 4 + j.disp

\* The jump j goes where its label says.
Lands(a, j) == Known(a, j.label) => Target(j) = a.labels[j.label]

\* The jump j was written before its label, or is the kind that may go back.
Patchable(a, j) == j.op = "JNE" \/ ~Known(a, j.label) \/ a.labels[j.label] > j.at

\* What every operation above preserves: positions are inside the code and
\* belong to one jump, exactly the jumps without a label wait, and the others
\* land.  No label is at address 0, which getRelative takes for "unknown".
SoundAsm(a) ==
    /\ a.codeEnd \in Nat
    /\ a.labels \in [DOMAIN a.labels -> 1 .. a.codeEnd] /\ DOMAIN a.labels \subseteq Int
    /\ a.jumps \subseteq JumpType
    /\ \A j \in a.jumps : j.at + 4 <= a.codeEnd
    /\ \A i, j \in a.jumps : i.at = j.at => i = j
    /\ a.toPatch = {<<j.label, j.at>> : j \in {i \in a.jumps : ~Known(a, i.label)}}
    /\ \A j \in a.jumps : Patchable(a, j) => Lands(a, j)
==============================================================================
