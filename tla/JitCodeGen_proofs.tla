-------------------------- MODULE JitCodeGen_proofs --------------------------
(***************************************************************************)
(* Proofs about JitCodeGen, for every control flow graph, every code size  *)
(* and every patch list size.                                              *)
(***************************************************************************)
EXTENDS JitCodeGen, SequenceTheorems, TLAPS

(* The assembler ***********************************************************)

\* A fresh page with an empty label table is a sound assembler.
LEMMA FreshSound ==
    ASSUME NEW n \in Nat
    PROVE  SoundAsm(initLabelTable(n)) /\ initLabelTable(n).codeEnd = n
           /\ DOMAIN initLabelTable(n).labels = {} /\ Aims(initLabelTable(n)) = {}
BY DEF SoundAsm, initLabelTable, Known, Patchable, Lands, Aims

\* Emitting code without a jump keeps the assembler sound.
LEMMA EmitSound ==
    ASSUME NEW a, SoundAsm(a), NEW size \in Nat
    PROVE  /\ SoundAsm(Emit(a, size))
           /\ Emit(a, size).codeEnd = a.codeEnd + size
           /\ Emit(a, size).labels = a.labels
           /\ Emit(a, size).toPatch = a.toPatch /\ Emit(a, size).jumps = a.jumps
           /\ Aims(Emit(a, size)) = Aims(a)
<1> DEFINE e == Emit(a, size)
<1>1. /\ e.codeEnd = a.codeEnd + size /\ e.labels = a.labels
      /\ e.toPatch = a.toPatch /\ e.jumps = a.jumps
  BY DEF Emit
<1> HIDE DEF e
<1>2. e.codeEnd \in Nat /\ a.codeEnd <= e.codeEnd
  BY <1>1 DEF SoundAsm
<1>3. e.labels \in [DOMAIN e.labels -> 1 .. e.codeEnd]
  BY <1>1, <1>2 DEF SoundAsm
<1>4. \A j \in e.jumps : j.at + 4 <= e.codeEnd
  BY <1>1, <1>2 DEF SoundAsm, JumpType
<1>5. \A j : (Known(e, j.label) <=> Known(a, j.label)) /\ (Patchable(e, j) <=> Patchable(a, j))
             /\ (Lands(e, j) <=> Lands(a, j))
  BY <1>1 DEF Known, Patchable, Lands
<1>6. SoundAsm(e)
  BY <1>1, <1>2, <1>3, <1>4, <1>5 DEF SoundAsm
<1> QED BY <1>1, <1>6 DEF e, Aims

\* Each of the three jumps keeps the assembler sound: a jump to a known label
\* lands if it is a JNE, and a jump to another label waits for it.
LEMMA JumpSound ==
    ASSUME NEW a, SoundAsm(a), NEW op \in DOMAIN Opcode, NEW l \in Int
    PROVE  /\ SoundAsm(Jump(a, op, l))
           /\ Jump(a, op, l).codeEnd >= a.codeEnd
           /\ Jump(a, op, l).labels = a.labels
           /\ Aims(Jump(a, op, l)) = Aims(a) \cup {l}
<1> DEFINE e == Jump(a, op, l)
           at == a.codeEnd + Opcode[op]
           new == [at |-> at, op |-> op, label |-> l,
                   disp |-> IF op = "JNE" /\ getRelative(a, l) # 0
                              THEN -((at - 2) - getRelative(a, l)) - 6 ELSE getRelative(a, l)]
<1>1. Opcode[op] \in {1, 2} /\ a.codeEnd \in Nat
  BY DEF Opcode, SoundAsm
<1>2. at \in Nat /\ at > a.codeEnd
  BY <1>1
<1>3. /\ e.codeEnd = at + 4 /\ e.labels = a.labels /\ e.jumps = a.jumps \cup {new}
      /\ e.toPatch = IF Known(a, l) THEN a.toPatch ELSE a.toPatch \cup {<<l, at>>}
  BY DEF Jump
<1>4. Known(a, l) => getRelative(a, l) = a.labels[l] /\ a.labels[l] \in 1 .. a.codeEnd
  BY DEF getRelative, Known, SoundAsm
<1>5. ~Known(a, l) => getRelative(a, l) = 0
  BY DEF getRelative
<1>6. getRelative(a, l) \in Int
  BY <1>1, <1>4, <1>5
<1>7. new.disp \in Int
  BY <1>1, <1>2, <1>6
<1> HIDE DEF e
<1>8. new.at = at /\ new.op = op /\ new.label = l
  OBVIOUS
<1>9. new \in JumpType
  BY <1>2, <1>7 DEF JumpType
<1>10. Known(a, l) /\ op = "JNE" => at + 4 + new.disp = a.labels[l]
  BY <1>1, <1>2, <1>4
<1> HIDE DEF new
<1>11. \A j : (Known(e, j.label) <=> Known(a, j.label)) /\ (Patchable(e, j) <=> Patchable(a, j))
              /\ (Lands(e, j) <=> Lands(a, j))
  BY <1>3 DEF Known, Patchable, Lands
<1>12. e.codeEnd \in Nat /\ a.codeEnd <= e.codeEnd /\ a.codeEnd < at
  BY <1>1, <1>2, <1>3
<1>13. e.labels \in [DOMAIN e.labels -> 1 .. e.codeEnd] /\ DOMAIN e.labels \subseteq Int
  BY <1>1, <1>3, <1>12 DEF SoundAsm
<1>14. e.jumps \subseteq JumpType
  BY <1>3, <1>9 DEF SoundAsm
<1>15. \A j \in a.jumps : j.at \in Nat /\ j.at + 4 <= a.codeEnd
  BY DEF SoundAsm, JumpType
<1>16. \A j \in e.jumps : j.at + 4 <= e.codeEnd
  <2> SUFFICES ASSUME NEW j \in e.jumps PROVE j.at + 4 <= e.codeEnd
    OBVIOUS
  <2>1. CASE j \in a.jumps
    BY <2>1, <1>15, <1>12, <1>1
  <2>2. CASE j = new
    BY <2>2, <1>8, <1>3, <1>2
  <2> QED BY <2>1, <2>2, <1>3
<1>17. \A j \in a.jumps : j.at # at
  BY <1>15, <1>12, <1>1, <1>2
<1>18. \A i, j \in e.jumps : i.at = j.at => i = j
  BY <1>3, <1>8, <1>17 DEF SoundAsm
<1>19. e.toPatch = {<<j.label, j.at>> : j \in {i \in e.jumps : ~Known(e, i.label)}}
  <2>1. CASE Known(a, l)
    <3>1. {i \in e.jumps : ~Known(e, i.label)} = {i \in a.jumps : ~Known(a, i.label)}
      BY <1>3, <1>8, <1>11, <2>1
    <3> QED BY <3>1, <1>3, <2>1 DEF SoundAsm
  <2>2. CASE ~Known(a, l)
    <3>1. {i \in e.jumps : ~Known(e, i.label)} = {i \in a.jumps : ~Known(a, i.label)} \cup {new}
      BY <1>3, <1>8, <1>11, <2>2
    <3>2. {<<j.label, j.at>> : j \in {i \in a.jumps : ~Known(a, i.label)} \cup {new}}
            = {<<j.label, j.at>> : j \in {i \in a.jumps : ~Known(a, i.label)}} \cup {<<l, at>>}
      BY <1>8
    <3> QED BY <3>1, <3>2, <1>3, <2>2 DEF SoundAsm
  <2> QED BY <2>1, <2>2
<1>20. \A j \in e.jumps : Patchable(e, j) => Lands(e, j)
  <2> SUFFICES ASSUME NEW j \in e.jumps, Patchable(a, j) PROVE Lands(a, j)
    BY <1>11
  <2>1. CASE j \in a.jumps
    BY <2>1 DEF SoundAsm
  <2>2. CASE j = new
    <3> SUFFICES ASSUME Known(a, l) PROVE at + 4 + new.disp = a.labels[l]
      BY <2>2, <1>8 DEF Lands, Target
    <3>1. ~(a.labels[l] > at)
      BY <1>4, <1>12, <1>1, <1>2
    <3>2. op = "JNE"
      BY <2>2, <1>8, <3>1 DEF Patchable
    <3> QED BY <3>2, <1>10
  <2> QED BY <2>1, <2>2, <1>3
<1> HIDE DEF at
<1>21. SoundAsm(e)
  BY <1>12, <1>13, <1>14, <1>16, <1>18, <1>19, <1>20 DEF SoundAsm
<1>22. Aims(e) = Aims(a) \cup {l}
  BY <1>3, <1>8 DEF Aims
<1> QED BY <1>21, <1>22, <1>12, <1>3, <1>1 DEF e

\* makeLabel keeps the assembler sound: exactly the jumps that wait for the
\* label are patched, and they land on it.
LEMMA LabelSound ==
    ASSUME NEW a, SoundAsm(a), a.codeEnd > 0, NEW l \in Int, ~Known(a, l)
    PROVE  /\ SoundAsm(makeLabel(a, l))
           /\ makeLabel(a, l).codeEnd = a.codeEnd
           /\ DOMAIN makeLabel(a, l).labels = DOMAIN a.labels \cup {l}
           /\ makeLabel(a, l).labels[l] = a.codeEnd
           /\ \A x \in DOMAIN a.labels : makeLabel(a, l).labels[x] = a.labels[x]
           /\ Aims(makeLabel(a, l)) = Aims(a)
<1> DEFINE e == makeLabel(a, l)
           P(j) == Patched(a, j, l)
<1>1. /\ e.codeEnd = a.codeEnd
      /\ e.labels = [x \in DOMAIN a.labels \cup {l} |-> IF x = l THEN a.codeEnd ELSE a.labels[x]]
      /\ e.toPatch = a.toPatch \ Waiting(a, l)
      /\ e.jumps = {P(j) : j \in a.jumps}
  BY DEF makeLabel
<1> HIDE DEF e
<1>2. a.codeEnd \in Nat /\ a.codeEnd \in 1 .. a.codeEnd
  BY DEF SoundAsm
<1>3. /\ DOMAIN e.labels = DOMAIN a.labels \cup {l} /\ e.labels[l] = a.codeEnd
      /\ \A x \in DOMAIN a.labels : e.labels[x] = a.labels[x]
  BY <1>1 DEF Known
<1>4. e.labels \in [DOMAIN e.labels -> 1 .. e.codeEnd] /\ DOMAIN e.labels \subseteq Int
  BY <1>1, <1>2, <1>3 DEF SoundAsm
<1>5. \A j \in a.jumps : <<l, j.at>> \in a.toPatch <=> j.label = l
  <2> SUFFICES ASSUME NEW j \in a.jumps PROVE <<l, j.at>> \in a.toPatch <=> j.label = l
    OBVIOUS
  <2>1. ASSUME j.label = l PROVE <<l, j.at>> \in a.toPatch
    BY <2>1 DEF SoundAsm
  <2>2. ASSUME <<l, j.at>> \in a.toPatch PROVE j.label = l
    <3>1. PICK i \in a.jumps : <<i.label, i.at>> = <<l, j.at>>
      BY <2>2 DEF SoundAsm
    <3>2. i = j
      BY <3>1 DEF SoundAsm
    <3> QED BY <3>1, <3>2
  <2> QED BY <2>1, <2>2
<1>6. \A j \in a.jumps :
        /\ P(j).at = j.at /\ P(j).op = j.op /\ P(j).label = j.label
        /\ P(j) \in JumpType
        /\ P(j).disp = IF j.label = l THEN a.codeEnd - j.at - 4 ELSE j.disp
  <2> SUFFICES ASSUME NEW j \in a.jumps
               PROVE  /\ P(j).at = j.at /\ P(j).op = j.op /\ P(j).label = j.label
                      /\ P(j) \in JumpType
                      /\ P(j).disp = IF j.label = l THEN a.codeEnd - j.at - 4 ELSE j.disp
    OBVIOUS
  <2>1. j \in [at: Nat, op: DOMAIN Opcode, label: Int, disp: Int]
    BY DEF SoundAsm, JumpType
  <2>2. a.codeEnd - j.at - 4 \in Int
    BY <2>1, <1>2
  <2>3. CASE j.label = l
    <3>1. P(j) = [j EXCEPT !.disp = a.codeEnd - j.at - 4]
      BY <2>3, <1>5 DEF Patched
    <3> QED BY <3>1, <2>1, <2>2, <2>3 DEF JumpType
  <2>4. CASE j.label # l
    <3>1. P(j) = j
      BY <2>4, <1>5 DEF Patched
    <3> QED BY <3>1, <2>1, <2>4 DEF JumpType
  <2> QED BY <2>3, <2>4
<1> HIDE DEF P
<1>7. e.jumps \subseteq JumpType
  BY <1>1, <1>6
<1>8. \A j \in e.jumps : j.at + 4 <= e.codeEnd
  BY <1>1, <1>6 DEF SoundAsm
<1>9. \A i, j \in e.jumps : i.at = j.at => i = j
  BY <1>1, <1>6 DEF SoundAsm
<1>10. \A j : Known(e, j.label) <=> Known(a, j.label) \/ j.label = l
  BY <1>3 DEF Known
<1>11. e.toPatch = {<<j.label, j.at>> : j \in {i \in e.jumps : ~Known(e, i.label)}}
  <2>1. ASSUME NEW p \in e.toPatch
        PROVE  p \in {<<j.label, j.at>> : j \in {i \in e.jumps : ~Known(e, i.label)}}
    <3>1. p \in a.toPatch /\ p[1] # l
      BY <1>1 DEF Waiting
    <3>2. PICK j \in a.jumps : ~Known(a, j.label) /\ p = <<j.label, j.at>>
      BY <3>1 DEF SoundAsm
    <3>3. P(j) \in e.jumps /\ P(j).label = j.label /\ P(j).at = j.at
      BY <1>1, <1>6
    <3>4. ~Known(e, P(j).label)
      BY <1>10, <3>1, <3>2, <3>3
    <3> QED BY <3>2, <3>3, <3>4
  <2>2. ASSUME NEW i \in e.jumps, ~Known(e, i.label)
        PROVE  <<i.label, i.at>> \in e.toPatch
    <3>1. PICK j \in a.jumps : i = P(j)
      BY <1>1
    <3>2. i.label = j.label /\ i.at = j.at
      BY <3>1, <1>6
    <3>3. ~Known(a, j.label) /\ j.label # l
      BY <2>2, <1>10, <3>2
    <3>4. <<j.label, j.at>> \in a.toPatch
      BY <3>3 DEF SoundAsm
    <3> QED BY <3>2, <3>3, <3>4, <1>1 DEF Waiting
  <2> QED BY <2>1, <2>2
<1>12. \A j \in e.jumps : Patchable(e, j) => Lands(e, j)
  <2> SUFFICES ASSUME NEW i \in e.jumps, Patchable(e, i), Known(e, i.label)
               PROVE  Target(i) = e.labels[i.label]
    BY DEF Lands
  <2>1. PICK j \in a.jumps : i = P(j)
    BY <1>1
  <2>2. i.at = j.at /\ i.op = j.op /\ i.label = j.label
    BY <2>1, <1>6
  <2>3. j.at \in Nat /\ j.disp \in Int
    BY DEF SoundAsm, JumpType
  <2>4. CASE j.label = l
    <3>1. i.disp = a.codeEnd - j.at - 4
      BY <2>1, <2>4, <1>6
    <3> QED BY <3>1, <2>2, <2>3, <2>4, <1>2, <1>3 DEF Target
  <2>5. CASE j.label # l
    <3>1. i.disp = j.disp
      BY <2>1, <2>5, <1>6
    <3>2. Known(a, j.label) /\ j.label \in DOMAIN a.labels
      BY <2>2, <2>5, <1>10 DEF Known
    <3>3. e.labels[j.label] = a.labels[j.label]
      BY <3>2, <1>3
    <3>4. Patchable(a, j)
      BY <2>2, <3>2, <3>3 DEF Patchable, Known
    <3>5. Target(j) = a.labels[j.label]
      BY <3>2, <3>4 DEF SoundAsm, Lands
    <3> QED BY <3>1, <3>3, <3>5, <2>2 DEF Target
  <2> QED BY <2>4, <2>5
<1>13. SoundAsm(e)
  BY <1>1, <1>2, <1>4, <1>7, <1>8, <1>9, <1>11, <1>12 DEF SoundAsm
<1>14. Aims(e) = Aims(a)
  BY <1>1, <1>6 DEF Aims
<1> QED BY <1>13, <1>14, <1>1, <1>3 DEF e

(* The control flow graph **************************************************)

\* What a sound assembler says of the types of its parts.
LEMMA SoundType ==
    ASSUME NEW a, SoundAsm(a)
    PROVE  /\ a.codeEnd \in Nat
           /\ a.labels \in [DOMAIN a.labels -> Nat] /\ DOMAIN a.labels \subseteq Int
           /\ a.toPatch \subseteq Int \X Nat
           /\ a.jumps \subseteq JumpType
<1>1. a.codeEnd \in Nat /\ 1 .. a.codeEnd \subseteq Nat
  BY DEF SoundAsm
<1>2. a.labels \in [DOMAIN a.labels -> Nat]
  BY <1>1 DEF SoundAsm
<1>3. ASSUME NEW p \in a.toPatch PROVE p \in Int \X Nat
  <2>1. PICK j \in a.jumps : p = <<j.label, j.at>>
    BY DEF SoundAsm
  <2>2. j.label \in Int /\ j.at \in Nat
    BY DEF SoundAsm, JumpType
  <2> QED BY <2>1, <2>2
<1> QED BY <1>1, <1>2, <1>3 DEF SoundAsm

\* The quadruples and the exits of a block.  Every block but the last has the
\* next block for its first exit.
LEMMA BlockFacts ==
    ASSUME IsCFG(cfg), NEW b \in 0 .. Count
    PROVE  /\ Count \in Nat \ {0} /\ Special = Count
           /\ Quads(b) \in Seq(Quadruple(0 .. Count - 1))
           /\ Exits(b) \in Seq(0 .. Count - 1)
           /\ b = Special => Exits(b) = <<0>>
           /\ b + 1 < Count => Len(Exits(b)) >= 1 /\ Exits(b)[1] = b + 1
<1>1. /\ cfg.blocks \in Seq(Seq(Quadruple(0 .. Count - 1))) /\ cfg.blocks # <<>>
      /\ cfg.special \in Seq(Quadruple({0}))
  BY DEF IsCFG, Count
<1>2. Count \in Nat \ {0} /\ Special = Count
  BY <1>1 DEF Count, Special
<1>3. Quadruple({0}) \subseteq Quadruple(0 .. Count - 1)
  BY <1>2 DEF Quadruple
<1>4. \A i \in 0 .. Count - 1 : cfg.blocks[i + 1] \in Seq(Quadruple(0 .. Count - 1))
  <2> SUFFICES ASSUME NEW i \in 0 .. Count - 1
               PROVE  cfg.blocks[i + 1] \in Seq(Quadruple(0 .. Count - 1))
    OBVIOUS
  <2>1. i + 1 \in 1 .. Len(cfg.blocks)
    BY <1>2 DEF Count
  <2> QED BY <2>1, <1>1
<1>5. Quads(b) \in Seq(Quadruple(0 .. Count - 1))
  <2>1. CASE b = Special
    <3>1. cfg.special \in Seq(Quadruple(0 .. Count - 1))
      BY <1>1, <1>3
    <3> QED BY <3>1, <2>1 DEF Quads
  <2>2. CASE b # Special
    BY <2>2, <1>2, <1>4 DEF Quads
  <2> QED BY <2>1, <2>2
<1>6. CASE b = Special
  BY <1>2, <1>5, <1>6 DEF Exits
<1>7. CASE b # Special
  <2> DEFINE next == IF b + 1 = Count THEN <<>> ELSE <<b + 1>>
             jump == IF EndsInJump(cfg, b) THEN <<LastOf(cfg, b).dest>> ELSE <<>>
  <2>1. b \in 0 .. Count - 1
    BY <1>7, <1>2
  <2>2. Exits(b) = next \o jump
    BY <1>7 DEF Exits
  <2>3. next \in Seq(0 .. Count - 1)
    <3> DEFINE S == 0 .. Count - 1
    <3>1. b + 1 # Count => b + 1 \in S
      BY <2>1, <1>2
    <3> SUFFICES next \in Seq(S)
      OBVIOUS
    <3> HIDE DEF S
    <3>2. CASE b + 1 = Count
      BY <3>2
    <3>3. CASE b + 1 # Count
      <4>1. <<b + 1>> \in Seq(S)
        BY <3>1, <3>3
      <4> QED BY <4>1, <3>3
    <3> QED BY <3>2, <3>3
  <2>4. jump \in Seq(0 .. Count - 1)
    <3>1. CASE EndsInJump(cfg, b)
      <4>1. cfg.blocks[b + 1] \in Seq(Quadruple(0 .. Count - 1)) /\ cfg.blocks[b + 1] # <<>>
        BY <3>1, <2>1, <1>4 DEF EndsInJump
      <4>2. LastOf(cfg, b) \in Quadruple(0 .. Count - 1)
        BY <4>1 DEF LastOf
      <4>3. LastOf(cfg, b).dest \in 0 .. Count - 1
        BY <4>2 DEF Quadruple
      <4> QED BY <4>3, <3>1
    <3>2. CASE ~EndsInJump(cfg, b)
      BY <3>2
    <3> QED BY <3>1, <3>2
  <2>5. Exits(b) \in Seq(0 .. Count - 1)
    BY <2>2, <2>3, <2>4
  <2>6. b + 1 < Count => Len(Exits(b)) >= 1 /\ Exits(b)[1] = b + 1
    <3> SUFFICES ASSUME b + 1 < Count PROVE Len(Exits(b)) >= 1 /\ Exits(b)[1] = b + 1
      OBVIOUS
    <3>1. next = <<b + 1>>
      BY <2>1, <1>2
    <3>2. Len(next) = 1 /\ next[1] = b + 1
      BY <3>1
    <3> HIDE DEF next, jump
    <3>4. Len(jump) \in Nat
      BY <2>4
    <3>5. /\ Len(next \o jump) = Len(next) + Len(jump)
          /\ \A i \in 1 .. Len(next) + Len(jump) :
               (next \o jump)[i] = IF i <= Len(next) THEN next[i] ELSE jump[i - Len(next)]
      BY <2>3, <2>4, ConcatProperties
    <3>3. Len(next \o jump) = Len(next) + Len(jump) /\ (next \o jump)[1] = next[1]
      BY <3>5, <3>2, <3>4
    <3> QED BY <2>2, <3>2, <3>3, <3>4
  <2> QED BY <1>2, <1>5, <1>7, <2>5, <2>6
<1> QED BY <1>6, <1>7

(* The inductive invariant *************************************************)

\* The invariant holds before the first compilation.
LEMMA InitHolds == Init => IInv
<1> SUFFICES ASSUME Init PROVE IInv
  OBVIOUS
<1>1. SoundAsm(asm)
  BY FreshSound DEF Init
<1>2. TypeOK
  BY <1>1, SoundType DEF Init, TypeOK
<1>3. FallsThrough /\ Complete
  BY DEF Init, FallsThrough, Complete
<1> QED BY <1>1, <1>2, <1>3 DEF Init, IInv

\* Starting on a body.
LEMMA BeginKeeps ==
    ASSUME IInv, NEW g \in CFGs, Begin(g)
    PROVE  IInv'
<1> DEFINE n == Len(g.blocks)
<1>1. IsCFG(g) /\ Prologue \in Nat \ {0}
  BY CodeGenAssumption
<1>2. n \in Nat \ {0}
  BY <1>1 DEF IsCFG
<1>3. /\ cfg' = g /\ pc' = "dfs" /\ pc = "idle" /\ visited' = {n} /\ fault' = fault
      /\ calls' = <<[block |-> n, quad |-> 1, exit |-> 1]>>
      /\ asm' = makeLabel(initLabelTable(Prologue), n) /\ blockEnd' = blockEnd
  BY DEF Begin
<1>4. Count' = n /\ Special' = n
  BY <1>3 DEF Count, Special
<1>5. SoundAsm(initLabelTable(Prologue)) /\ initLabelTable(Prologue).codeEnd = Prologue
      /\ ~Known(initLabelTable(Prologue), n) /\ DOMAIN initLabelTable(Prologue).labels = {}
      /\ Aims(initLabelTable(Prologue)) = {}
  BY <1>1, FreshSound DEF Known
<1>6. /\ SoundAsm(asm') /\ asm'.codeEnd = Prologue
      /\ DOMAIN asm'.labels = {n} /\ Aims(asm') = {}
  BY <1>1, <1>2, <1>3, <1>5, LabelSound
<1>7. blockEnd' = [b \in {} |-> 0]
  BY <1>3 DEF IInv
<1>8. DOMAIN blockEnd' = {}
  BY <1>7
<1>9. /\ Len(calls') = 1 /\ DOMAIN calls' = {1} /\ calls' # <<>>
      /\ calls'[1] = [block |-> n, quad |-> 1, exit |-> 1]
      /\ calls' \in Seq([block: 0 .. n, quad: Nat \ {0}, exit: Nat \ {0}])
  BY <1>2, <1>3
<1>10. TypeOK'
  <2>1. IsCFG(cfg') /\ pc' \in {"idle", "dfs", "finish"}
    BY <1>1, <1>3
  <2>2. visited' \subseteq 0 .. Count'
    BY <1>2, <1>3, <1>4
  <2>3. blockEnd' \in [DOMAIN blockEnd' -> Nat] /\ DOMAIN blockEnd' \subseteq visited'
    BY <1>7
  <2>4. fault' \in {"none", "abort", "patch list", "page"}
    BY <1>3 DEF IInv, TypeOK
  <2>5. calls' \in Seq([block: 0 .. Count', quad: Nat \ {0}, exit: Nat \ {0}])
    BY <1>9, <1>4
  <2>6. /\ asm'.codeEnd \in Nat
        /\ asm'.labels \in [DOMAIN asm'.labels -> Nat] /\ DOMAIN asm'.labels \subseteq Int
        /\ asm'.toPatch \subseteq Int \X Nat
        /\ asm'.jumps \subseteq JumpType
    BY <1>6, SoundType
  <2>7. (pc # "idle" => IsCFG(cfg))'
    BY <2>1
  <2> QED BY <2>1, <2>2, <2>3, <2>4, <2>5, <2>6, <2>7 DEF TypeOK
<1>11. FallsThrough' /\ Complete'
  BY <1>3, <1>8 DEF FallsThrough, Complete
<1>12. Dfs'
  <2>1. Path'
    BY <1>9, <1>4 DEF Path
  <2>2. Finished'
    BY <1>8 DEF Finished
  <2>3. Descending'
    BY <1>2, <1>3, <1>4, <1>8, <1>9 DEF Descending, Top
  <2> QED BY <2>1, <2>2, <2>3, <1>3, <1>6 DEF Dfs
<1> QED BY <1>1, <1>3, <1>6, <1>10, <1>11, <1>12 DEF IInv

\* The top activation of dfs.
LEMMA TopFacts ==
    ASSUME TypeOK, pc = "dfs", calls # <<>>
    PROVE  /\ Len(calls) \in Nat \ {0} /\ Len(calls) \in DOMAIN calls /\ DOMAIN calls = 1 .. Len(calls)
           /\ Top = calls[Len(calls)]
           /\ Top \in [block: 0 .. Count, quad: Nat \ {0}, exit: Nat \ {0}]
           /\ IsCFG(cfg)
<1> DEFINE R == [block: 0 .. Count, quad: Nat \ {0}, exit: Nat \ {0}]
<1>1. calls \in Seq(R) /\ IsCFG(cfg)
  BY DEF TypeOK
<1> HIDE DEF R
<1>2. Len(calls) \in Nat \ {0} /\ DOMAIN calls = 1 .. Len(calls)
  BY <1>1
<1>3. calls[Len(calls)] \in R
  BY <1>1, <1>2
<1> QED BY <1>1, <1>2, <1>3 DEF Top, R

\* Writing the code of a quadruple.
LEMMA GeneratedSound ==
    ASSUME SoundAsm(asm), asm.codeEnd > 0, IsCFG(cfg), NEW q \in Quadruple(0 .. Count - 1),
           q.kind # "unsupported"
    PROVE  /\ SoundAsm(Generated(q)) /\ Generated(q).codeEnd > 0
           /\ Generated(q).labels = asm.labels
           /\ Aims(Generated(q)) \subseteq Aims(asm) \cup {LEAVE, LINTERP} \cup 0 .. Count
<1> DEFINE a == Emit(asm, Size[q.kind])
<1>0. Count \in Nat \ {0}
  <2>1. cfg.blocks \in Seq(Seq(Quadruple(0 .. Len(cfg.blocks) - 1))) /\ cfg.blocks # <<>>
    BY DEF IsCFG
  <2> QED BY <2>1 DEF Count
<1>1. q.kind \in Kinds /\ q.dest \in 0 .. Count /\ q.dest \in Int /\ Size[q.kind] \in Nat
  BY <1>0, CodeGenAssumption DEF Quadruple
<1>2. /\ SoundAsm(a) /\ a.codeEnd = asm.codeEnd + Size[q.kind] /\ a.labels = asm.labels
      /\ Aims(a) = Aims(asm)
  BY <1>1, EmitSound
<1>3. a.codeEnd > 0 /\ asm.codeEnd \in Nat
  BY <1>1, <1>2 DEF SoundAsm
<1> HIDE DEF a
<1>4. CASE q.kind \in {"nop", "plain"}
  BY <1>2, <1>3, <1>4 DEF Generated, a
<1>5. CASE q.kind \notin {"nop", "plain"}
  <2>1. q.kind \in {"load", "save", "jtrue", "jfalse", "goto"}
    BY <1>1, <1>5 DEF Kinds
  <2>2. /\ JumpOf(q)[1] \in DOMAIN Opcode /\ JumpOf(q)[2] \in Int
        /\ JumpOf(q)[2] \in {LEAVE, LINTERP} \cup 0 .. Count
    BY <2>1, <1>1 DEF JumpOf, Opcode, LEAVE, LINTERP
  <2>3. Generated(q) = Jump(a, JumpOf(q)[1], JumpOf(q)[2])
    BY <1>5 DEF Generated, a
  <2>4. /\ SoundAsm(Jump(a, JumpOf(q)[1], JumpOf(q)[2]))
        /\ Jump(a, JumpOf(q)[1], JumpOf(q)[2]).codeEnd >= a.codeEnd
        /\ Jump(a, JumpOf(q)[1], JumpOf(q)[2]).labels = a.labels
        /\ Aims(Jump(a, JumpOf(q)[1], JumpOf(q)[2])) = Aims(a) \cup {JumpOf(q)[2]}
    BY <2>2, <1>2, JumpSound
  <2>5. a.codeEnd \in Nat /\ Jump(a, JumpOf(q)[1], JumpOf(q)[2]).codeEnd \in Nat
    BY <1>2, <2>4 DEF SoundAsm
  <2> QED BY <2>2, <2>3, <2>4, <2>5, <1>2, <1>3
<1> QED BY <1>4, <1>5

\* One round of codegen's loop.
LEMMA GenerateKeeps ==
    ASSUME IInv, Generate
    PROVE  IInv'
<1> DEFINE n == Len(calls)
           q == Quads(Top.block)[Top.quad]
           R == [block: 0 .. Count, quad: Nat \ {0}, exit: Nat \ {0}]
<1>1. /\ pc = "dfs" /\ fault = "none" /\ calls # <<>>
      /\ Top.quad <= Len(Quads(Top.block))
      /\ fault' = FaultOf(q) /\ asm' = IF fault' = "none" THEN Generated(q) ELSE asm
      /\ calls' = [calls EXCEPT ![n] = [calls[n] EXCEPT !.quad = @ + 1]]
      /\ cfg' = cfg /\ pc' = pc /\ visited' = visited /\ blockEnd' = blockEnd
  BY DEF Generate, Writing
<1>2. TypeOK /\ SoundAsm(asm) /\ asm.codeEnd > 0 /\ Dfs /\ FallsThrough
  BY <1>1 DEF IInv
<1>3. /\ n \in Nat \ {0} /\ n \in DOMAIN calls /\ DOMAIN calls = 1 .. n
      /\ Top = calls[n] /\ Top \in R /\ IsCFG(cfg)
  BY <1>1, <1>2, TopFacts
<1>4. Quads(Top.block) \in Seq(Quadruple(0 .. Count - 1))
  BY <1>3, BlockFacts
<1>5. q \in Quadruple(0 .. Count - 1)
  BY <1>1, <1>3, <1>4
<1>6. /\ SoundAsm(asm') /\ asm'.codeEnd > 0 /\ asm'.labels = asm.labels
      /\ Aims(asm') \subseteq Aims(asm) \cup {LEAVE, LINTERP} \cup 0 .. Count
  <2>1. fault' = "none" => q.kind # "unsupported"
    BY <1>1 DEF FaultOf
  <2>2. CASE fault' = "none"
    BY <2>1, <2>2, <1>1, <1>2, <1>3, <1>5, GeneratedSound
  <2> QED BY <2>2, <1>1, <1>2
<1>7. Count' = Count /\ Special' = Special /\ \A b : Quads(b)' = Quads(b)
  BY <1>1 DEF Count, Special, Quads
<1> DEFINE top == [calls[n] EXCEPT !.quad = @ + 1]
<1>8. top \in R /\ top.block = Top.block /\ top.exit = Top.exit
  BY <1>3
<1> HIDE DEF top
<1>9. /\ Len(calls') = n /\ DOMAIN calls' = DOMAIN calls /\ calls' # <<>>
      /\ calls'[n] = top
      /\ \A i \in DOMAIN calls : i # n => calls'[i] = calls[i]
      /\ calls' \in Seq(R)
  <2>1. calls' = [calls EXCEPT ![n] = top] /\ calls \in Seq(R)
    BY <1>1, <1>2 DEF top, TypeOK
  <2> HIDE DEF R
  <2> QED BY <2>1, <1>3, <1>8
<1>10. Top' = top
  BY <1>9 DEF Top
<1>11. TypeOK'
  <2>1. /\ asm'.codeEnd \in Nat
        /\ asm'.labels \in [DOMAIN asm'.labels -> Nat] /\ DOMAIN asm'.labels \subseteq Int
        /\ asm'.toPatch \subseteq Int \X Nat
        /\ asm'.jumps \subseteq JumpType
    BY <1>6, SoundType
  <2>2. fault' \in {"none", "abort", "patch list", "page"}
    BY <1>1 DEF FaultOf
  <2> QED BY <2>1, <2>2, <1>1, <1>2, <1>7, <1>9 DEF TypeOK
<1>12. FallsThrough' /\ Complete'
  BY <1>1, <1>2, <1>6, <1>7 DEF FallsThrough, Complete, Successor, Known
<1>13. Top.block \notin DOMAIN blockEnd
  BY <1>1, <1>2, <1>3 DEF Dfs, Finished, R
<1>14. Descending
  BY <1>2, <1>3, <1>13 DEF Dfs, Returning
<1>15. Dfs'
  <2>1. Path'
    BY <1>2, <1>3, <1>7, <1>8, <1>9 DEF Dfs, Path
  <2>2. Finished'
    <3> SUFFICES ASSUME NEW i \in DOMAIN calls, calls'[i].block \in DOMAIN blockEnd
                 PROVE  calls'[i].quad > Len(Quads(calls'[i].block))
      BY <1>1, <1>7, <1>9 DEF Finished
    <3>1. i # n
      BY <1>8, <1>9, <1>13
    <3> QED BY <3>1, <1>2, <1>9 DEF Dfs, Finished
  <2>3. Descending'
    BY <1>1, <1>7, <1>8, <1>9, <1>10, <1>14 DEF Descending
  <2> QED BY <2>1, <2>2, <2>3, <1>1, <1>2, <1>6, <1>7 DEF Dfs
<1> QED BY <1>1, <1>6, <1>11, <1>12, <1>15 DEF IInv

\* The end of a block is recorded when its last quadruple is written.
LEMMA EndFacts ==
    ASSUME IInv, pc = "dfs", Written
    PROVE  /\ DOMAIN EndOfBlock = DOMAIN blockEnd \cup {Top.block}
           /\ EndOfBlock \in [DOMAIN EndOfBlock -> Nat]
           /\ \A b \in DOMAIN blockEnd : EndOfBlock[b] = blockEnd[b]
           /\ Top.block \notin DOMAIN blockEnd => EndOfBlock[Top.block] = asm.codeEnd
<1>1. asm.codeEnd \in Nat /\ blockEnd \in [DOMAIN blockEnd -> Nat]
  BY DEF IInv, SoundAsm, TypeOK
<1> QED BY <1>1 DEF EndOfBlock

\* Where dfs stands when it looks at an exit: on the way down the exit is the
\* block after the top one, or the top one is the last block.
LEMMA NextExit ==
    ASSUME IInv, Descend, NEW b, b = Exits(Top.block)[Top.exit], NEW n, n = Len(calls)
    PROVE  /\ b \in 0 .. Count - 1 /\ Count \in Nat \ {0} /\ Special = Count
           /\ b \in visited /\ Descending => n = Count + 1 /\ Top.block = Count - 1
           /\ b \notin visited => /\ Descending /\ b = n - 1 /\ n <= Count
                                  /\ Top.block = IF n = 1 THEN Count ELSE n - 2
                                  /\ b = Successor(Top.block)
<1>1. pc = "dfs" /\ calls # <<>> /\ Top.exit <= Len(Exits(Top.block)) /\ TypeOK /\ Dfs
  BY DEF Descend, Written, Writing, IInv
<1>2. /\ n \in Nat \ {0} /\ n \in DOMAIN calls /\ Top = calls[n] /\ IsCFG(cfg)
      /\ Top.block \in 0 .. Count /\ Top.exit \in Nat \ {0}
  BY <1>1, TopFacts
<1>3. /\ Count \in Nat \ {0} /\ Special = Count
      /\ Exits(Top.block) \in Seq(0 .. Count - 1)
      /\ Top.block = Special => Exits(Top.block) = <<0>>
      /\ Top.block + 1 < Count => Exits(Top.block)[1] = Top.block + 1
  BY <1>2, BlockFacts
<1>4. b \in 0 .. Count - 1
  BY <1>1, <1>2, <1>3
<1>5. n <= Count + 1 /\ Top.block = IF n = 1 THEN Count ELSE n - 2
  BY <1>1, <1>2, <1>3 DEF Dfs, Path
<1>11. n \in Nat \ {0} /\ Count \in Nat \ {0}
  BY <1>2, <1>3
<1>12. n # 1 => Top.block = n - 2
  BY <1>5
<1>6. ASSUME Descending PROVE visited = {Count} \cup 0 .. n - 2 /\ Top.exit = 1
  BY <1>3, <1>6 DEF Descending
<1>7. ASSUME Descending, n - 1 < Count PROVE b = n - 1 /\ b \notin visited
  <2>1. CASE n = 1
    BY <2>1, <1>3, <1>5, <1>6, <1>7
  <2>2. CASE n # 1
    <3>1. Top.block = n - 2 /\ n - 2 \in Nat /\ Top.block + 1 < Count
      BY <2>2, <1>2, <1>5, <1>7
    <3>2. b = n - 1
      BY <3>1, <1>3, <1>6, <1>7, <1>2
    <3> QED BY <3>2, <1>2, <1>3, <1>6, <1>7
  <2> QED BY <2>1, <2>2
<1>8. ASSUME Descending, ~(n - 1 < Count) PROVE n = Count + 1 /\ Top.block = Count - 1 /\ b \in visited
  <2>0. n # 1
    BY <1>11, <1>8
  <2>1. n # 1 /\ Top.block = n - 2
    BY <2>0, <1>12
  <2>2. n = Count + 1 /\ Top.block = Count - 1
    <3>1. n \in Nat /\ Count \in Nat /\ n <= Count + 1 /\ ~(n - 1 < Count)
      BY <1>11, <1>5, <1>8
    <3>2. n = Count + 1
      BY <3>1
    <3> QED BY <3>1, <3>2, <2>1
  <2>3. visited = {Count} \cup 0 .. Count - 1
    BY <2>2, <1>3, <1>6, <1>8
  <2> QED BY <2>2, <2>3, <1>4
<1>9. ASSUME b \notin visited PROVE Descending
  BY <1>1, <1>3, <1>4, <1>9 DEF Dfs, Returning
<1>10. ASSUME Descending, n - 1 < Count PROVE b = Successor(Top.block) /\ n <= Count
  <2>1. b = n - 1
    BY <1>7, <1>10
  <2>2. n <= Count
    BY <1>11, <1>10
  <2>3. CASE n = 1
    <3>1. Top.block = Special
      BY <2>3, <1>5, <1>3
    <3> QED BY <3>1, <2>1, <2>2, <2>3 DEF Successor
  <2>4. CASE n # 1
    <3>1. Top.block = n - 2 /\ n - 2 # Count /\ n - 2 + 1 # Count /\ n - 2 + 1 = n - 1
      BY <2>4, <2>2, <1>11, <1>12
    <3> QED BY <3>1, <2>1, <2>2, <1>3 DEF Successor
  <2> QED BY <2>3, <2>4
<1> QED BY <1>2, <1>3, <1>4, <1>5, <1>7, <1>8, <1>9, <1>10

\* Looking at the next exit of a block.
LEMMA DescendKeeps ==
    ASSUME IInv, Descend
    PROVE  IInv'
<1> DEFINE n == Len(calls)
           R == [block: 0 .. Count, quad: Nat \ {0}, exit: Nat \ {0}]
           b == Exits(Top.block)[Top.exit]
           top == [calls[n] EXCEPT !.exit = @ + 1]
           frames == [calls EXCEPT ![n] = top]
<1>1. /\ pc = "dfs" /\ fault = "none" /\ calls # <<>> /\ Written
      /\ Top.quad > Len(Quads(Top.block)) /\ Top.exit <= Len(Exits(Top.block))
      /\ IF b \in visited THEN calls' = frames /\ visited' = visited /\ asm' = asm
                          ELSE Visit(frames, b, asm)
      /\ blockEnd' = EndOfBlock
      /\ cfg' = cfg /\ pc' = pc /\ fault' = fault
  BY DEF Descend, Written, Writing
<1>2. TypeOK /\ SoundAsm(asm) /\ asm.codeEnd > 0 /\ Dfs /\ FallsThrough /\ DOMAIN asm.labels = visited
  BY <1>1 DEF IInv, Dfs
<1>3. /\ n \in Nat \ {0} /\ n \in DOMAIN calls /\ DOMAIN calls = 1 .. n
      /\ Top = calls[n] /\ Top \in R /\ IsCFG(cfg)
  BY <1>1, <1>2, TopFacts
<1>4. /\ b \in 0 .. Count - 1 /\ Count \in Nat \ {0} /\ Special = Count
      /\ b \in visited /\ Descending => n = Count + 1 /\ Top.block = Count - 1
      /\ b \notin visited => /\ Descending /\ b = n - 1 /\ n <= Count
                             /\ Top.block = IF n = 1 THEN Count ELSE n - 2
                             /\ b = Successor(Top.block)
  BY NextExit
<1>6. Count' = Count /\ Special' = Special /\ (\A x : Quads(x)' = Quads(x))
      /\ (\A x : Successor(x)' = Successor(x))
  BY <1>1 DEF Count, Special, Quads, Successor
<1>7. top \in R /\ top.block = Top.block /\ top.quad = Top.quad /\ top.exit = Top.exit + 1
  BY <1>3
<1> HIDE DEF top
<1>8. /\ Len(frames) = n /\ DOMAIN frames = 1 .. n /\ frames # <<>>
      /\ frames[n] = top
      /\ \A i \in 1 .. n : i # n => frames[i] = calls[i]
      /\ frames \in Seq(R)
  <2>1. calls \in Seq(R)
    BY <1>2 DEF TypeOK
  <2> HIDE DEF R
  <2> QED BY <2>1, <1>3, <1>7
<1> HIDE DEF frames, b, n
<1>9. /\ DOMAIN blockEnd' = DOMAIN blockEnd \cup {Top.block}
      /\ blockEnd' \in [DOMAIN blockEnd' -> Nat]
      /\ \A x \in DOMAIN blockEnd : blockEnd'[x] = blockEnd[x]
      /\ Top.block \notin DOMAIN blockEnd => blockEnd'[Top.block] = asm.codeEnd
  BY <1>1, EndFacts
<1>10. \A i \in 1 .. n : frames[i].block = IF i = 1 THEN Special ELSE i - 2
  BY <1>2, <1>3, <1>7, <1>8 DEF Dfs, Path
<1>11. \A i \in 1 .. n : frames[i].block \in DOMAIN blockEnd' =>
                         frames[i].quad > Len(Quads(frames[i].block))
  <2> SUFFICES ASSUME NEW i \in 1 .. n, frames[i].block \in DOMAIN blockEnd'
               PROVE  frames[i].quad > Len(Quads(frames[i].block))
    OBVIOUS
  <2>1. CASE i = n
    BY <2>1, <1>1, <1>7, <1>8
  <2>2. CASE i # n
    <3>1. calls[i].block = IF i = 1 THEN Count ELSE i - 2
      BY <1>2, <1>3, <1>4 DEF Dfs, Path
    <3>2. Top.block = IF n = 1 THEN Count ELSE n - 2
      BY <1>2, <1>3, <1>4 DEF Dfs, Path
    <3>3. n <= Count + 1 /\ i \in 1 .. n
      BY <1>2 DEF Dfs, Path, n
    <3>4. calls[i].block # Top.block
      <4>1. n \in Nat \ {0} /\ Count \in Nat \ {0}
        BY <1>3, <1>4
      <4>2. n # 1 /\ i \in Nat /\ i < n /\ Top.block = n - 2
        BY <4>1, <3>2, <3>3, <2>2
      <4>3. (IF i = 1 THEN Count ELSE i - 2) # n - 2
        BY <4>1, <4>2, <3>3
      <4> QED BY <4>2, <4>3, <3>1
    <3>5. frames[i] = calls[i]
      BY <2>2, <1>8
    <3> QED BY <3>4, <3>5, <1>2, <1>3, <1>9 DEF Dfs, Finished
  <2> QED BY <2>1, <2>2
<1>12. CASE b \in visited
  <2>1. calls' = frames /\ visited' = visited /\ asm' = asm
    BY <1>1, <1>12
  <2>2. Returning'
    <3>1. CASE Returning
      <4>1. DOMAIN blockEnd' = 0 .. Count
        BY <1>3, <1>9, <3>1 DEF Returning
      <4>2. blockEnd'[Count - 1] = asm.codeEnd
        BY <1>4, <1>9, <3>1 DEF Returning
      <4> QED BY <4>1, <4>2, <2>1, <1>6, <3>1 DEF Returning
    <3>2. CASE Descending
      <4>5. Top.block = Count - 1 /\ n = Count + 1
        BY <3>2, <1>4, <1>12
      <4>2. visited = {Count} \cup 0 .. n - 2 /\ DOMAIN blockEnd = visited \ {Top.block}
        BY <3>2, <1>4 DEF Descending, n
      <4>6. visited = 0 .. Count /\ DOMAIN blockEnd' = 0 .. Count
        BY <4>2, <4>5, <1>3, <1>4, <1>9
      <4>7. blockEnd'[Count - 1] = asm.codeEnd
        BY <4>2, <4>5, <1>9
      <4> QED BY <4>6, <4>7, <2>1, <1>6 DEF Returning
    <3> QED BY <3>1, <3>2, <1>2 DEF Dfs
  <2>3. TypeOK'
    <3>1. DOMAIN blockEnd' \subseteq visited' /\ visited' \subseteq 0 .. Count'
      BY <2>1, <2>2, <1>6 DEF Returning
    <3> QED BY <2>1, <3>1, <1>1, <1>2, <1>6, <1>8, <1>9 DEF TypeOK
  <2>4. FallsThrough'
    <3> SUFFICES ASSUME NEW x \in DOMAIN blockEnd', Known(asm, Successor(x))
                 PROVE  asm.labels[Successor(x)] = blockEnd'[x]
      BY <2>1, <1>6 DEF FallsThrough
    <3>1. CASE x \in DOMAIN blockEnd
      BY <3>1, <1>2, <1>9 DEF FallsThrough
    <3>2. CASE x \notin DOMAIN blockEnd
      <4>1. x = Top.block /\ Descending
        BY <3>2, <1>2, <1>3, <1>9 DEF Dfs, Returning
      <4>2. Top.block = Count - 1
        BY <4>1, <1>4, <1>12
      <4>3. Successor(x) = LEAVE
        BY <4>1, <4>2, <1>4 DEF Successor
      <4>4. LEAVE \notin visited
        <5>1. visited \subseteq 0 .. Count
          BY <1>2 DEF TypeOK
        <5> QED BY <5>1, <1>4 DEF LEAVE
      <4> QED BY <4>3, <4>4, <1>2 DEF Known
    <3> QED BY <3>1, <3>2
  <2>5. Dfs'
    <3>1. n <= Count + 1
      BY <1>2 DEF Dfs, Path, n
    <3>2. Path'
      BY <3>1, <2>1, <1>6, <1>8, <1>10 DEF Path
    <3>3. Finished'
      BY <2>1, <1>6, <1>8, <1>11 DEF Finished
    <3> QED BY <3>2, <3>3, <2>1, <2>2, <1>2, <1>6 DEF Dfs
  <2>6. Complete'
    BY <1>1 DEF Complete
  <2> QED BY <2>1, <2>3, <2>4, <2>5, <2>6, <1>1, <1>2 DEF IInv
<1>13. CASE b \notin visited
  <2> DEFINE frame == [block |-> b, quad |-> 1, exit |-> 1]
  <2>1. /\ calls' = Append(frames, frame) /\ visited' = visited \cup {b} /\ asm' = makeLabel(asm, b)
        /\ Descending /\ b = n - 1 /\ n <= Count
        /\ b = Successor(Top.block)
    BY <1>1, <1>4, <1>13 DEF Visit
  <2>2. /\ SoundAsm(asm') /\ asm'.codeEnd = asm.codeEnd
        /\ DOMAIN asm'.labels = visited \cup {b}
        /\ asm'.labels[b] = asm.codeEnd
        /\ \A x \in visited : asm'.labels[x] = asm.labels[x]
        /\ Aims(asm') = Aims(asm)
    BY <2>1, <1>2, <1>4, <1>13, LabelSound DEF Known
  <2>3. /\ Len(calls') = n + 1 /\ DOMAIN calls' = 1 .. n + 1 /\ calls' # <<>>
        /\ calls'[n + 1] = frame
        /\ \A i \in 1 .. n : calls'[i] = frames[i]
        /\ calls' \in Seq(R)
    <3>1. frame \in R
      BY <1>4
    <3> HIDE DEF R, frame
    <3> QED BY <3>1, <2>1, <1>3, <1>8
  <2> HIDE DEF frame
  <2>4. frame.block = b /\ frame.exit = 1
    BY DEF frame
  <2>5. visited = {Special} \cup 0 .. n - 2 /\ DOMAIN blockEnd = visited \ {Top.block}
    BY <2>1 DEF Descending, n
  <2>6. visited' = {Special} \cup 0 .. n - 1
    BY <2>1, <2>5, <1>3
  <2>7. DOMAIN blockEnd' = visited /\ visited = visited' \ {b} /\ b \notin DOMAIN blockEnd'
    <3>1. Top.block \in visited
      BY <2>5, <1>2, <1>3, <1>4 DEF Dfs, Path
    <3> QED BY <3>1, <2>1, <2>5, <1>9, <1>13
  <2>8. Dfs'
    <3>1. Path'
      <4>1. \A i \in 1 .. n + 1 : calls'[i].block = IF i = 1 THEN Special ELSE i - 2
        <5> SUFFICES ASSUME NEW i \in 1 .. n + 1
                     PROVE  calls'[i].block = IF i = 1 THEN Special ELSE i - 2
          OBVIOUS
        <5>1. CASE i = n + 1
          BY <5>1, <2>1, <2>3, <2>4, <1>3
        <5>2. CASE i # n + 1
          <6>1. i \in 1 .. n
            BY <5>2, <1>3
          <6> QED BY <6>1, <2>3, <1>10
        <5> QED BY <5>1, <5>2
      <4>2. n + 1 <= Count + 1
        BY <2>1, <1>3, <1>4
      <4> QED BY <4>1, <4>2, <2>3, <1>6 DEF Path
    <3>2. Finished'
      <4> SUFFICES ASSUME NEW i \in 1 .. n + 1, calls'[i].block \in DOMAIN blockEnd'
                   PROVE  calls'[i].quad > Len(Quads(calls'[i].block))
        BY <2>3, <1>6 DEF Finished
      <4>1. i # n + 1
        BY <2>3, <2>4, <2>7
      <4>2. i \in 1 .. n /\ calls'[i] = frames[i]
        BY <4>1, <2>3, <1>3
      <4> QED BY <4>2, <1>11
    <3>3. Descending'
      <4>1. Top' = frame
        BY <2>3 DEF Top
      <4> QED BY <4>1, <2>3, <2>4, <2>6, <2>7, <1>3, <1>6 DEF Descending
    <3>4. DOMAIN asm'.labels = visited' /\ Aims(asm') \subseteq {LEAVE, LINTERP} \cup 0 .. Count'
      BY <2>1, <2>2, <1>2, <1>6 DEF Dfs
    <3> QED BY <3>1, <3>2, <3>3, <3>4 DEF Dfs
  <2>9. FallsThrough'
    <3> SUFFICES ASSUME NEW x \in DOMAIN blockEnd', Known(asm', Successor(x))
                 PROVE  asm'.labels[Successor(x)] = blockEnd'[x]
      BY <1>6 DEF FallsThrough
    <3>1. CASE x = Top.block
      BY <3>1, <2>1, <2>2, <2>5, <1>9
    <3>2. CASE x # Top.block
      <4>1. x \in DOMAIN blockEnd /\ blockEnd'[x] = blockEnd[x] /\ x \in visited
        BY <3>2, <2>5, <2>7, <1>9
      <4>2. Successor(x) # b
        BY <3>2, <4>1, <2>1, <2>5, <1>3, <1>4, <1>13 DEF Successor, LEAVE
      <4>3. Successor(x) \in visited
        BY <4>2, <2>2 DEF Known
      <4> QED BY <4>1, <4>3, <2>2, <1>2 DEF FallsThrough, Known
    <3> QED BY <3>1, <3>2
  <2>10. TypeOK'
    <3>1. /\ asm'.codeEnd \in Nat
          /\ asm'.labels \in [DOMAIN asm'.labels -> Nat] /\ DOMAIN asm'.labels \subseteq Int
          /\ asm'.toPatch \subseteq Int \X Nat
          /\ asm'.jumps \subseteq JumpType
      BY <2>2, SoundType
    <3>2. visited' \subseteq 0 .. Count' /\ DOMAIN blockEnd' \subseteq visited'
      <4>1. visited \subseteq 0 .. Count
        BY <1>2 DEF TypeOK
      <4>2. b \in 0 .. Count
        BY <1>4
      <4> QED BY <4>1, <4>2, <2>1, <2>7, <1>6
    <3> QED BY <3>1, <3>2, <2>3, <1>1, <1>2, <1>6, <1>9 DEF TypeOK
  <2>11. Complete'
    BY <1>1 DEF Complete
  <2> QED BY <2>2, <2>8, <2>9, <2>10, <2>11, <1>1, <1>2 DEF IInv
<1> QED BY <1>12, <1>13

\* dfs returns from a block: only the last block can be the first to do so.
LEMMA ReturnKeeps ==
    ASSUME IInv, Return
    PROVE  IInv'
<1> DEFINE n == Len(calls)
           R == [block: 0 .. Count, quad: Nat \ {0}, exit: Nat \ {0}]
<1>1. /\ pc = "dfs" /\ fault = "none" /\ calls # <<>> /\ Written
      /\ Top.exit > Len(Exits(Top.block))
      /\ calls' = SubSeq(calls, 1, n - 1)
      /\ blockEnd' = EndOfBlock
      /\ cfg' = cfg /\ pc' = pc /\ fault' = fault /\ visited' = visited /\ asm' = asm
  BY DEF Return, Written, Writing
<1>2. TypeOK /\ SoundAsm(asm) /\ asm.codeEnd > 0 /\ Dfs /\ FallsThrough /\ DOMAIN asm.labels = visited
  BY <1>1 DEF IInv, Dfs
<1>3. /\ n \in Nat \ {0} /\ n \in DOMAIN calls /\ DOMAIN calls = 1 .. n
      /\ Top = calls[n] /\ Top \in R /\ IsCFG(cfg)
  BY <1>1, <1>2, TopFacts
<1>4. /\ Count \in Nat \ {0} /\ Special = Count
      /\ Top.block = Special => Len(Exits(Top.block)) = 1
      /\ Top.block + 1 < Count => Len(Exits(Top.block)) >= 1
      /\ Len(Exits(Top.block)) \in Nat
  BY <1>3, BlockFacts
<1>5. n <= Count + 1 /\ Top.block = IF n = 1 THEN Count ELSE n - 2
  BY <1>2, <1>3, <1>4 DEF Dfs, Path
<1>6. Count' = Count /\ Special' = Special /\ (\A x : Quads(x)' = Quads(x))
      /\ (\A x : Successor(x)' = Successor(x))
  BY <1>1 DEF Count, Special, Quads, Successor
<1>7. /\ DOMAIN blockEnd' = DOMAIN blockEnd \cup {Top.block}
      /\ blockEnd' \in [DOMAIN blockEnd' -> Nat]
      /\ \A x \in DOMAIN blockEnd : blockEnd'[x] = blockEnd[x]
      /\ Top.block \notin DOMAIN blockEnd => blockEnd'[Top.block] = asm.codeEnd
  BY <1>1, EndFacts
<1>8. /\ Len(calls') = n - 1 /\ DOMAIN calls' = 1 .. n - 1
      /\ \A i \in 1 .. n - 1 : calls'[i] = calls[i]
      /\ calls' \in Seq(R)
  <2>1. calls \in Seq(R)
    BY <1>2 DEF TypeOK
  <2> HIDE DEF R
  <2> QED BY <2>1, <1>1, <1>3
<1> HIDE DEF n
<1>9. ASSUME Descending PROVE n = Count + 1 /\ Top.block = Count - 1
  <2>1. Top.exit = 1
    BY <1>9 DEF Descending
  <2>2. Top.block # Special /\ ~(Top.block + 1 < Count)
    BY <2>1, <1>1, <1>4
  <2>3. n # 1 /\ Top.block = n - 2
    BY <2>2, <1>4, <1>5
  <2>4. n \in Nat /\ Count \in Nat /\ n <= Count + 1 /\ ~(n - 1 < Count)
    BY <2>2, <2>3, <1>3, <1>4, <1>5
  <2>5. n = Count + 1
    BY <2>4
  <2> QED BY <2>3, <2>4, <2>5
<1>10. ASSUME Descending
       PROVE  visited = 0 .. Count /\ DOMAIN blockEnd = visited \ {Count - 1}
  <2>1. visited = {Special} \cup 0 .. n - 2 /\ DOMAIN blockEnd = visited \ {Top.block}
    BY <1>10 DEF Descending, n
  <2>2. n - 2 = Count - 1 /\ Top.block = Count - 1
    BY <1>4, <1>9, <1>10
  <2>3. visited = {Count} \cup 0 .. Count - 1
    BY <2>1, <2>2, <1>4
  <2>4. {Count} \cup 0 .. Count - 1 = 0 .. Count
    BY <1>4
  <2> QED BY <2>1, <2>2, <2>3, <2>4
<1>11. Returning'
  <2>1. CASE Returning
    <3>1. DOMAIN blockEnd' = 0 .. Count /\ Count - 1 \in DOMAIN blockEnd
      BY <1>3, <1>4, <1>7, <2>1 DEF Returning
    <3> QED BY <3>1, <1>1, <1>6, <1>7, <2>1 DEF Returning
  <2>2. CASE Descending
    <3>1. DOMAIN blockEnd' = 0 .. Count /\ blockEnd'[Count - 1] = asm.codeEnd
      BY <1>4, <1>7, <1>9, <1>10, <2>2
    <3> QED BY <3>1, <1>1, <1>6, <1>10, <2>2 DEF Returning
  <2> QED BY <2>1, <2>2, <1>2 DEF Dfs
<1>12. Path'
  <2>1. \A i \in 1 .. n - 1 : calls[i].block = IF i = 1 THEN Special ELSE i - 2
    BY <1>2, <1>3 DEF Dfs, Path
  <2>2. n - 1 <= Count + 1
    BY <1>3, <1>4, <1>5
  <2> QED BY <2>1, <2>2, <1>6, <1>8 DEF Path
<1>13. Finished'
  <2> SUFFICES ASSUME NEW i \in 1 .. n - 1, calls[i].block \in DOMAIN blockEnd'
               PROVE  calls[i].quad > Len(Quads(calls[i].block))
    BY <1>6, <1>8 DEF Finished
  <2>1. i \in DOMAIN calls /\ i # n
    BY <1>3
  <2>2. calls[i].block = IF i = 1 THEN Count ELSE i - 2
    BY <2>1, <1>2, <1>4 DEF Dfs, Path
  <2>3. calls[i].block # Top.block
    BY <2>1, <2>2, <1>3, <1>4, <1>5
  <2> QED BY <2>1, <2>3, <1>2, <1>7 DEF Dfs, Finished
<1>14. Dfs'
  BY <1>1, <1>2, <1>6, <1>11, <1>12, <1>13 DEF Dfs
<1>15. TypeOK'
  <2>1. DOMAIN blockEnd' \subseteq visited' /\ visited' \subseteq 0 .. Count'
    BY <1>11 DEF Returning
  <2> QED BY <2>1, <1>1, <1>2, <1>6, <1>7, <1>8 DEF TypeOK
<1>16. FallsThrough'
  <2> SUFFICES ASSUME NEW x \in DOMAIN blockEnd', Known(asm, Successor(x))
               PROVE  asm.labels[Successor(x)] = blockEnd'[x]
    BY <1>1, <1>6 DEF FallsThrough
  <2>1. CASE x \in DOMAIN blockEnd
    BY <2>1, <1>2, <1>7 DEF FallsThrough
  <2>2. CASE x \notin DOMAIN blockEnd
    <3>1. x = Top.block /\ Descending
      BY <2>2, <1>2, <1>3, <1>7 DEF Dfs, Returning
    <3>2. Successor(x) = LEAVE
      BY <3>1, <1>4, <1>9 DEF Successor
    <3>3. visited \subseteq 0 .. Count
      BY <1>2 DEF TypeOK
    <3>4. LEAVE \notin visited
      BY <3>3, <1>4 DEF LEAVE
    <3> QED BY <3>2, <3>4, <1>2 DEF Known
  <2> QED BY <2>1, <2>2
<1>17. Complete'
  BY <1>1 DEF Complete
<1> QED BY <1>1, <1>2, <1>14, <1>15, <1>16, <1>17 DEF IInv

\* The ends of the procedure: no block is open and every label but two exists.
LEMMA FinishKeeps ==
    ASSUME IInv, Finish
    PROVE  IInv'
<1> DEFINE a1 == makeLabel(asm, LEAVE)
           a2 == Emit(a1, Epilogue)
           a3 == makeLabel(a2, LINTERP)
<1>1. /\ pc = "dfs" /\ fault = "none" /\ calls = <<>>
      /\ asm' = Emit(a3, 5 + Epilogue)
      /\ fault' \in {"none", "page"} /\ pc' = "finish"
      /\ cfg' = cfg /\ calls' = calls /\ visited' = visited /\ blockEnd' = blockEnd
  BY DEF Finish
<1>2. TypeOK /\ SoundAsm(asm) /\ asm.codeEnd > 0 /\ Dfs /\ FallsThrough /\ IsCFG(cfg)
  BY <1>1 DEF IInv, TypeOK
<1>3. /\ Returning /\ visited = 0 .. Count /\ DOMAIN blockEnd = 0 .. Count
      /\ blockEnd[Count - 1] = asm.codeEnd /\ DOMAIN asm.labels = 0 .. Count
  BY <1>1, <1>2 DEF Dfs, Descending, Returning
<1>4. Count \in Nat \ {0} /\ Special = Count
  <2>1. cfg.blocks \in Seq(Seq(Quadruple(0 .. Len(cfg.blocks) - 1))) /\ cfg.blocks # <<>>
    BY <1>2 DEF IsCFG
  <2> QED BY <2>1 DEF Count, Special
<1>5. ~Known(asm, LEAVE) /\ LEAVE \in Int /\ LINTERP \in Int /\ LEAVE # LINTERP
  BY <1>3, <1>4 DEF Known, LEAVE, LINTERP
<1>6. /\ SoundAsm(a1) /\ a1.codeEnd = asm.codeEnd
      /\ DOMAIN a1.labels = 0 .. Count \cup {LEAVE} /\ a1.labels[LEAVE] = asm.codeEnd
      /\ \A x \in 0 .. Count : a1.labels[x] = asm.labels[x]
      /\ Aims(a1) = Aims(asm)
  BY <1>2, <1>3, <1>5, LabelSound
<1> HIDE DEF a1
<1>7. Epilogue \in Nat /\ 5 + Epilogue \in Nat /\ asm.codeEnd \in Nat
  BY <1>2, CodeGenAssumption DEF SoundAsm
<1>8. /\ SoundAsm(a2) /\ a2.codeEnd = asm.codeEnd + Epilogue /\ a2.labels = a1.labels
      /\ Aims(a2) = Aims(asm)
  <2>1. /\ SoundAsm(a2) /\ a2.codeEnd = a1.codeEnd + Epilogue /\ a2.labels = a1.labels
        /\ Aims(a2) = Aims(a1)
    BY <1>6, <1>7, EmitSound
  <2> QED BY <2>1, <1>6
<1> HIDE DEF a2
<1>9. a2.codeEnd > 0 /\ ~Known(a2, LINTERP)
  BY <1>2, <1>4, <1>5, <1>6, <1>7, <1>8 DEF Known, LINTERP
<1>10. /\ SoundAsm(a3) /\ a3.codeEnd = a2.codeEnd
       /\ DOMAIN a3.labels = DOMAIN a2.labels \cup {LINTERP}
       /\ \A x \in DOMAIN a2.labels : a3.labels[x] = a2.labels[x]
       /\ Aims(a3) = Aims(a2)
  BY <1>5, <1>8, <1>9, LabelSound
<1> HIDE DEF a3
<1>11. /\ SoundAsm(asm') /\ asm'.codeEnd = a3.codeEnd + (5 + Epilogue) /\ asm'.labels = a3.labels
       /\ Aims(asm') = Aims(a3)
  BY <1>1, <1>7, <1>10, EmitSound
<1>12. asm'.codeEnd > 0
  BY <1>2, <1>7, <1>8, <1>10, <1>11
<1>13. /\ DOMAIN asm'.labels = {LEAVE, LINTERP} \cup 0 .. Count
       /\ asm'.labels[LEAVE] = asm.codeEnd
       /\ \A x \in 0 .. Count : asm'.labels[x] = asm.labels[x]
  BY <1>6, <1>8, <1>10, <1>11
<1>14. Count' = Count /\ \A x : Successor(x)' = Successor(x)
  BY <1>1 DEF Count, Special, Successor
<1>15. FallsThrough'
  <2> SUFFICES ASSUME NEW x \in 0 .. Count
               PROVE  asm'.labels[Successor(x)] = blockEnd[x]
    BY <1>1, <1>3, <1>14 DEF FallsThrough
  <2>1. CASE x = Count - 1
    BY <2>1, <1>3, <1>4, <1>13 DEF Successor
  <2>2. CASE x # Count - 1
    <3>1. Successor(x) \in 0 .. Count
      BY <2>2, <1>4 DEF Successor
    <3> QED BY <3>1, <1>2, <1>3, <1>13 DEF FallsThrough, Known
  <2> QED BY <2>1, <2>2
<1>16. asm'.toPatch = {}
  <2>1. asm'.toPatch = {<<j.label, j.at>> : j \in {i \in asm'.jumps : ~Known(asm', i.label)}}
    BY <1>11 DEF SoundAsm
  <2>2. Aims(asm') \subseteq DOMAIN asm'.labels
    BY <1>2, <1>8, <1>10, <1>11, <1>13 DEF Dfs
  <2>3. \A j \in asm'.jumps : Known(asm', j.label)
    BY <2>2 DEF Aims, Known
  <2> QED BY <2>1, <2>3
<1>17. Complete'
  BY <1>1, <1>3, <1>13, <1>14, <1>16 DEF Complete
<1>18. TypeOK'
  <2>1. /\ asm'.codeEnd \in Nat
        /\ asm'.labels \in [DOMAIN asm'.labels -> Nat] /\ DOMAIN asm'.labels \subseteq Int
        /\ asm'.toPatch \subseteq Int \X Nat
        /\ asm'.jumps \subseteq JumpType
    BY <1>11, SoundType
  <2>2. (pc # "idle" => IsCFG(cfg))'
    BY <1>1, <1>2
  <2> QED BY <2>1, <2>2, <1>1, <1>2, <1>14 DEF TypeOK
<1> QED BY <1>1, <1>11, <1>12, <1>15, <1>17, <1>18 DEF IInv

\* JIT_CodeGen returns.
LEMMA EndKeeps ==
    ASSUME IInv, finishLabelTable
    PROVE  IInv'
<1>1. /\ fault = "none" /\ fault' = fault /\ pc' = "idle" /\ visited' = {} /\ cfg' = NoCFG
      /\ asm' = initLabelTable(0) /\ blockEnd' = [b \in {} |-> 0] /\ calls' = calls
  BY DEF finishLabelTable
<1>2. calls = <<>>
  <2>1. pc = "finish"
    BY DEF finishLabelTable
  <2> QED BY <2>1 DEF IInv
<1>3. SoundAsm(asm')
  BY <1>1, FreshSound
<1>4. TypeOK'
  BY <1>1, <1>2, <1>3, SoundType DEF TypeOK
<1>5. FallsThrough' /\ Complete'
  BY <1>1 DEF FallsThrough, Complete
<1> QED BY <1>1, <1>2, <1>3, <1>4, <1>5 DEF IInv

(* The theorems ************************************************************)

\* Every step of every compilation keeps the inductive invariant.
THEOREM Invariant == Spec => []IInv
<1>1. Init => IInv
  BY InitHolds
<1>2. IInv /\ [Next]_vars => IInv'
  <2> SUFFICES ASSUME IInv, [Next]_vars PROVE IInv'
    OBVIOUS
  <2>1. CASE \E g \in CFGs : Begin(g)
    BY <2>1, BeginKeeps
  <2>2. CASE Generate
    BY <2>2, GenerateKeeps
  <2>3. CASE Descend
    BY <2>3, DescendKeeps
  <2>4. CASE Return
    BY <2>4, ReturnKeeps
  <2>5. CASE Finish
    BY <2>5, FinishKeeps
  <2>6. CASE finishLabelTable
    BY <2>6, EndKeeps
  <2>7. CASE UNCHANGED vars
    BY <2>7 DEF vars, IInv, TypeOK, SoundAsm, FallsThrough, Complete, Dfs, Path, Finished,
                Descending, Returning, Top, Count, Special, Quads, Successor, Known, Aims,
                Patchable, Lands, Target
  <2> QED BY <2>1, <2>2, <2>3, <2>4, <2>5, <2>6, <2>7 DEF Next, Step
<1> QED BY <1>1, <1>2, PTL DEF Spec

\* The types of all variables.
THEOREM TypeCorrect == Spec => []TypeOK
<1>1. IInv => TypeOK
  BY DEF IInv
<1> QED BY <1>1, Invariant, PTL

\* Every forward jump and every JNE reaches its label, whatever the body, the
\* code sizes and the order of the blocks.
THEOREM Landing == Spec => []JumpsLand
<1>1. IInv => JumpsLand
  BY DEF IInv, SoundAsm, JumpsLand
<1> QED BY <1>1, Invariant, PTL

\* The list of waiting jumps is exact at every moment.
THEOREM Waits == Spec => []PatchesExact
<1>1. IInv => PatchesExact
  BY DEF IInv, SoundAsm, PatchesExact
<1> QED BY <1>1, Invariant, PTL

\* Control that runs off the end of a block reaches the block that follows it
\* in the bytecode, for every control flow graph JIT_Compile can build.
THEOREM Order == Spec => []FallsThrough
<1>1. IInv => FallsThrough
  BY DEF IInv
<1> QED BY <1>1, Invariant, PTL

\* A page that becomes executable holds every block and no unfinished jump.
THEOREM Finishes == Spec => []Complete
<1>1. IInv => Complete
  BY DEF IInv
<1> QED BY <1>1, Invariant, PTL
==============================================================================
