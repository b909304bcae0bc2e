-------------------------- MODULE JitBlocks_proofs ---------------------------
(***************************************************************************)
(* Proofs about JitBlocks, for every bytecode and every distance of the    *)
(* two arrays.                                                             *)
(***************************************************************************)
EXTENDS JitBlocks, FiniteSetTheorems, WellFoundedInduction, TLAPS

(* Reading bytes ***********************************************************)

\* The body has a length, and what JIT_Compile reads anywhere is a byte.
LEMMA ReadsBytes ==
    ASSUME body \in Seq(Byte), NEW p \in Nat, NEW t \in Byte
    PROVE  N \in Nat /\ At(p, t) \in 0 .. 255
<1>1. N \in Nat
  BY DEF N
<1>2. CASE p < N
  <2>1. p + 1 \in 1 .. Len(body)
    BY <1>1, <1>2 DEF N
  <2>2. body[p + 1] \in Byte
    BY <2>1
  <2> QED BY <1>1, <1>2, <2>2 DEF At, Byte
<1>3. CASE ~(p < N)
  BY <1>1, <1>3 DEF At, Byte
<1> QED BY <1>2, <1>3

\* What is read as a signed number is one.
LEMMA ReadsInts ==
    ASSUME body \in Seq(Byte), NEW p \in Nat, NEW t \in Byte
    PROVE  Int4At(p, t) \in Int /\ Char(At(p, t)) \in Int
<1>1. \A q \in Nat : At(q, t) \in 0 .. 255
  BY ReadsBytes
<1>3. At(p, t) \in 0 .. 255 /\ At(p + 1, t) \in 0 .. 255
      /\ At(p + 2, t) \in 0 .. 255 /\ At(p + 3, t) \in 0 .. 255
  <2>1. p + 1 \in Nat /\ p + 2 \in Nat /\ p + 3 \in Nat
    OBVIOUS
  <2> QED BY <1>1, <2>1
<1>2. \A b1, b2, b3, b4 \in 0 .. 255 : Int4(b1, b2, b3, b4) \in Int
  BY DEF Int4
<1>4. \A b \in 0 .. 255 : Char(b) \in Int
  BY DEF Char
<1>5. Int4At(p, t) \in Int
  BY <1>2, <1>3 DEF Int4At
<1> QED BY <1>3, <1>4, <1>5

\* Every instruction has a length.
LEMMA LengthType == \A op \in 0 .. 255 : Length(op) \in 1 .. 9
BY DEF Length, Jumps1, JUMP1, JUMP_TRUE1, JUMP_FALSE1, JUMP_TRUE4, START_CMD

(* The inductive invariant *************************************************)

\* Where the loop variables stand; nothing is built before the map is made.
Counters ==
    /\ N >= 1
    /\ phase = "scan" => numblocks = 1 /\ j = 0 /\ i >= 1
    /\ phase = "compress" => i <= j /\ j < N /\ numblocks = N - j
    /\ phase \in {"map", "build"} => i <= numblocks /\ j = N - numblocks + i
    /\ phase \in {"scan", "compress", "map"} => blocks = <<>>
    /\ phase = "build" => Len(blocks) = IF i < numblocks THEN i + 1 ELSE numblocks

\* leaders[N] holds the length until it is marked.
LengthEntry == leaders[N] = IF N \in marks THEN 1 ELSE N

\* The scan writes a mark for every marked position inside the array.
Marked == \A p \in 0 .. N - 1 : leaders[p] # 0 <=> p \in marks

\* leaders[j + 1 .. N - 1] lists the marks behind i, no entry before its mark.
Listed ==
    /\ \A p \in j + 1 .. N - 1 : leaders[p] \in marks /\ i < leaders[p] /\ leaders[p] <= p
    /\ \A p, q \in j + 1 .. N - 1 : p < q => leaders[p] < leaders[q]
    /\ \A m \in i + 1 .. N - 1 : m \in marks => \E p \in j + 1 .. N - 1 : leaders[p] = m

\* The marks up to i are still there, and nothing is left between them and the list.
Unlisted ==
    /\ \A p \in 1 .. i : leaders[p] # 0 <=> p \in marks
    /\ \A p \in i + 1 .. j : p # 0 => leaders[p] = 0
    /\ leaders[0] # 0 => 0 \in marks

Scans ==
    /\ phase \in {"scan", "compress", "map"} => LengthEntry
    /\ phase \in {"scan", "compress"} \/ (phase = "map" /\ i = 0) =>
         bc_to_bb = [p \in 0 .. N |-> UNSET]
    /\ phase = "scan" => Marked
    /\ phase = "compress" => Listed /\ Unlisted

\* L is the list of the leaders, with the length at its end.
IsList(L) ==
    /\ L \in [0 .. numblocks -> 0 .. N]
    /\ L[0] = 0 /\ L[numblocks] = N
    /\ \A a, b \in 0 .. numblocks : a < b => L[a] < L[b]
    /\ \A a \in 0 .. numblocks : L[a] <= N - numblocks + a
    /\ {L[a] : a \in 0 .. numblocks - 1} = Leaders

\* From block i on the list is in leaders, and bc_to_bb is right before it.
Mapped(L) ==
    /\ \A a \in i .. numblocks : leaders[N - numblocks + a] = L[a]
    /\ \A p \in 0 .. N : p < L[i] =>
         \E b \in 0 .. i - 1 :
           L[b] <= p /\ p < L[b + 1] /\ bc_to_bb[p] = IF p = L[1] - 1 THEN UNSET ELSE b

Maps == phase = "map" /\ Bounded => \E L : IsList(L) /\ Mapped(L)

IInv == TypeOK /\ Counters /\ Scans /\ Partition /\ Maps /\ MapExact

(* Type correctness ********************************************************)

LEMMA InitTypes == Init => TypeOK /\ Counters /\ Scans
<1> SUFFICES ASSUME Init PROVE TypeOK /\ Counters /\ Scans
  OBVIOUS
<1>1. body \in Seq(Byte) /\ body # <<>> /\ gap \in Nat
  BY BlocksAssumption DEF Init
<1>2. N \in Nat /\ N >= 1
  BY <1>1 DEF N
<1>3. /\ leaders \in [0 .. N -> 0 .. N] /\ leaders[N] = N
      /\ \A p \in 0 .. N - 1 : leaders[p] = 0
  BY <1>2 DEF Init
<1>4. TypeOK
  BY <1>1, <1>2, <1>3 DEF Init, TypeOK, Block
<1>5. Counters
  BY <1>2 DEF Init, Counters
<1>6. Scans
  BY <1>2, <1>3 DEF Init, Scans, LengthEntry, Marked
<1> QED BY <1>4, <1>5, <1>6

\* A mark is a number, and marking keeps the types of leaders and marks.
LEMMA MarkType ==
    ASSUME TypeOK, Counters, NEW S \in SUBSET Int, Mark(S)
    PROVE  leaders' \in [0 .. N -> 0 .. N] /\ marks' \subseteq Int
<1>1. N \in Nat /\ N >= 1
  BY DEF TypeOK, Counters, N
<1> QED BY <1>1 DEF TypeOK, Mark

LEMMA NextTypes ==
    ASSUME TypeOK, Counters, [Next]_vars
    PROVE  TypeOK' /\ Counters'
<1> USE DEF scanVars, buildVars
<1>0. N \in Nat /\ N >= 1
  BY DEF TypeOK, Counters, N
<1>1. CASE UNCHANGED vars
  BY <1>1 DEF vars, TypeOK, Counters, N, Block
<1>2. ASSUME ScanJump1 PROVE TypeOK' /\ Counters'
  <2>1. PICK t \in After : Mark({i + At(i + 1, t), i + 2})
    BY <1>2 DEF ScanJump1
  <2>2. At(i + 1, t) \in 0 .. 255
    <3>1. body \in Seq(Byte) /\ i + 1 \in Nat /\ t \in Byte
      BY BlocksAssumption DEF TypeOK
    <3> QED BY <3>1, ReadsBytes
  <2>3. leaders' \in [0 .. N -> 0 .. N] /\ marks' \subseteq Int
    BY <2>1, <2>2, MarkType DEF TypeOK
  <2>4. TypeOK'
    BY <1>2, <2>3 DEF ScanJump1, TypeOK, N, Block
  <2> QED BY <1>2, <2>4 DEF ScanJump1, TypeOK, Counters, N
<1>3. ASSUME ScanJumpTrue4 PROVE TypeOK' /\ Counters'
  <2>1. PICK t \in After : Mark({i + Int4At(i + 1, t), i + 5})
    BY <1>3 DEF ScanJumpTrue4
  <2>2. Int4At(i + 1, t) \in Int
    BY ReadsInts, BlocksAssumption DEF TypeOK
  <2>3. leaders' \in [0 .. N -> 0 .. N] /\ marks' \subseteq Int
    BY <2>1, <2>2, MarkType DEF TypeOK
  <2>4. TypeOK'
    BY <1>3, <2>3 DEF ScanJumpTrue4, TypeOK, N, Block
  <2> QED BY <1>3, <2>4 DEF ScanJumpTrue4, TypeOK, Counters, N
<1>4. ASSUME ScanOther PROVE TypeOK' /\ Counters'
  BY <1>4 DEF ScanOther, Skip, TypeOK, Counters, N, Block
<1>5. ASSUME ScanEnd PROVE TypeOK' /\ Counters'
  BY <1>0, <1>5 DEF ScanEnd, TypeOK, Counters, N, Block
<1>6. ASSUME Compress PROVE TypeOK' /\ Counters'
  <2>1. /\ i \in 1 .. j /\ j < N /\ numblocks = N - j /\ blocks = <<>> /\ i' = i - 1
        /\ UNCHANGED <<body, gap, phase, bc_to_bb, marks, k, pc, blocks, got_done, exits>>
    BY <1>6 DEF Compress, Counters, TypeOK
  <2>2. CASE leaders[i] # 0
    <3>1. leaders' \in [0 .. N -> 0 .. N] /\ numblocks' = numblocks + 1 /\ j' = j - 1
      <4>1. leaders' = Moved /\ numblocks' = numblocks + 1 /\ j' = j - 1
        BY <1>6, <2>2 DEF Compress
      <4>2. \A p \in 0 .. N : leaders[p] \in 0 .. N /\ i \in 0 .. N
        BY <1>0, <2>1 DEF TypeOK
      <4> QED BY <1>0, <4>1, <4>2 DEF Moved
    <3>2. bc_to_bb' \in [0 .. N -> Block']
      BY <2>1, <3>1 DEF TypeOK, Block
    <3>3. blocks' \in Seq(Seq([at : Nat, op : Supported, dest : Block']))
      BY <2>1
    <3>4. exits' \in Seq(Seq(Block'))
      <4>1. Block \subseteq Block'
        BY <2>1, <3>1, <1>0 DEF Block
      <4>2. Seq(Block) \subseteq Seq(Block')
        BY <4>1
      <4> QED BY <2>1, <4>2 DEF TypeOK
    <3>5. TypeOK'
      BY <1>0, <2>1, <3>1, <3>2, <3>3, <3>4 DEF TypeOK, N
    <3>6. i' <= j' /\ j' < N' /\ numblocks' = N' - j' /\ N' = N
      BY <1>0, <2>1, <3>1 DEF N, TypeOK
    <3> QED BY <1>6, <1>0, <2>1, <3>5, <3>6 DEF Counters, Compress
  <2>3. CASE leaders[i] = 0
    BY <1>6, <1>0, <2>1, <2>3 DEF Compress, Counters, TypeOK, N, Block
  <2> QED BY <2>2, <2>3
<1>7. ASSUME CompressEnd PROVE TypeOK' /\ Counters'
  BY <1>0, <1>7 DEF CompressEnd, TypeOK, Counters, N, Block
<1>8. ASSUME MapBlock PROVE TypeOK' /\ Counters'
  <2>1. i \in 0 .. numblocks - 1 /\ numblocks <= N /\ i' = i + 1 /\ j' = j + 1
        /\ UNCHANGED <<body, gap, phase, numblocks, marks, k, pc, blocks, got_done, exits>>
    BY <1>8 DEF MapBlock, TypeOK
  <2>2. leaders' \in [0 .. N -> 0 .. N]
    <3>1. \A p \in 0 .. N : leaders[p] \in 0 .. N /\ i \in 0 .. N
      BY <1>0, <2>1 DEF TypeOK
    <3> QED BY <1>8, <3>1 DEF MapBlock
  <2>3. bc_to_bb' \in [0 .. N -> Block]
    BY <1>8, <2>1 DEF MapBlock, Filled, TypeOK, Block
  <2>4. j + 1 \in 0 .. N
    BY <1>0, <1>8, <2>1 DEF MapBlock, Counters, TypeOK
  <2>5. TypeOK'
    BY <2>1, <2>2, <2>3, <2>4 DEF TypeOK, N, Block
  <2>6. phase = "map" /\ N' = N /\ j = N - numblocks + i /\ blocks = <<>>
    BY <1>8, <2>1 DEF MapBlock, Counters, N
  <2>7. i' <= numblocks' /\ j' = N' - numblocks' + i'
    BY <1>0, <2>1, <2>6 DEF TypeOK
  <2> QED BY <1>0, <2>1, <2>5, <2>6, <2>7 DEF Counters
<1>9. ASSUME MapEnd PROVE TypeOK' /\ Counters'
  <2>1. /\ phase' = "build" /\ i' = 0 /\ j' = j - numblocks /\ k' = 0 /\ pc' = 0
        /\ blocks' = <<<<>>>> /\ got_done' = FALSE
        /\ UNCHANGED <<body, gap, exits, bc_to_bb, numblocks, leaders, marks>>
    BY <1>9 DEF MapEnd
  <2>2. j = N /\ j - numblocks \in 0 .. N
    BY <1>0, <1>9 DEF MapEnd, Counters, TypeOK
  <2>3. blocks' \in Seq(Seq([at : Nat, op : Supported, dest : Block])) /\ Len(blocks') = 1
    BY <2>1
  <2>4. TypeOK'
    BY <2>1, <2>2, <2>3 DEF TypeOK, N, Block
  <2> QED BY <1>0, <2>1, <2>2, <2>3, <2>4 DEF Counters, N, TypeOK
<1>10. ASSUME BuildQuad PROVE TypeOK' /\ Counters'
  <2> DEFINE Quad == [at : Nat, op : Supported, dest : Block]
  <2>1. PICK t \in After :
          LET op == At(pc, t) IN
          /\ op \in Supported
          /\ k' = k + Length(op) /\ pc' = pc + Length(op)
          /\ blocks' = IF Dropped(op) THEN blocks
                       ELSE [blocks EXCEPT ![i + 1] =
                               Append(@, [at |-> pc, op |-> op, dest |-> Destination(op, t)])]
          /\ got_done' = IF op \in Silent THEN got_done ELSE op = DONE
    BY <1>10 DEF BuildQuad
  <2> DEFINE op == At(pc, t)
             quad == [at |-> pc, op |-> op, dest |-> Destination(op, t)]
  <2>2. op \in 0 .. 255 /\ op \in Supported
    BY <2>1, ReadsBytes, BlocksAssumption DEF TypeOK
  <2>3. Length(op) \in Nat
    BY <2>2, LengthType
  <2>4. k' \in Nat /\ pc' \in Nat
    BY <2>1, <2>3 DEF TypeOK
  <2>5. \A p : Lookup(p) \in Block
    BY DEF Lookup, Block, TypeOK
  <2>6. Destination(op, t) \in Block
    BY <2>5 DEF Destination, Block
  <2>7. quad \in Quad
    BY <2>2, <2>6 DEF TypeOK
  <2>8. phase = "build" /\ i < numblocks
        /\ UNCHANGED <<body, gap, phase, i, j, bc_to_bb, exits, numblocks, leaders, marks>>
    BY <1>10 DEF BuildQuad
  <2>9. blocks \in Seq(Seq(Quad)) /\ i + 1 \in 1 .. Len(blocks)
    BY <2>8 DEF TypeOK, Counters
  <2>10. blocks' \in Seq(Seq(Quad)) /\ Len(blocks') = Len(blocks)
    <3> HIDE DEF op, quad, Quad
    <3>1. blocks' = blocks \/ blocks' = [blocks EXCEPT ![i + 1] = Append(@, quad)]
      BY <2>1 DEF op, quad
    <3>2. Append(blocks[i + 1], quad) \in Seq(Quad)
      BY <2>7, <2>9
    <3>3. [blocks EXCEPT ![i + 1] = Append(@, quad)] = [blocks EXCEPT ![i + 1] = Append(blocks[i + 1], quad)]
      OBVIOUS
    <3>4. \A s \in Seq(Seq(Quad)), n \in Nat, x \in Seq(Quad) :
            n \in 1 .. Len(s) => [s EXCEPT ![n] = x] \in Seq(Seq(Quad)) /\ Len([s EXCEPT ![n] = x]) = Len(s)
      OBVIOUS
    <3>5. i + 1 \in Nat
      BY DEF TypeOK
    <3> QED BY <2>9, <3>1, <3>2, <3>3, <3>4, <3>5
  <2>11. got_done' \in BOOLEAN
    BY <2>1 DEF TypeOK
  <2>12. TypeOK'
    BY <2>4, <2>8, <2>10, <2>11 DEF TypeOK, N, Block
  <2> QED BY <2>8, <2>10, <2>12 DEF Counters, N
<1>11. ASSUME Unsupported PROVE TypeOK' /\ Counters'
  BY <1>11 DEF Unsupported, TypeOK, Counters, N, Block
<1>12. ASSUME NextBlock PROVE TypeOK' /\ Counters'
  <2>1. /\ phase = "build" /\ i \in 0 .. numblocks - 1 /\ i' = i + 1 /\ j' = j + 1 /\ k' = 0
        /\ UNCHANGED <<body, gap, phase, pc, got_done, exits, bc_to_bb, numblocks, leaders, marks>>
    BY <1>12 DEF NextBlock, TypeOK
  <2>2. j + 1 \in 0 .. N /\ Len(blocks) = i + 1
    BY <1>0, <2>1 DEF Counters, TypeOK
  <2>3. /\ blocks' \in Seq(Seq([at : Nat, op : Supported, dest : Block]))
        /\ Len(blocks') = IF i + 1 < numblocks THEN i + 2 ELSE i + 1
    BY <1>12, <2>1, <2>2 DEF NextBlock, TypeOK
  <2>4. TypeOK'
    BY <2>1, <2>2, <2>3 DEF TypeOK, N, Block
  <2>5. N' = N /\ j = N - numblocks + i
    BY <2>1 DEF Counters, N
  <2>6. i' <= numblocks' /\ j' = N' - numblocks' + i'
    BY <1>0, <2>1, <2>5 DEF TypeOK
  <2>7. Len(blocks') = IF i' < numblocks' THEN i' + 1 ELSE numblocks'
    BY <2>1, <2>3 DEF TypeOK
  <2> QED BY <1>0, <2>1, <2>4, <2>5, <2>6, <2>7 DEF Counters
<1>13. ASSUME Flow PROVE TypeOK' /\ Counters'
  <2>1. /\ phase' = "done" /\ exits' = [b \in 1 .. numblocks |-> ExitsOf(b - 1)]
        /\ UNCHANGED <<body, gap, i, j, k, pc, blocks, got_done, bc_to_bb, numblocks, leaders, marks>>
    BY <1>13 DEF Flow
  <2>2. Len(blocks) = numblocks
    BY <1>13 DEF Flow, Counters, TypeOK
  <2>3. ASSUME NEW b \in 1 .. numblocks PROVE ExitsOf(b - 1) \in Seq(Block)
    <3> DEFINE quads == blocks[b]
               next == IF b < numblocks THEN <<b>> ELSE <<>>
    <3>1. quads \in Seq([at : Nat, op : Supported, dest : Block])
      BY <2>2 DEF TypeOK
    <3>2. next \in Seq(Block)
      <4>1. b < numblocks => b \in Block
        BY DEF Block, TypeOK
      <4> QED BY <4>1
    <3>3. ASSUME quads # <<>> PROVE quads[Len(quads)].dest \in Block
      <4> HIDE DEF quads
      <4>1. Len(quads) \in 1 .. Len(quads)
        BY <3>1, <3>3
      <4> DEFINE Quad == [at : Nat, op : Supported, dest : Block]
      <4>2. quads[Len(quads)] \in Quad
        <5> HIDE DEF Quad
        <5>1. quads \in Seq(Quad)
          BY <3>1 DEF Quad
        <5> QED BY <4>1, <5>1
      <4> QED BY <4>2
    <3>4. b - 1 + 1 = b
      OBVIOUS
    <3>5. ExitsOf(b - 1) = IF quads # <<>> /\ quads[Len(quads)].op \in Jumps
                             THEN Append(next, quads[Len(quads)].dest) ELSE next
      BY <3>4 DEF ExitsOf
    <3> HIDE DEF quads, next
    <3>6. \A s \in Seq(Block), x \in Block : Append(s, x) \in Seq(Block)
      OBVIOUS
    <3> QED BY <3>2, <3>3, <3>5, <3>6
  <2>4. exits' \in Seq(Seq(Block))
    <3>1. numblocks \in Nat
      BY DEF TypeOK
    <3> QED BY <2>1, <2>3, <3>1
  <2>5. TypeOK'
    BY <2>1, <2>4 DEF TypeOK, N, Block
  <2> QED BY <1>0, <2>1, <2>5 DEF Counters, N
<1> QED
  BY <1>1, <1>2, <1>3, <1>4, <1>5, <1>6, <1>7, <1>8, <1>9, <1>10, <1>11, <1>12, <1>13
  DEF Next

\* The variables of JitBlocks keep their types: no jump and no exit names a
\* block that does not exist.
THEOREM TypeCorrect == Spec => []TypeOK
<1>1. Init => TypeOK /\ Counters
  BY InitTypes
<1>2. (TypeOK /\ Counters) /\ [Next]_vars => (TypeOK /\ Counters)'
  BY NextTypes
<1> QED BY <1>1, <1>2, PTL DEF Spec

(* The list of leaders *****************************************************)

\* Marking keeps the marks and the length in step with marks.
LEMMA MarkKeeps ==
    ASSUME TypeOK, Counters, LengthEntry, Marked, NEW S \in SUBSET Int, Mark(S), body' = body
    PROVE  LengthEntry' /\ Marked'
<1>1. N \in Nat /\ N >= 1 /\ N' = N
  BY DEF TypeOK, Counters, N
<1>2. \A p \in 0 .. N : leaders'[p] = IF p \in S THEN 1 ELSE leaders[p]
  BY DEF Mark
<1>3. \A p : p \in marks' <=> p \in marks \/ p \in S
  BY DEF Mark
<1>4. LengthEntry'
  BY <1>1, <1>2, <1>3 DEF LengthEntry
<1>5. Marked'
  BY <1>1, <1>2, <1>3 DEF Marked
<1> QED BY <1>4, <1>5

\* The loop that compresses the marks starts with all marks and an empty list.
LEMMA ListStarts ==
    ASSUME TypeOK, Counters, Scans, ScanEnd
    PROVE  Listed' /\ Unlisted'
<1>1. /\ N \in Nat /\ N >= 1 /\ N' = N /\ i' = N - 1 /\ j' = N - 1
      /\ leaders' = leaders /\ marks' = marks
  BY DEF TypeOK, Counters, N, ScanEnd, scanVars
<1>2. Marked
  BY DEF Scans, ScanEnd
<1>3. Listed'
  BY <1>1 DEF Listed
<1>4. \A p \in 0 .. N - 1 : leaders'[p] # 0 <=> p \in marks'
  BY <1>1, <1>2 DEF Marked
<1>5. 0 \in 0 .. N - 1 /\ \A p \in 1 .. i' : p \in 0 .. N - 1
  BY <1>1
<1>6. \A p \in i' + 1 .. j' : FALSE
  BY <1>1
<1> QED BY <1>3, <1>4, <1>5, <1>6 DEF Unlisted

\* A round of that loop: the list takes the mark at i, if there is one, and no
\* mark is lost, because the list never grows past the marks still to be read.
LEMMA ListGrows ==
    ASSUME TypeOK, Counters, Scans, Compress
    PROVE  Listed' /\ Unlisted' /\ LengthEntry'
<1>1. /\ N \in Nat /\ N >= 1 /\ N' = N /\ i' = i - 1 /\ marks' = marks
      /\ i \in 1 .. j /\ j \in 1 .. N - 1
  BY DEF TypeOK, Counters, N, Compress
<1>2. Listed /\ Unlisted /\ LengthEntry
  BY DEF Scans, Compress
<1>3. CASE leaders[i] # 0
  <2>1. j' = j - 1 /\ \A p \in 0 .. N : leaders'[p] = IF p = j THEN i ELSE IF p = i THEN 0 ELSE leaders[p]
    BY <1>3 DEF Compress, Moved
  <2>2. i \in marks
    BY <1>1, <1>2, <1>3 DEF Unlisted
  <2>3. \A p \in j + 1 .. N - 1 : leaders'[p] = leaders[p]
    BY <1>1, <2>1
  <2>4. leaders'[j] = i
    BY <1>1, <2>1
  <2>5. \A p \in j .. N - 1 : p = j \/ p \in j + 1 .. N - 1
    BY <1>1
  <2>6. \A p \in j + 1 .. N - 1 : leaders[p] \in marks /\ i < leaders[p] /\ leaders[p] <= p /\ leaders[p] \in Nat
    <3>1. \A p \in j + 1 .. N - 1 : p \in 0 .. N
      BY <1>1
    <3>2. \A p \in j + 1 .. N - 1 : leaders[p] \in Nat
      BY <3>1, <1>1 DEF TypeOK
    <3>3. \A p \in j + 1 .. N - 1 : leaders[p] \in marks /\ i < leaders[p] /\ leaders[p] <= p
      BY <1>2 DEF Listed
    <3> QED BY <3>2, <3>3
  <2>7. \A p \in j' + 1 .. N - 1 : leaders'[p] \in marks /\ i' < leaders'[p] /\ leaders'[p] <= p
    BY <1>1, <2>1, <2>2, <2>3, <2>4, <2>5, <2>6
  <2>8. \A p, q \in j' + 1 .. N - 1 : p < q => leaders'[p] < leaders'[q]
    <3>1. \A p, q \in j + 1 .. N - 1 : p < q => leaders[p] < leaders[q]
      BY <1>2 DEF Listed
    <3>2. ASSUME NEW p \in j .. N - 1, NEW q \in j .. N - 1, p < q PROVE leaders'[p] < leaders'[q]
      <4>1. q \in j + 1 .. N - 1
        BY <1>1, <3>2
      <4>2. CASE p = j
        BY <2>3, <2>4, <2>6, <4>1, <4>2
      <4>3. CASE p \in j + 1 .. N - 1
        BY <2>3, <3>1, <3>2, <4>1, <4>3
      <4> QED BY <2>5, <4>2, <4>3
    <3> QED BY <1>1, <2>1, <3>2
  <2>9. ASSUME NEW m \in i' + 1 .. N - 1, m \in marks PROVE \E p \in j' + 1 .. N - 1 : leaders'[p] = m
    <3>1. CASE m = i
      BY <1>1, <2>1, <2>4, <3>1
    <3>2. CASE m # i
      <4>1. m \in i + 1 .. N - 1
        BY <1>1, <3>2
      <4>2. PICK p \in j + 1 .. N - 1 : leaders[p] = m
        BY <1>2, <2>9, <4>1 DEF Listed
      <4>3. p \in j' + 1 .. N - 1 /\ leaders'[p] = m
        BY <1>1, <2>1, <2>3, <4>2
      <4> QED BY <4>3
    <3> QED BY <3>1, <3>2
  <2>10. Listed'
    BY <1>1, <2>7, <2>8, <2>9 DEF Listed
  <2>11. \A p \in 1 .. i' : leaders'[p] # 0 <=> p \in marks
    <3>1. \A p \in 1 .. i' : p \in 1 .. i /\ p \in 0 .. N /\ p # i /\ p # j
      BY <1>1
    <3> QED BY <1>2, <2>1, <3>1 DEF Unlisted
  <2>12. \A p \in i' + 1 .. j' : leaders'[p] = 0
    <3>1. \A p \in i' + 1 .. j' : p \in 0 .. N /\ p # j /\ (p = i \/ p \in i + 1 .. j) /\ p # 0
      BY <1>1, <2>1
    <3> QED BY <1>2, <2>1, <3>1 DEF Unlisted
  <2>13. leaders'[0] # 0 => 0 \in marks
    BY <1>1, <1>2, <2>1 DEF Unlisted
  <2>14. LengthEntry'
    BY <1>1, <1>2, <2>1 DEF LengthEntry
  <2> QED BY <1>1, <2>10, <2>11, <2>12, <2>13, <2>14 DEF Unlisted
<1>4. CASE leaders[i] = 0
  <2>1. leaders' = leaders /\ j' = j
    BY <1>4 DEF Compress
  <2>2. i \notin marks
    BY <1>1, <1>2, <1>4 DEF Unlisted
  <2>3. \A p \in j + 1 .. N - 1 : leaders[p] \in marks /\ i - 1 < leaders[p] /\ leaders[p] <= p
    <3>1. \A p \in j + 1 .. N - 1 : p \in 0 .. N
      BY <1>1
    <3>2. \A p \in j + 1 .. N - 1 : leaders[p] \in Nat
      BY <3>1, <1>1 DEF TypeOK
    <3>3. \A p \in j + 1 .. N - 1 : leaders[p] \in marks /\ i < leaders[p] /\ leaders[p] <= p
      BY <1>2 DEF Listed
    <3> QED BY <1>1, <3>2, <3>3
  <2>4. ASSUME NEW m \in i .. N - 1, m \in marks PROVE \E p \in j + 1 .. N - 1 : leaders[p] = m
    <3>1. m \in i + 1 .. N - 1
      BY <1>1, <2>2, <2>4
    <3> QED BY <1>2, <2>4, <3>1 DEF Listed
  <2>5. \A m \in i' + 1 .. N - 1 : m \in i .. N - 1
    BY <1>1
  <2>6. Listed'
    BY <1>1, <1>2, <2>1, <2>3, <2>4, <2>5 DEF Listed
  <2>7. \A p \in i' + 1 .. j : p # 0 => leaders[p] = 0
    <3>1. \A p \in i' + 1 .. j : p = i \/ p \in i + 1 .. j
      BY <1>1
    <3> QED BY <1>2, <1>4, <3>1 DEF Unlisted
  <2>8. \A p \in 1 .. i' : p \in 1 .. i
    BY <1>1
  <2>9. Unlisted'
    BY <1>1, <1>2, <2>1, <2>7, <2>8 DEF Unlisted
  <2>10. LengthEntry'
    BY <1>1, <1>2, <2>1 DEF LengthEntry
  <2> QED BY <2>6, <2>9, <2>10
<1> QED BY <1>3, <1>4

\* When it ends the list is complete, block 0 included.
LEMMA ListEnds ==
    ASSUME TypeOK, Counters, Scans, CompressEnd, 0 \notin marks \/ j > 0
    PROVE  leaders[j] = 0 /\ Lists(j) /\ \A p \in j .. N - 1 : leaders[p] <= p
<1>1. N \in Nat /\ N >= 1 /\ i = 0 /\ j \in 0 .. N - 1
  BY DEF TypeOK, Counters, N, CompressEnd
<1>2. Listed /\ Unlisted
  BY DEF Scans, CompressEnd
<1>3. leaders[j] = 0
  BY <1>1, <1>2 DEF Unlisted
<1>4. \A p \in j .. N - 1 : p = j \/ p \in j + 1 .. N - 1
  BY <1>1
<1>5. \A p \in j + 1 .. N - 1 : leaders[p] \in marks /\ 0 < leaders[p] /\ leaders[p] <= p /\ leaders[p] \in 1 .. N - 1
  <2>1. \A p \in j + 1 .. N - 1 : leaders[p] \in marks /\ 0 < leaders[p] /\ leaders[p] <= p
    BY <1>1, <1>2 DEF Listed
  <2>2. \A p \in j + 1 .. N - 1 : p \in 0 .. N
    BY <1>1
  <2>3. \A p \in j + 1 .. N - 1 : leaders[p] \in 0 .. N
    BY <2>2 DEF TypeOK
  <2> QED BY <1>1, <2>1, <2>3
<1>6. ASSUME NEW p \in j .. N - 1, NEW q \in j .. N - 1, p < q PROVE leaders[p] < leaders[q]
  <2>1. q \in j + 1 .. N - 1
    BY <1>1, <1>6
  <2> QED BY <1>2, <1>3, <1>4, <1>5, <1>6, <2>1 DEF Listed
<1>7. \A p \in j .. N - 1 : leaders[p] \in Leaders
  BY <1>3, <1>4, <1>5 DEF Leaders
<1>8. ASSUME NEW m \in Leaders PROVE \E p \in j .. N - 1 : leaders[p] = m
  <2>1. CASE m = 0
    BY <1>1, <1>3, <2>1
  <2>2. CASE m \in marks /\ m \in 1 .. N - 1
    <3>1. PICK p \in j + 1 .. N - 1 : leaders[p] = m
      BY <1>1, <1>2, <2>2 DEF Listed
    <3> QED BY <1>1, <3>1
  <2> QED BY <2>1, <2>2 DEF Leaders
<1>9. {leaders[p] : p \in j .. N - 1} = Leaders
  BY <1>7, <1>8
<1> QED BY <1>1, <1>3, <1>4, <1>5, <1>6, <1>9 DEF Lists

LEMMA NextScans ==
    ASSUME TypeOK, Counters, Scans, Partition, [Next]_vars
    PROVE  Scans' /\ Partition'
<1> USE DEF scanVars, buildVars
<1>0. N \in Nat /\ N >= 1
  BY DEF TypeOK, Counters, N
<1>1. CASE UNCHANGED vars
  BY <1>1 DEF vars, Scans, LengthEntry, Marked, Listed, Unlisted, Partition, Lists, Leaders, N
<1>2. CASE ScanJump1 \/ ScanJumpTrue4
  <2>1. /\ phase = "scan" /\ phase' = "scan" /\ body' = body /\ bc_to_bb' = bc_to_bb
        /\ LengthEntry /\ Marked
    BY <1>2 DEF ScanJump1, ScanJumpTrue4, Scans
  <2>2. \E S \in SUBSET Int : Mark(S)
    <3>1. \A t \in After : At(i + 1, t) \in Int /\ Int4At(i + 1, t) \in Int
      <4>1. body \in Seq(Byte) /\ i + 1 \in Nat /\ \A t \in After : t \in Byte
        BY BlocksAssumption DEF TypeOK
      <4>2. \A t \in After : At(i + 1, t) \in 0 .. 255
        BY <4>1, ReadsBytes
      <4>3. \A t \in After : Int4At(i + 1, t) \in Int
        BY <4>1, ReadsInts
      <4> QED BY <4>2, <4>3
    <3>2. CASE ScanJump1
      <4>1. PICK t \in After : Mark({i + At(i + 1, t), i + 2})
        BY <3>2 DEF ScanJump1
      <4> QED BY <3>1, <4>1 DEF TypeOK
    <3>3. CASE ScanJumpTrue4
      <4>1. PICK t \in After : Mark({i + Int4At(i + 1, t), i + 5})
        BY <3>3 DEF ScanJumpTrue4
      <4> QED BY <3>1, <4>1 DEF TypeOK
    <3> QED BY <1>2, <3>2, <3>3
  <2>3. LengthEntry' /\ Marked'
    BY <2>1, <2>2, MarkKeeps
  <2>4. bc_to_bb' = [p \in 0 .. N' |-> UNSET]
    BY <2>1 DEF Scans, N
  <2> QED BY <2>1, <2>3, <2>4 DEF Scans, Partition
<1>3. CASE ScanOther
  BY <1>3 DEF ScanOther, Scans, LengthEntry, Marked, Partition, N
<1>4. CASE ScanEnd
  <2>1. Listed' /\ Unlisted'
    BY <1>4, ListStarts
  <2>2. phase' = "compress" /\ LengthEntry' /\ bc_to_bb' = [p \in 0 .. N' |-> UNSET]
    BY <1>4 DEF ScanEnd, Scans, LengthEntry, N
  <2> QED BY <2>1, <2>2 DEF Scans, Partition
<1>5. CASE Compress
  <2>1. Listed' /\ Unlisted' /\ LengthEntry'
    BY <1>5, ListGrows
  <2>2. phase' = "compress" /\ bc_to_bb' = [p \in 0 .. N' |-> UNSET]
    BY <1>5 DEF Compress, Scans, N
  <2> QED BY <2>1, <2>2 DEF Scans, Partition
<1>6. CASE CompressEnd
  <2>1. phase' = "map" /\ LengthEntry' /\ bc_to_bb' = [p \in 0 .. N' |-> UNSET]
    BY <1>6 DEF CompressEnd, Scans, LengthEntry, N
  <2>2. ASSUME 0 \notin marks \/ j > 0 PROVE Lists(j)'
    BY <1>6, <2>2, ListEnds DEF CompressEnd, Lists, Leaders, N
  <2>3. marks' = marks /\ j' = j
    BY <1>6 DEF CompressEnd
  <2> QED BY <2>1, <2>2, <2>3 DEF Scans, Partition
<1>7. CASE MapBlock
  <2>1. phase' = "map" /\ i' # 0 /\ phase = "map" /\ N' = N
    BY <1>7 DEF MapBlock, TypeOK, N
  <2>2. leaders'[N] = leaders[N]
    <3>1. j \in 0 .. N - 1 /\ j + 1 \in 0 .. N
      BY <1>0, <1>7 DEF MapBlock, Counters, TypeOK
    <3>2. leaders[j] \in 0 .. N /\ leaders[j + 1] \in 0 .. N /\ gap \in Nat
      BY <1>0, <3>1 DEF TypeOK
    <3>3. N + 1 + gap + N \notin MapRange
      BY <1>0, <3>2 DEF MapRange
    <3> QED BY <1>0, <1>7, <3>3 DEF MapBlock
  <2>3. LengthEntry'
    BY <1>7, <2>1, <2>2 DEF Scans, LengthEntry, MapBlock
  <2> QED BY <2>1, <2>3 DEF Scans, Partition
<1>8. CASE MapEnd
  BY <1>8 DEF MapEnd, Scans, Partition
<1>9. CASE BuildQuad \/ Unsupported \/ NextBlock \/ Flow
  BY <1>9 DEF BuildQuad, Unsupported, NextBlock, Flow, Scans, Partition
<1> QED BY <1>1, <1>2, <1>3, <1>4, <1>5, <1>6, <1>7, <1>8, <1>9 DEF Next

\* Compressing the marks in place loses none and keeps them sorted, in every body:
\* the list of block starts is exact before the map is made.
THEOREM ListExact == Spec => []Partition
<1>1. Init => TypeOK /\ Counters /\ Scans /\ Partition
  BY InitTypes DEF Init, Partition
<1>2. TypeOK /\ Counters /\ Scans /\ Partition /\ [Next]_vars
        => (TypeOK /\ Counters /\ Scans /\ Partition)'
  BY NextTypes, NextScans
<1> QED BY <1>1, <1>2, PTL DEF Spec

(* The map of positions ****************************************************)

\* What a list is made of.
LEMMA ListType ==
    ASSUME TypeOK, NEW L, IsList(L)
    PROVE  /\ numblocks \in Nat /\ numblocks >= 1 /\ \A a \in 0 .. numblocks : L[a] \in Nat
           /\ \A a, c \in 0 .. numblocks : a < c => L[a] < L[c]
           /\ L[0] = 0 /\ L[numblocks] = N
<1>1. N \in Nat /\ numblocks \in Nat /\ numblocks >= 1
  BY DEF TypeOK, N
<1>2. L \in [0 .. numblocks -> 0 .. N]
  BY DEF IsList
<1>3. \A a \in 0 .. numblocks : L[a] \in Nat
  BY <1>1, <1>2
<1>4. \A a, c \in 0 .. numblocks : a < c => L[a] < L[c]
  BY DEF IsList
<1>5. L[0] = 0 /\ L[numblocks] = N
  BY DEF IsList
<1> QED BY <1>1, <1>3, <1>4, <1>5

\* The leaders of a list up to its b-th are b, not counting block 0.
LEMMA ListCounts ==
    ASSUME TypeOK, Counters, NEW L, IsList(L), NEW b \in 0 .. numblocks - 1,
           NEW p \in Int, L[b] <= p, p < L[b + 1]
    PROVE  BlockOf(p) = b
<1> DEFINE S == {q \in Leaders : 0 < q /\ q <= p}
           f == [a \in 1 .. b |-> L[a]]
<1>1. /\ numblocks \in Nat /\ \A a \in 0 .. numblocks : L[a] \in Nat
      /\ \A a, c \in 0 .. numblocks : a < c => L[a] < L[c]
      /\ L[0] = 0
  BY ListType
<1>2. ASSUME NEW a \in 1 .. b PROVE L[a] \in S
  <2>1. a \in 0 .. numblocks - 1 /\ a \in 0 .. numblocks /\ 0 \in 0 .. numblocks /\ 0 < a
    BY <1>1
  <2>2. L[a] \in Leaders
    BY <2>1 DEF IsList
  <2>3. L[0] < L[a]
    BY <1>1, <2>1
  <2>4. a = b \/ L[a] < L[b]
    BY <1>1, <2>1
  <2>5. L[a] <= p
    BY <1>1, <2>1, <2>4
  <2> QED BY <1>1, <2>2, <2>3, <2>5
<1>3. ASSUME NEW q \in S PROVE \E a \in 1 .. b : L[a] = q
  <2>1. PICK a \in 0 .. numblocks - 1 : L[a] = q
    BY DEF IsList
  <2>2. 0 < L[a] /\ L[a] <= p
    BY <2>1
  <2>3. a # 0
    BY <1>1, <2>2
  <2>4. ~(b < a)
    <3>1. ASSUME b < a PROVE FALSE
      <4>1. b + 1 = a \/ L[b + 1] < L[a]
        BY <1>1, <3>1
      <4>2. L[b + 1] <= L[a] /\ L[a] \in Nat /\ L[b + 1] \in Nat
        BY <1>1, <4>1
      <4> QED BY <2>2, <4>2
    <3> QED BY <3>1
  <2> QED BY <2>1, <2>3, <2>4
<1>4. f \in Bijection(1 .. b, S)
  <2>1. f \in [1 .. b -> S]
    BY <1>2
  <2>2. ASSUME NEW a \in 1 .. b, NEW c \in 1 .. b, f[a] = f[c] PROVE a = c
    <3>1. a \in 0 .. numblocks /\ c \in 0 .. numblocks /\ L[a] = L[c]
      BY <2>2, <1>1
    <3>2. ~(a < c) /\ ~(c < a)
      BY <1>1, <3>1
    <3> QED BY <3>2
  <2>3. \A q \in S : \E a \in 1 .. b : f[a] = q
    BY <1>3
  <2> HIDE DEF f, S
  <2> QED BY <2>1, <2>2, <2>3 DEF Bijection, Injection, Surjection, IsInjective
<1>5. IsFiniteSet(1 .. b) /\ Cardinality(1 .. b) = b
  BY FS_Interval
<1>6. Cardinality(S) = b
  <2> HIDE DEF f, S
  <2>1. ExistsBijection(1 .. b, S)
    BY <1>4 DEF ExistsBijection
  <2> QED BY <1>5, <2>1, FS_Bijection
<1> QED BY <1>6 DEF BlockOf

\* The second entry is where the first block ends.
LEMMA FirstEnds ==
    ASSUME TypeOK, Counters, NEW L, IsList(L)
    PROVE  NextLeader(0) = L[1]
<1>1. /\ numblocks \in Nat /\ numblocks >= 1 /\ \A a \in 0 .. numblocks : L[a] \in Nat
      /\ \A a, c \in 0 .. numblocks : a < c => L[a] < L[c]
      /\ L[0] = 0 /\ L[numblocks] = N
  BY ListType
<1>2. ASSUME NEW q \in Later(0) PROVE \E a \in 1 .. numblocks - 1 : L[a] = q
  <2>1. PICK a \in 0 .. numblocks - 1 : L[a] = q
    BY <1>2 DEF IsList, Later
  <2>2. a # 0
    BY <1>1, <1>2, <2>1 DEF Later
  <2> QED BY <2>1, <2>2
<1>3. CASE numblocks = 1
  <2>1. Later(0) = {}
    BY <1>2, <1>3
  <2> QED BY <1>1, <1>3, <2>1 DEF NextLeader, IsLast
<1>4. CASE numblocks > 1
  <2>1. L[1] \in Later(0)
    <3>1. 1 \in 0 .. numblocks - 1 /\ 0 < L[1]
      BY <1>1, <1>4
    <3>2. L[1] \in Leaders
      BY <3>1 DEF IsList
    <3> QED BY <3>1, <3>2 DEF Later
  <2>2. ASSUME NEW r \in Later(0) PROVE L[1] <= r /\ r \in Nat
    <3>1. PICK a \in 1 .. numblocks - 1 : L[a] = r
      BY <1>2
    <3>2. a = 1 \/ L[1] < L[a]
      BY <1>1, <3>1
    <3> QED BY <1>1, <3>1, <3>2
  <2>3. \A q \in Later(0) : (\A r \in Later(0) : q <= r) => q = L[1]
    BY <2>1, <2>2
  <2>4. NextLeader(0) = CHOOSE q \in Later(0) : \A r \in Later(0) : q <= r
    BY <2>1 DEF NextLeader, IsLast
  <2> QED BY <2>1, <2>2, <2>3, <2>4
<1> QED BY <1>1, <1>3, <1>4

\* The compressed leaders are such a list.
LEMMA MapStarts ==
    ASSUME TypeOK, Counters, Scans, CompressEnd, Bounded
    PROVE  (\E L : IsList(L) /\ Mapped(L))'
<1>0. PICK L : L = [a \in 0 .. numblocks |-> leaders[N - numblocks + a]]
  OBVIOUS
<1>1. /\ N \in Nat /\ N >= 1 /\ numblocks \in 1 .. N /\ j = N - numblocks
      /\ N' = N /\ i' = 0 /\ numblocks' = numblocks /\ leaders' = leaders /\ marks' = marks
  BY DEF TypeOK, Counters, N, CompressEnd, scanVars
<1>2. leaders[N] = N
  BY DEF Scans, CompressEnd, LengthEntry, Bounded
<1>3. leaders[j] = 0 /\ Lists(j) /\ \A p \in j .. N - 1 : leaders[p] <= p
  BY <1>1, ListEnds DEF Bounded
<1>4. \A p \in j .. N : leaders[p] \in 0 .. N
  BY <1>1 DEF TypeOK
<1>5. \A a \in 0 .. numblocks : L[a] = leaders[j + a] /\ j + a \in j .. N
  BY <1>0, <1>1
<1>6. L \in [0 .. numblocks -> 0 .. N]
  <2>1. \A a \in 0 .. numblocks : N - numblocks + a \in j .. N
    BY <1>1
  <2> QED BY <1>0, <1>4, <2>1
<1>7. L[0] = 0 /\ L[numblocks] = N
  BY <1>1, <1>2, <1>3, <1>5
<1>8. ASSUME NEW a \in 0 .. numblocks, NEW b \in 0 .. numblocks, a < b PROVE L[a] < L[b]
  <2>1. j + a \in j .. N - 1 /\ j + a < j + b
    BY <1>1, <1>8
  <2>2. CASE b = numblocks
    <3>1. leaders[j + a] <= j + a /\ leaders[j + a] \in 0 .. N
      BY <1>3, <1>4, <1>5, <2>1
    <3> QED BY <1>1, <1>5, <1>7, <2>1, <2>2, <3>1
  <2>3. CASE b # numblocks
    <3>1. j + b \in j .. N - 1
      BY <1>1, <2>3
    <3> QED BY <1>3, <1>5, <2>1, <3>1 DEF Lists
  <2> QED BY <2>2, <2>3
<1>9. \A a \in 0 .. numblocks : L[a] <= N - numblocks + a
  <2>1. \A p \in j .. N : p = N \/ p \in j .. N - 1
    BY <1>1
  <2>2. \A p \in j .. N : leaders[p] <= p
    BY <1>1, <1>2, <1>3, <2>1
  <2> QED BY <1>1, <1>5, <2>2
<1>10. {L[a] : a \in 0 .. numblocks - 1} = Leaders
  <2>1. \A a \in 0 .. numblocks - 1 : j + a \in j .. N - 1 /\ L[a] = leaders[j + a]
    BY <1>1, <1>5
  <2>2. \A p \in j .. N - 1 : p - j \in 0 .. numblocks - 1 /\ p = j + (p - j)
    BY <1>1
  <2>3. {L[a] : a \in 0 .. numblocks - 1} = {leaders[p] : p \in j .. N - 1}
    BY <2>1, <2>2
  <2> QED BY <1>3, <2>3 DEF Lists
<1>11. IsList(L)'
  <2>1. Leaders' = Leaders
    BY <1>1 DEF Leaders
  <2>2. IsList(L)
    BY <1>6, <1>7, <1>8, <1>9, <1>10 DEF IsList
  <2> QED BY <1>1, <2>1, <2>2 DEF IsList
<1>12. Mapped(L)'
  BY <1>1, <1>5, <1>7 DEF Mapped
<1> QED BY <1>11, <1>12

\* Each block is mapped, and nothing of the list is lost that is still to be read.
LEMMA MapContinues ==
    ASSUME TypeOK, Counters, MapBlock, Scans, NEW L, IsList(L), Mapped(L)
    PROVE  (IsList(L) /\ Mapped(L))'
<1> DEFINE F == N - numblocks
<1>1. /\ N \in Nat /\ N >= 1 /\ numblocks \in 1 .. N /\ i \in 0 .. numblocks - 1
      /\ j = F + i /\ gap \in Nat
      /\ N' = N /\ i' = i + 1 /\ numblocks' = numblocks /\ marks' = marks
  BY DEF TypeOK, Counters, N, MapBlock
<1>2. \A a \in 0 .. numblocks : L[a] \in Nat /\ L[a] <= F + a
  BY DEF IsList
<1>3. i \in 0 .. numblocks /\ i + 1 \in 0 .. numblocks
  BY <1>1
<1>4. leaders[j] = L[i] /\ leaders[j + 1] = L[i + 1]
  <2>1. i \in i .. numblocks /\ i + 1 \in i .. numblocks /\ j + 1 = F + (i + 1)
    BY <1>1
  <2> QED BY <1>1, <2>1 DEF Mapped
<1>5. MapRange = L[i] .. L[i] + L[i + 1] - 2
  BY <1>4 DEF MapRange
<1>6. L[i] <= F + i /\ L[i + 1] <= F + i + 1 /\ F + i + 1 <= N /\ L[i] \in Nat /\ L[i + 1] \in Nat
  <2>1. F + (i + 1) = F + i + 1
    BY <1>1
  <2> QED BY <1>1, <1>2, <1>3, <2>1
<1>7. ASSUME NEW a \in i' .. numblocks PROVE leaders'[F + a] = L[a]
  <2>1. F + a \in 0 .. N /\ a \in i .. numblocks /\ a >= i + 1
    BY <1>1
  <2>2. N + 1 + gap + (F + a) \notin MapRange
    BY <1>1, <1>5, <1>6, <2>1
  <2>3. leaders'[F + a] = leaders[F + a]
    BY <2>1, <2>2 DEF MapBlock
  <2> QED BY <2>1, <2>3 DEF Mapped
<1>8. \A p \in 0 .. N : bc_to_bb'[p] = IF p \in MapRange THEN i ELSE bc_to_bb[p]
  BY DEF MapBlock, Filled
<1>9. ASSUME NEW p \in 0 .. N, p < L[i + 1]
      PROVE  \E b \in 0 .. i : /\ L[b] <= p /\ p < L[b + 1]
                               /\ bc_to_bb'[p] = IF p = L[1] - 1 THEN UNSET ELSE b
  <2>1. CASE p < L[i]
    <3>1. PICK b \in 0 .. i - 1 : L[b] <= p /\ p < L[b + 1] /\ bc_to_bb[p] = IF p = L[1] - 1 THEN UNSET ELSE b
      BY <2>1 DEF Mapped
    <3>2. p \notin MapRange
      BY <1>5, <1>6, <2>1
    <3> QED BY <1>1, <1>8, <3>1, <3>2
  <2>2. CASE L[i] <= p /\ i = 0
    <3>1. L[0] = 0 /\ L[i + 1] = L[1]
      BY <2>2 DEF IsList
    <3>2. p \in MapRange <=> p # L[1] - 1
      BY <1>5, <1>6, <1>9, <2>2, <3>1
    <3>3. bc_to_bb[p] = UNSET
      BY <2>2 DEF Scans, MapBlock
    <3>4. bc_to_bb'[p] = IF p = L[1] - 1 THEN UNSET ELSE 0
      BY <1>8, <2>2, <3>2, <3>3
    <3>5. 0 \in 0 .. i /\ L[0] <= p /\ p < L[0 + 1]
      BY <1>9, <2>2, <3>1
    <3> QED BY <3>4, <3>5
  <2>3. CASE L[i] <= p /\ i # 0
    <3>1. 0 < L[i] /\ L[1] <= L[i] /\ L[1] \in Nat
      <4>1. 0 < i /\ 1 \in 0 .. numblocks /\ 0 \in 0 .. numblocks /\ L[0] = 0
        BY <1>1, <2>3 DEF IsList
      <4>2. L[0] < L[i]
        BY <1>3, <4>1 DEF IsList
      <4>3. i = 1 \/ L[1] < L[i]
        BY <1>1, <1>3, <4>1 DEF IsList
      <4> QED BY <1>2, <1>6, <4>1, <4>2, <4>3
    <3>2. p \in MapRange /\ p # L[1] - 1
      BY <1>5, <1>6, <1>9, <2>3, <3>1
    <3>3. i \in 0 .. i
      BY <1>1
    <3> QED BY <1>8, <1>9, <2>3, <3>2, <3>3
  <2> QED BY <1>6, <2>1, <2>2, <2>3
<1>10. Mapped(L)'
  <2>1. i' - 1 = i /\ N' - numblocks' = F
    BY <1>1
  <2>2. \A a \in i' .. numblocks' : leaders'[N' - numblocks' + a] = L[a]
    BY <1>1, <1>7, <2>1
  <2>3. \A p \in 0 .. N' : p < L[i'] =>
          \E b \in 0 .. i' - 1 :
            L[b] <= p /\ p < L[b + 1] /\ bc_to_bb'[p] = IF p = L[1] - 1 THEN UNSET ELSE b
    BY <1>1, <1>9, <2>1
  <2> HIDE DEF F
  <2> QED BY <2>2, <2>3 DEF Mapped
<1>11. IsList(L)'
  BY <1>1 DEF IsList, Leaders
<1> QED BY <1>10, <1>11

\* When all blocks are mapped the map is exact.
LEMMA MapEnds ==
    ASSUME TypeOK, Counters, MapEnd, NEW L, IsList(L), Mapped(L)
    PROVE  MapExact'
<1>1. /\ N \in Nat /\ numblocks \in 1 .. N /\ i = numblocks /\ N' = N
      /\ bc_to_bb' = bc_to_bb /\ marks' = marks
  BY DEF TypeOK, Counters, N, MapEnd, scanVars
<1>2. L[i] = N
  BY <1>1 DEF IsList
<1>3. NextLeader(0) = L[1]
  BY FirstEnds
<1>4. ASSUME NEW p \in 0 .. N - 1
      PROVE  bc_to_bb[p] = IF p = NextLeader(0) - 1 THEN UNSET ELSE BlockOf(p)
  <2>1. p \in 0 .. N /\ p < L[i]
    BY <1>1, <1>2
  <2>2. PICK b \in 0 .. i - 1 : L[b] <= p /\ p < L[b + 1] /\ bc_to_bb[p] = IF p = L[1] - 1 THEN UNSET ELSE b
    BY <2>1 DEF Mapped
  <2>3. BlockOf(p) = b
    BY <1>1, <2>2, ListCounts
  <2> QED BY <1>3, <2>2, <2>3
<1>5. /\ NextLeader(0)' = NextLeader(0)
      /\ \A p \in 0 .. N - 1 : BlockOf(p)' = BlockOf(p)
  BY <1>1 DEF NextLeader, IsLast, Later, BlockOf, Leaders
<1> QED BY <1>1, <1>4, <1>5 DEF MapExact

LEMMA NextMaps ==
    ASSUME TypeOK, Counters, Scans, Maps, MapExact, [Next]_vars
    PROVE  Maps' /\ MapExact'
<1> USE DEF scanVars, buildVars
<1>1. CASE UNCHANGED vars
  <2>1. \A L : (IsList(L) <=> IsList(L)') /\ (Mapped(L) <=> Mapped(L)')
    BY <1>1 DEF vars, IsList, Mapped, Leaders, N
  <2>2. /\ NextLeader(0)' = NextLeader(0) /\ N' = N
        /\ \A p \in 0 .. N - 1 : BlockOf(p)' = BlockOf(p)
    BY <1>1 DEF vars, NextLeader, IsLast, Later, BlockOf, Leaders, N
  <2> QED BY <1>1, <2>1, <2>2 DEF vars, Maps, MapExact, Bounded
<1>2. CASE ScanJump1 \/ ScanJumpTrue4 \/ ScanOther \/ ScanEnd \/ Compress
  <2>1. phase' \in {"scan", "compress"}
    BY <1>2 DEF ScanJump1, ScanJumpTrue4, ScanOther, ScanEnd, Compress
  <2> QED BY <2>1 DEF Maps, MapExact
<1>3. CASE CompressEnd
  <2>1. phase' = "map" /\ (Bounded' => Bounded)
    BY <1>3 DEF CompressEnd, Bounded, N
  <2> QED BY <1>3, <2>1, MapStarts DEF Maps, MapExact
<1>4. CASE MapBlock
  <2>1. phase = "map" /\ phase' = "map" /\ (Bounded' => Bounded)
    BY <1>4 DEF MapBlock, Bounded, N
  <2>2. ASSUME NEW L, IsList(L), Mapped(L) PROVE (IsList(L) /\ Mapped(L))'
    BY <1>4, <2>2, MapContinues
  <2> QED BY <2>1, <2>2 DEF Maps, MapExact
<1>5. CASE MapEnd
  <2>1. phase = "map" /\ phase' = "build" /\ (Bounded' => Bounded)
    BY <1>5 DEF MapEnd, Bounded, N
  <2>2. CASE Bounded
    <3>1. PICK L : IsList(L) /\ Mapped(L)
      BY <2>1, <2>2 DEF Maps
    <3> QED BY <1>5, <2>1, <3>1, MapEnds DEF Maps
  <2>3. CASE ~Bounded
    BY <2>1, <2>3 DEF Maps, MapExact
  <2> QED BY <2>2, <2>3
<1>6. CASE BuildQuad \/ Unsupported \/ NextBlock \/ Flow
  <2>1. /\ phase = "build" /\ phase' # "map" /\ N' = N
        /\ UNCHANGED <<numblocks, marks, bc_to_bb>>
    BY <1>6 DEF BuildQuad, Unsupported, NextBlock, Flow, N
  <2>2. /\ NextLeader(0)' = NextLeader(0)
        /\ \A p \in 0 .. N - 1 : BlockOf(p)' = BlockOf(p)
    BY <2>1 DEF NextLeader, IsLast, Later, BlockOf, Leaders
  <2> QED BY <2>1, <2>2 DEF Maps, MapExact, Bounded
<1> QED BY <1>1, <1>2, <1>3, <1>4, <1>5, <1>6 DEF Next

LEMMA Inductive == Init => IInv
BY InitTypes DEF IInv, Init, Partition, Maps, MapExact

\* Every position is mapped to the number of its block, the last byte of the first
\* block excepted, in every body and for every distance of the two arrays: what
\* the loop writes behind bc_to_bb never reaches an entry it still has to read.
THEOREM Mapping == Spec => []MapExact
<1>1. Init => IInv
  BY Inductive
<1>2. IInv /\ [Next]_vars => IInv'
  BY NextTypes, NextScans, NextMaps DEF IInv
<1>3. IInv => MapExact
  BY DEF IInv
<1> QED BY <1>1, <1>2, <1>3, PTL DEF Spec

(* Reading instruction by instruction **************************************)

\* A nonempty set of numbers has a least one.
LEMMA Smallest ==
    ASSUME NEW S \in SUBSET Nat, S # {}
    PROVE  \E n \in S : \A m \in S : n <= m
<1>1. IsWellFoundedOn(OpToRel(<, Nat), Nat)
  BY NatLessThanWellFounded
<1>2. PICK n \in S : \A m \in S : <<m, n>> \notin OpToRel(<, Nat)
  BY <1>1, WFMin
<1>3. \A m \in S : ~(m < n)
  BY <1>2 DEF OpToRel
<1> QED BY <1>3

\* Instructions have a length that moves on, and so does the reader.
Follows(p) == p + Length(body[p + 1])

\* The next instruction is behind.
LEMMA FollowsBehind ==
    ASSUME body \in Seq(Byte), NEW p \in Nat, p < N
    PROVE  body[p + 1] \in 0 .. 255 /\ Length(body[p + 1]) \in 1 .. 9 /\ Follows(p) \in Nat /\ p < Follows(p)
<1>1. At(p, 0) = body[p + 1] /\ At(p, 0) \in 0 .. 255
  <2>1. 0 \in Byte
    BY DEF Byte
  <2>2. At(p, 0) \in 0 .. 255
    BY <2>1, ReadsBytes
  <2> QED BY <2>2 DEF At
<1>2. Length(body[p + 1]) \in 1 .. 9
  <2>1. body[p + 1] \in 0 .. 255
    BY <1>1
  <2> QED BY <2>1, LengthType
<1>3. Follows(p) \in Nat /\ p < Follows(p)
  <2>1. PICK n \in 1 .. 9 : n = Length(body[p + 1])
    BY <1>2
  <2>2. Follows(p) = p + n
    BY <2>1 DEF Follows
  <2> QED BY <2>2
<1>4. body[p + 1] \in 0 .. 255
  BY <1>1
<1> QED BY <1>2, <1>3, <1>4

\* The positions in the body that every reader reaches who begins at p.
Closed(S) == \A q \in S : q < N => Follows(q) \in S
Reach(p) == {s \in 0 .. N - 1 : \A S \in SUBSET Nat : p \in S /\ Closed(S) => s \in S}

\* What is reached from p is p and what is reached from the next instruction.
LEMMA Reaching ==
    ASSUME body \in Seq(Byte), NEW p \in Nat
    PROVE  Reach(p) = IF p >= N THEN {} ELSE {p} \cup Reach(Follows(p))
<1>0. N \in Nat
  BY DEF N
<1>1. CASE p >= N
  <2>1. {p} \in SUBSET Nat /\ Closed({p})
    BY <1>0, <1>1 DEF Closed
  <2>2. ASSUME NEW s \in Reach(p) PROVE FALSE
    <3>1. s \in {p} /\ s \in 0 .. N - 1
      BY <2>1 DEF Reach
    <3> QED BY <1>0, <1>1, <3>1
  <2> QED BY <1>1, <2>2
<1>2. CASE p < N
  <2>1. Follows(p) \in Nat /\ p < Follows(p)
    BY <1>2, FollowsBehind
  <2>2. p \in Reach(p)
    BY <1>0, <1>2 DEF Reach
  <2>3. ASSUME NEW s \in Reach(Follows(p)) PROVE s \in Reach(p)
    <3>1. s \in 0 .. N - 1
      BY DEF Reach
    <3>2. ASSUME NEW S \in SUBSET Nat, p \in S, Closed(S) PROVE s \in S
      <4>1. Follows(p) \in S
        BY <1>2, <3>2 DEF Closed
      <4> QED BY <3>2, <4>1 DEF Reach
    <3> QED BY <3>1, <3>2 DEF Reach
  <2>4. ASSUME NEW s \in Reach(p), s # p PROVE s \in Reach(Follows(p))
    <3>1. s \in 0 .. N - 1
      BY DEF Reach
    <3>2. ASSUME NEW S \in SUBSET Nat, Follows(p) \in S, Closed(S) PROVE s \in S
      <4>1. S \cup {p} \in SUBSET Nat
        OBVIOUS
      <4>2. Closed(S \cup {p})
        BY <3>2 DEF Closed
      <4>3. s \in S \cup {p}
        BY <4>1, <4>2 DEF Reach
      <4> QED BY <2>4, <4>3
    <3> QED BY <3>1, <3>2 DEF Reach
  <2>5. Reach(p) = {p} \cup Reach(Follows(p))
    BY <2>2, <2>3, <2>4
  <2> QED BY <1>0, <1>2, <2>5
<1> QED BY <1>0, <1>1, <1>2

\* The function that Starts is defined with.
From == CHOOSE f : f = [p \in Nat |-> IF p >= N THEN {} ELSE {p} \cup f[p + Length(body[p + 1])]]

\* What the recursion computes from p is what is reached from p.
LEMMA FromReaches ==
    ASSUME body \in Seq(Byte), NEW p \in Nat
    PROVE  From[p] = Reach(p)
<1>0. N \in Nat
  BY DEF N
<1> DEFINE F(f) == [q \in Nat |-> IF q >= N THEN {} ELSE {q} \cup f[q + Length(body[q + 1])]]
           R == [q \in Nat |-> Reach(q)]
<1>1. R = F(R)
  <2>1. ASSUME NEW q \in Nat PROVE Reach(q) = IF q >= N THEN {} ELSE {q} \cup R[q + Length(body[q + 1])]
    <3>1. CASE q >= N
      BY <3>1, Reaching
    <3>2. CASE q < N
      <4>1. Reach(q) = {q} \cup Reach(Follows(q)) /\ Follows(q) \in Nat
        BY <1>0, <3>2, Reaching, FollowsBehind
      <4>2. R[q + Length(body[q + 1])] = Reach(Follows(q))
        BY <4>1 DEF Follows
      <4> QED BY <1>0, <3>2, <4>1, <4>2
    <3> QED BY <1>0, <3>1, <3>2
  <2> HIDE DEF R
  <2>2. R = [q \in Nat |-> Reach(q)]
    BY DEF R
  <2> QED BY <2>1, <2>2
<1>2. From = F(From)
  <2> HIDE DEF R
  <2>1. \E f : f = F(f)
    BY <1>1
  <2> QED BY <2>1 DEF From
<1>3. \A q \in Nat : From[q] = IF q >= N THEN {} ELSE {q} \cup From[Follows(q)]
  <2> HIDE DEF R
  <2>1. \A q \in Nat : F(From)[q] = IF q >= N THEN {} ELSE {q} \cup From[Follows(q)]
    BY DEF Follows
  <2> HIDE DEF F
  <2> QED BY <1>2, <2>1
<1> HIDE DEF F, R
<1> DEFINE W == {n \in Nat : \E q \in Nat : From[q] # Reach(q) /\ n = N - q}
<1>4. SUFFICES ASSUME From[p] # Reach(p) PROVE FALSE
  OBVIOUS
<1>5. ASSUME NEW q \in Nat, From[q] # Reach(q) PROVE q < N
  <2>1. CASE q >= N
    <3>1. From[q] = {}
      BY <1>3, <2>1
    <3>2. Reach(q) = {}
      BY <2>1, Reaching
    <3> QED BY <1>5, <3>1, <3>2
  <2> QED BY <1>0, <2>1
<1>6. W \in SUBSET Nat /\ W # {}
  <2>1. p < N
    BY <1>4, <1>5
  <2>2. N - p \in W
    BY <1>0, <1>4, <2>1
  <2> QED BY <2>2
<1>7. PICK n \in W : \A m \in W : n <= m
  BY <1>6, Smallest
<1>8. PICK q \in Nat : From[q] # Reach(q) /\ n = N - q
  BY <1>7
<1>9. q < N /\ Follows(q) \in Nat /\ q < Follows(q)
  BY <1>5, <1>8, FollowsBehind
<1>10. From[Follows(q)] # Reach(Follows(q))
  BY <1>0, <1>3, <1>8, <1>9, Reaching
<1>11. Follows(q) < N
  BY <1>5, <1>9, <1>10
<1>12. N - Follows(q) \in W
  BY <1>0, <1>9, <1>10, <1>11
<1>13. n <= N - Follows(q)
  BY <1>7, <1>12
<1> QED BY <1>0, <1>8, <1>9, <1>13

\* The starts of instructions: the first is 0, each leads to the next, and there is
\* none in between.
LEMMA StartsFacts ==
    ASSUME body \in Seq(Byte), body # <<>>
    PROVE  /\ Starts \subseteq 0 .. N - 1 /\ 0 \in Starts
           /\ \A s \in Starts : Follows(s) < N => Follows(s) \in Starts
           /\ \A s, q \in Starts : q <= s \/ Follows(s) <= q
<1>0. N \in Nat /\ 0 < N
  BY DEF N
<1>1. Starts = Reach(0)
  <2>1. Starts = From[0]
    BY DEF Starts, From
  <2> QED BY <2>1, FromReaches
<1>2. Starts \subseteq 0 .. N - 1
  BY <1>1 DEF Reach
<1>3. 0 \in Starts
  BY <1>0, <1>1, Reaching
<1>4. ASSUME NEW s \in Starts, Follows(s) < N PROVE Follows(s) \in Starts
  <2>1. s \in Nat /\ s < N
    BY <1>0, <1>2
  <2>2. Follows(s) \in 0 .. N - 1
    BY <1>0, <1>4, <2>1, FollowsBehind
  <2>3. ASSUME NEW S \in SUBSET Nat, 0 \in S, Closed(S) PROVE Follows(s) \in S
    BY <1>1, <2>1, <2>3 DEF Reach, Closed
  <2> QED BY <1>1, <2>2, <2>3 DEF Reach
<1> DEFINE P == {p \in Nat : \A s \in Starts : s < p \/ s \in Reach(p)}
<1>5. 0 \in P
  BY <1>1
<1>6. Closed(P)
  <2>1. SUFFICES ASSUME NEW p \in P, p < N PROVE Follows(p) \in P
    BY DEF Closed
  <2>2. Follows(p) \in Nat /\ p < Follows(p)
    BY <2>1, FollowsBehind
  <2>3. Reach(p) = {p} \cup Reach(Follows(p))
    BY <1>0, <2>1, Reaching
  <2>4. \A s \in Starts : s < Follows(p) \/ s \in Reach(Follows(p))
    BY <1>0, <1>2, <2>1, <2>2, <2>3
  <2> QED BY <2>2, <2>4
<1>7. Starts \subseteq P
  BY <1>1, <1>5, <1>6 DEF Reach
<1>8. ASSUME NEW s \in Starts, NEW q \in Starts, ~(q <= s) PROVE Follows(s) <= q
  <2>1. s \in Nat /\ s < N /\ q \in Nat
    BY <1>0, <1>2
  <2>2. q \in Reach(s)
    BY <1>7, <1>8, <2>1
  <2>3. q \in Reach(Follows(s)) /\ Follows(s) \in Nat
    BY <1>0, <1>8, <2>1, <2>2, Reaching, FollowsBehind
  <2> DEFINE S == {p \in Nat : Follows(s) <= p}
  <2>4. Closed(S)
    <3>1. SUFFICES ASSUME NEW p \in S, p < N PROVE Follows(p) \in S
      BY DEF Closed
    <3>2. Follows(p) \in Nat /\ p < Follows(p)
      BY <3>1, FollowsBehind
    <3> QED BY <2>3, <3>1, <3>2
  <2>5. Follows(s) \in S
    BY <2>3
  <2>6. q \in S
    BY <2>3, <2>4, <2>5 DEF Reach
  <2> QED BY <2>6
<1> QED BY <1>2, <1>3, <1>4, <1>8

(* The scan ****************************************************************)

\* What is read from the body does not change with the rest.
LEMMA SameBody ==
    ASSUME body' = body
    PROVE  /\ N' = N /\ Starts' = Starts /\ JumpStarts' = JumpStarts
           /\ (NoLookAlike' <=> NoLookAlike) /\ (Whole' <=> Whole)
           /\ \A s : Follows(s)' = Follows(s) /\ Target(s)' = Target(s) /\ MarksOf(s)' = MarksOf(s)
<1>1. N' = N
  BY DEF N
<1>2. Starts' = Starts
  BY <1>1 DEF Starts
<1>3. JumpStarts' = JumpStarts
  BY <1>2 DEF JumpStarts
<1>4. \A s : Follows(s)' = Follows(s)
  BY DEF Follows
<1>5. \A p, t : At(p, t)' = At(p, t)
  BY <1>1 DEF At
<1>6. \A s : Target(s)' = Target(s)
  BY <1>5 DEF Target, Int4At
<1>7. \A s : MarksOf(s)' = MarksOf(s)
  BY <1>6 DEF MarksOf
<1>8. NoLookAlike' <=> NoLookAlike
  BY <1>2, <1>5 DEF NoLookAlike
<1>9. Whole' <=> Whole
  BY <1>1, <1>2 DEF Whole
<1> QED BY <1>1, <1>2, <1>3, <1>4, <1>6, <1>7, <1>8, <1>9

\* The marks for all jumps up to s, but for one at byte 0.
MarksUpTo(s) == UNION {MarksOf(q) : q \in {r \in JumpStarts \ {0} : r <= s}}

\* The scan stands in the instruction at s or at its end, behind the operands it
\* knows, and has marked what belongs to the jumps so far.
Standing(s) == i \in s + (IF s = 0 THEN 1 ELSE ScanStep(body[s + 1])) .. Follows(s)
Scanned ==
    phase = "scan" /\ NoLookAlike /\ Whole =>
      \E s \in Starts : Standing(s) /\ marks = MarksUpTo(s)

\* The lengths of the instructions with operands the scan knows.
LEMMA Lengths ==
    ASSUME NEW op \in 0 .. 255
    PROVE  /\ op \in Jumps1 => op # JUMP_TRUE4 /\ Length(op) = 2 /\ ScanStep(op) = 2
           /\ op = JUMP_TRUE4 => op \notin Jumps1 /\ Length(op) = 5 /\ ScanStep(op) = 4
           /\ op = START_CMD => Length(op) = 9 /\ ScanStep(op) = 9
           /\ ScanStep(op) \in 1 .. Length(op)
<1> USE DEF Jumps1, JUMP1, JUMP_TRUE1, JUMP_FALSE1, JUMP_TRUE4, START_CMD
<1>1. op \in Jumps1 => op # JUMP_TRUE4 /\ Length(op) = 2 /\ ScanStep(op) = 2
  BY DEF Length, ScanStep
<1>2. op = JUMP_TRUE4 => op \notin Jumps1 /\ Length(op) = 5 /\ ScanStep(op) = 4
  BY DEF Length, ScanStep
<1>3. op = START_CMD => Length(op) = 9 /\ ScanStep(op) = 9
  BY DEF Length, ScanStep
<1>4. op \notin Jumps1 \cup {JUMP_TRUE4, START_CMD} => ScanStep(op) = 1
  BY DEF ScanStep
<1>5. Length(op) \in 1 .. 9
  BY LengthType
<1>6. ScanStep(op) \in 1 .. Length(op)
  BY <1>1, <1>2, <1>3, <1>4, <1>5
<1> QED BY <1>1, <1>2, <1>3, <1>6

\* For an instruction that is there as a whole it does not matter what is read
\* behind the body.
LEMMA MarksRead ==
    ASSUME body \in Seq(Byte), NEW s \in Nat, s < N, Follows(s) <= N, NEW t \in Byte
    PROVE  /\ body[s + 1] \in Jumps1 => {s + At(s + 1, t), s + 2} = MarksOf(s)
           /\ body[s + 1] = JUMP_TRUE4 => {s + Int4At(s + 1, t), s + 5} = MarksOf(s)
<1>0. N \in Nat
  BY DEF N
<1> DEFINE op == body[s + 1]
<1>3. op \in 0 .. 255
  BY FollowsBehind
<1>1. CASE op \in Jumps1
  <2>1. Length(op) = 2 /\ op # JUMP_TRUE4
    BY <1>1, <1>3, Lengths
  <2>2. s + 1 < N
    BY <1>0, <2>1 DEF Follows
  <2>3. At(s + 1, t) = At(s + 1, 0)
    BY <2>2 DEF At
  <2>4. At(s + 1, t) \in 0 .. 255
    <3>1. s + 1 \in Nat
      OBVIOUS
    <3> QED BY <3>1, ReadsBytes
  <2>5. Target(s) = s + Char(At(s + 1, t))
    BY <2>1, <2>3 DEF Target
  <2>6. Target(s) + (IF Target(s) < s THEN 256 ELSE 0) = s + At(s + 1, t)
    <3>1. ASSUME NEW b \in 0 .. 255
          PROVE  s + Char(b) + (IF s + Char(b) < s THEN 256 ELSE 0) = s + b
      <4>1. CASE b >= 128
        <5>1. Char(b) = b - 256
          BY <4>1 DEF Char
        <5> QED BY <5>1
      <4>2. CASE ~(b >= 128)
        <5>1. Char(b) = b
          BY <4>2 DEF Char
        <5> QED BY <5>1
      <4> QED BY <4>1, <4>2
    <3>2. PICK b \in 0 .. 255 : b = At(s + 1, t)
      BY <2>4
    <3> QED BY <2>5, <3>1, <3>2
  <2>7. MarksOf(s) = {s + 2, s + At(s + 1, t)}
    BY <1>1, <2>1, <2>6 DEF MarksOf
  <2> QED BY <2>1, <2>7
<1>2. CASE op = JUMP_TRUE4
  <2>1. Length(op) = 5 /\ op \notin Jumps1
    BY <1>2, <1>3, Lengths
  <2>2. s + 1 < N /\ s + 1 + 1 < N /\ s + 1 + 2 < N /\ s + 1 + 3 < N
    BY <1>0, <2>1 DEF Follows
  <2>3. Int4At(s + 1, t) = Int4At(s + 1, 0)
    BY <2>2 DEF Int4At, At
  <2>4. Int4At(s + 1, t) \in Int
    BY ReadsInts
  <2>5. Target(s) = s + Int4At(s + 1, t)
    BY <1>2, <2>3 DEF Target
  <2>6. MarksOf(s) = {s + 5, s + Int4At(s + 1, t)}
    BY <2>1, <2>4, <2>5 DEF MarksOf
  <2> QED BY <2>1, <2>6
<1> QED BY <1>1, <1>2

\* From one instruction to the next.
LEMMA MarksGrow ==
    ASSUME body \in Seq(Byte), body # <<>>, NEW s \in Starts, Follows(s) < N
    PROVE  MarksUpTo(Follows(s)) =
             MarksUpTo(s) \cup (IF body[Follows(s) + 1] \in Jumps THEN MarksOf(Follows(s)) ELSE {})
<1> DEFINE f == Follows(s)
           U(p) == {r \in JumpStarts \ {0} : r <= p}
<1>0. N \in Nat
  BY DEF N
<1>1. s \in Nat /\ s < N /\ f \in Starts /\ f \in Nat /\ s < f
  <2>1. s \in 0 .. N - 1 /\ f \in Starts
    BY StartsFacts
  <2> QED BY <1>0, <2>1, FollowsBehind
<1>2. \A r \in Starts : r \in Nat /\ (r <= s \/ f <= r)
  BY <1>0, StartsFacts
<1>3. JumpStarts \subseteq Starts /\ (f \in JumpStarts <=> body[f + 1] \in Jumps)
  BY <1>1 DEF JumpStarts
<1> HIDE DEF f
<1>4. U(f) = U(s) \cup (IF body[f + 1] \in Jumps THEN {f} ELSE {})
  <2>1. \A r : r \in U(s) <=> r \in JumpStarts /\ r # 0 /\ r <= s
    OBVIOUS
  <2>2. \A r : r \in U(f) <=> r \in JumpStarts /\ r # 0 /\ r <= f
    OBVIOUS
  <2>3. \A r \in JumpStarts : r <= f <=> r <= s \/ r = f
    BY <1>1, <1>2, <1>3
  <2>4. f # 0
    BY <1>1
  <2> HIDE DEF U
  <2> QED BY <1>3, <2>1, <2>2, <2>3, <2>4
<1>5. MarksUpTo(f) = UNION {MarksOf(q) : q \in U(f)} /\ MarksUpTo(s) = UNION {MarksOf(q) : q \in U(s)}
  BY DEF MarksUpTo
<1> HIDE DEF U
<1>6. MarksUpTo(f) = MarksUpTo(s) \cup (IF body[f + 1] \in Jumps THEN MarksOf(f) ELSE {})
  <2>1. CASE body[f + 1] \in Jumps
    BY <1>4, <1>5, <2>1
  <2>2. CASE body[f + 1] \notin Jumps
    BY <1>4, <1>5, <2>2
  <2> QED BY <2>1, <2>2
<1> QED BY <1>6 DEF f

\* A byte that is read as an instruction with operands begins one.
LEMMA Looked ==
    ASSUME body \in Seq(Byte), body # <<>>, NoLookAlike, NEW s \in Starts, Standing(s),
           i \in Nat, i < N
    PROVE  /\ At(i, 0) \in Jumps \cup {START_CMD} => i = Follows(s)
           /\ i = Follows(s) => i \in Starts /\ i # 0 /\ At(i, 0) = body[i + 1]
<1>0. N \in Nat
  BY DEF N
<1>1. s \in Nat /\ s < N
  BY <1>0, StartsFacts
<1>2. Follows(s) \in Nat /\ s < Follows(s)
  BY <1>1, FollowsBehind
<1>3. ASSUME i # Follows(s) PROVE At(i, 0) \notin Jumps \cup {START_CMD}
  <2>1. i \in s + (IF s = 0 THEN 1 ELSE ScanStep(body[s + 1])) .. s + Length(body[s + 1]) - 1
    <3>1. i \in s + (IF s = 0 THEN 1 ELSE ScanStep(body[s + 1])) .. Follows(s)
      BY DEF Standing
    <3>2. ScanStep(body[s + 1]) \in Nat
      BY DEF ScanStep
    <3>3. Length(body[s + 1]) \in Nat
      BY <1>1, FollowsBehind
    <3> QED BY <1>1, <1>3, <3>1, <3>2, <3>3 DEF Follows
  <2> QED BY <2>1 DEF NoLookAlike
<1>4. ASSUME i = Follows(s) PROVE i \in Starts /\ i # 0 /\ At(i, 0) = body[i + 1]
  BY <1>1, <1>2, <1>4, StartsFacts DEF At
<1> QED BY <1>3, <1>4

\* Before the first step nothing is marked and the scan stands at the first instruction.
LEMMA ScanBegins ==
    ASSUME Init
    PROVE  Scanned
<1>1. body \in Seq(Byte) /\ body # <<>>
  BY BlocksAssumption DEF Init
<1>2. N \in Nat /\ 0 < N
  BY <1>1 DEF N
<1>3. 0 \in Starts /\ Length(body[0 + 1]) \in 1 .. 9
  BY <1>1, <1>2, StartsFacts, FollowsBehind
<1>4. Standing(0)
  BY <1>3 DEF Init, Standing, Follows
<1>5. {r \in JumpStarts \ {0} : r <= 0} = {}
  <2>1. \A r \in Starts : r \in Nat
    BY <1>1, StartsFacts
  <2> QED BY <2>1 DEF JumpStarts
<1>6. marks = MarksUpTo(0)
  BY <1>5 DEF Init, MarksUpTo
<1> QED BY <1>3, <1>4, <1>6 DEF Scanned

\* A step of the scan goes from an instruction to the next, with its marks.
LEMMA ScanGoesOn ==
    ASSUME TypeOK, Counters, Scanned, ScanJump1 \/ ScanJumpTrue4 \/ ScanOther
    PROVE  Scanned'
<1>1. /\ phase = "scan" /\ i \in Nat /\ i < N /\ body' = body /\ phase' = phase
      /\ body \in Seq(Byte) /\ body # <<>> /\ N \in Nat
  <2>1. N >= 1 /\ N \in Nat /\ body \in Seq(Byte)
    BY DEF Counters, TypeOK, N
  <2>2. body # <<>>
    BY <2>1 DEF N
  <2> QED BY <2>1, <2>2 DEF ScanJump1, ScanJumpTrue4, ScanOther, TypeOK
<1>2. /\ Starts' = Starts /\ (NoLookAlike' <=> NoLookAlike) /\ (Whole' <=> Whole)
      /\ \A s : Follows(s)' = Follows(s) /\ MarksUpTo(s)' = MarksUpTo(s)
  <2>1. JumpStarts' = JumpStarts /\ \A s : MarksOf(s)' = MarksOf(s)
    BY <1>1, SameBody
  <2>2. \A s : MarksUpTo(s)' = MarksUpTo(s)
    BY <2>1 DEF MarksUpTo
  <2> QED BY <1>1, <2>2, SameBody
<1>3. SUFFICES ASSUME NoLookAlike, Whole
               PROVE  \E s \in Starts : Standing(s)' /\ marks' = MarksUpTo(s)
  BY <1>1, <1>2 DEF Scanned
<1>4. PICK s \in Starts : Standing(s) /\ marks = MarksUpTo(s)
  BY <1>1, <1>3 DEF Scanned
<1>5. s \in Nat /\ s < N /\ Follows(s) \in Nat /\ s < Follows(s)
  <2>1. s \in 0 .. N - 1
    BY <1>1, StartsFacts
  <2> QED BY <1>1, <2>1, FollowsBehind
<1>6. /\ At(i, 0) \in Jumps \cup {START_CMD} => i = Follows(s)
      /\ i = Follows(s) => i \in Starts /\ i # 0 /\ At(i, 0) = body[i + 1]
  BY <1>1, <1>3, <1>4, Looked
<1>7. ASSUME i = Follows(s)
      PROVE  MarksUpTo(i) = marks \cup (IF body[i + 1] \in Jumps THEN MarksOf(i) ELSE {})
  BY <1>1, <1>4, <1>7, MarksGrow
<1>8. i \in Starts => Follows(i) <= N
  BY <1>3 DEF Whole, Follows
<1>13. PICK c : c = i
  OBVIOUS
<1>9. \A r : Standing(r)' <=> i' \in r + (IF r = 0 THEN 1 ELSE ScanStep(body[r + 1])) .. Follows(r)
  BY <1>1, <1>2 DEF Standing
<1>10. CASE ScanJump1
  <2>1. i = Follows(s) /\ i \in Starts /\ i # 0 /\ body[i + 1] \in Jumps1
    BY <1>6, <1>10 DEF ScanJump1, Jumps
  <2>2. PICK t \in After : Mark({i + At(i + 1, t), i + 2})
    BY <1>10 DEF ScanJump1
  <2>3. marks' = marks \cup MarksOf(i)
    <3>1. t \in Byte
      BY BlocksAssumption
    <3>2. {i + At(i + 1, t), i + 2} = MarksOf(i)
      BY <1>1, <1>8, <2>1, <3>1, MarksRead
    <3> QED BY <2>2, <3>2 DEF Mark
  <2>4. marks' = MarksUpTo(i)
    BY <1>7, <2>1, <2>3 DEF Jumps
  <2>5. ScanStep(body[i + 1]) = 2 /\ Length(body[i + 1]) = 2
    BY <1>1, <2>1, FollowsBehind, Lengths
  <2>6. Standing(c)'
    BY <1>1, <1>9, <1>10, <1>13, <2>1, <2>5 DEF ScanJump1, Follows
  <2> QED BY <1>13, <2>1, <2>4, <2>6
<1>11. CASE ScanJumpTrue4
  <2>1. i = Follows(s) /\ i \in Starts /\ i # 0 /\ body[i + 1] = JUMP_TRUE4
    BY <1>6, <1>11 DEF ScanJumpTrue4, Jumps
  <2>2. PICK t \in After : Mark({i + Int4At(i + 1, t), i + 5})
    BY <1>11 DEF ScanJumpTrue4
  <2>3. marks' = marks \cup MarksOf(i)
    <3>1. t \in Byte
      BY BlocksAssumption
    <3>2. {i + Int4At(i + 1, t), i + 5} = MarksOf(i)
      BY <1>1, <1>8, <2>1, <3>1, MarksRead
    <3> QED BY <2>2, <3>2 DEF Mark
  <2>4. marks' = MarksUpTo(i)
    BY <1>7, <2>1, <2>3 DEF Jumps
  <2>5. ScanStep(body[i + 1]) = 4 /\ Length(body[i + 1]) = 5
    BY <1>1, <2>1, FollowsBehind, Lengths
  <2>6. Standing(c)'
    BY <1>1, <1>9, <1>11, <1>13, <2>1, <2>5 DEF ScanJumpTrue4, Follows
  <2> QED BY <1>13, <2>1, <2>4, <2>6
<1>12. CASE ScanOther
  <2>1. i' = i + Skip(At(i, 0)) /\ marks' = marks /\ At(i, 0) \notin Jumps
    BY <1>12 DEF ScanOther, scanVars
  <2>2. CASE i = Follows(s)
    <3>1. i \in Starts /\ i # 0 /\ At(i, 0) = body[i + 1] /\ body[i + 1] \notin Jumps
      BY <1>6, <2>1, <2>2
    <3>2. marks' = MarksUpTo(i)
      BY <1>7, <2>1, <2>2, <3>1
    <3>3. Skip(body[i + 1]) = ScanStep(body[i + 1])
      BY <3>1 DEF Skip, ScanStep, Jumps
    <3>4. Skip(body[i + 1]) <= Length(body[i + 1]) /\ Skip(body[i + 1]) \in Nat
          /\ Length(body[i + 1]) \in Nat
      <4>1. Length(body[i + 1]) \in 1 .. 9
        BY <1>1, FollowsBehind
      <4>2. body[i + 1] = START_CMD => Length(body[i + 1]) = 9
        BY DEF Length, Jumps1, JUMP1, JUMP_TRUE1, JUMP_FALSE1, JUMP_TRUE4, START_CMD
      <4> QED BY <4>1, <4>2 DEF Skip
    <3>5. Standing(c)'
      BY <1>1, <1>9, <1>13, <2>1, <3>1, <3>3, <3>4 DEF Follows
    <3> QED BY <1>13, <3>1, <3>2, <3>5
  <2>3. CASE i # Follows(s)
    <3>1. At(i, 0) # START_CMD
      BY <1>6, <2>3
    <3>2. i' = i + 1
      BY <2>1, <3>1 DEF Skip
    <3>3. Standing(s)'
      BY <1>1, <1>4, <1>5, <1>9, <2>3, <3>2 DEF Standing, ScanStep
    <3> QED BY <1>4, <2>1, <3>3
  <2> QED BY <2>2, <2>3
<1> QED BY <1>10, <1>11, <1>12

\* At the end of the body every instruction was read.
LEMMA ScanStops ==
    ASSUME TypeOK, Counters, Scanned, ScanEnd
    PROVE  ScanExact'
<1>1. /\ phase = "scan" /\ i \in Nat /\ N <= i /\ body' = body /\ marks' = marks
      /\ body \in Seq(Byte) /\ body # <<>> /\ N \in Nat
  <2>1. N >= 1 /\ N \in Nat /\ body \in Seq(Byte)
    BY DEF Counters, TypeOK, N
  <2>2. body # <<>>
    BY <2>1 DEF N
  <2> QED BY <2>1, <2>2 DEF ScanEnd, scanVars, TypeOK
<1>2. /\ JumpStarts' = JumpStarts /\ (NoLookAlike' <=> NoLookAlike) /\ (Whole' <=> Whole)
      /\ \A s : MarksOf(s)' = MarksOf(s)
  BY <1>1, SameBody
<1>3. SUFFICES ASSUME NoLookAlike, Whole
               PROVE  marks = UNION {MarksOf(s) : s \in JumpStarts \ {0}}
  BY <1>1, <1>2 DEF ScanExact
<1>4. PICK s \in Starts : Standing(s) /\ marks = MarksUpTo(s)
  BY <1>1, <1>3 DEF Scanned
<1>5. N <= Follows(s) /\ Follows(s) \in Nat
  <2>1. s \in 0 .. N - 1
    BY <1>1, StartsFacts
  <2>2. s \in Nat /\ s < N
    BY <1>1, <2>1
  <2>3. Follows(s) \in Nat
    BY <1>1, <2>2, FollowsBehind
  <2> QED BY <1>1, <1>4, <2>2, <2>3 DEF Standing, ScanStep
<1>6. \A r \in Starts : r <= s
  <2>1. \A r \in Starts : r \in 0 .. N - 1 /\ (r <= s \/ Follows(s) <= r)
    BY <1>1, StartsFacts
  <2> QED BY <1>1, <1>5, <2>1
<1>7. {r \in JumpStarts \ {0} : r <= s} = JumpStarts \ {0}
  BY <1>6 DEF JumpStarts
<1> QED BY <1>4, <1>7 DEF MarksUpTo

\* So no step of the program disturbs what the scan has read.
LEMMA NextScanned ==
    ASSUME TypeOK, Counters, Scanned, ScanExact, [Next]_vars
    PROVE  Scanned' /\ ScanExact'
<1> USE DEF scanVars, buildVars
<1>1. CASE UNCHANGED vars
  <2>1. /\ Starts' = Starts /\ JumpStarts' = JumpStarts /\ (NoLookAlike' <=> NoLookAlike)
        /\ (Whole' <=> Whole) /\ \A s : Follows(s)' = Follows(s) /\ MarksOf(s)' = MarksOf(s)
    BY <1>1, SameBody DEF vars
  <2>2. \A s : MarksUpTo(s)' = MarksUpTo(s) /\ (Standing(s)' <=> Standing(s))
    BY <1>1, <2>1 DEF MarksUpTo, Standing, vars
  <2> QED BY <1>1, <2>1, <2>2 DEF vars, Scanned, ScanExact
<1>2. CASE ScanJump1 \/ ScanJumpTrue4 \/ ScanOther
  <2>1. phase' = "scan"
    BY <1>2 DEF ScanJump1, ScanJumpTrue4, ScanOther
  <2> QED BY <1>2, <2>1, ScanGoesOn DEF ScanExact
<1>3. CASE ScanEnd
  <2>1. phase' = "compress"
    BY <1>3 DEF ScanEnd
  <2> QED BY <1>3, <2>1, ScanStops DEF Scanned
<1>4. CASE Compress
  <2>1. phase = "compress" /\ phase' = "compress" /\ body' = body /\ marks' = marks
    BY <1>4 DEF Compress
  <2>2. /\ JumpStarts' = JumpStarts /\ (NoLookAlike' <=> NoLookAlike) /\ (Whole' <=> Whole)
        /\ \A s : MarksOf(s)' = MarksOf(s)
    BY <2>1, SameBody
  <2> QED BY <2>1, <2>2 DEF Scanned, ScanExact
<1>5. CASE CompressEnd \/ MapBlock \/ MapEnd \/ BuildQuad \/ Unsupported \/ NextBlock \/ Flow
  <2>1. phase' \notin {"scan", "compress"}
    BY <1>5 DEF CompressEnd, MapBlock, MapEnd, BuildQuad, Unsupported, NextBlock, Flow
  <2> QED BY <2>1 DEF Scanned, ScanExact
<1> QED BY <1>1, <1>2, <1>3, <1>4, <1>5 DEF Next

\* In every body whose operands are never taken for instructions, the scan marks where
\* each jump ends and where it goes, and nothing else.
THEOREM ScanRight == Spec => []ScanExact
<1>1. Init => TypeOK /\ Counters /\ Scanned /\ ScanExact
  BY InitTypes, ScanBegins DEF Init, ScanExact
<1>2. TypeOK /\ Counters /\ Scanned /\ ScanExact /\ [Next]_vars
        => (TypeOK /\ Counters /\ Scanned /\ ScanExact)'
  BY NextTypes, NextScanned
<1> QED BY <1>1, <1>2, PTL DEF Spec

(* The list while the map is filled ****************************************)

\* The number of blocks behind each entry of a list.
LEMMA ListNext ==
    ASSUME TypeOK, Counters, NEW L, IsList(L), NEW b \in 0 .. numblocks - 1
    PROVE  /\ L[b] \in Leaders /\ NextLeader(L[b]) = L[b + 1]
           /\ IsLast(L[b]) <=> b = numblocks - 1
<1>1. /\ numblocks \in Nat /\ numblocks >= 1 /\ \A a \in 0 .. numblocks : L[a] \in Nat
      /\ \A a, c \in 0 .. numblocks : a < c => L[a] < L[c]
      /\ L[numblocks] = N
  BY ListType
<1>2. b \in 0 .. numblocks /\ L[b] \in Leaders
  BY <1>1 DEF IsList
<1>3. ASSUME NEW q \in Later(L[b]) PROVE \E a \in b + 1 .. numblocks - 1 : L[a] = q
  <2>1. q \in Leaders /\ L[b] < q
    BY <1>3 DEF Later
  <2>2. PICK a \in 0 .. numblocks - 1 : L[a] = q
    BY <2>1 DEF IsList
  <2>3. ~(a < b) /\ a # b
    BY <1>1, <1>2, <2>1, <2>2
  <2> QED BY <1>1, <2>2, <2>3
<1>4. CASE b = numblocks - 1
  <2>1. Later(L[b]) = {}
    BY <1>1, <1>3, <1>4
  <2> QED BY <1>1, <1>2, <1>4, <2>1 DEF NextLeader, IsLast
<1>5. CASE b # numblocks - 1
  <2>1. b + 1 \in 0 .. numblocks - 1 /\ b + 1 \in 0 .. numblocks
    BY <1>1, <1>5
  <2>2. L[b + 1] \in Later(L[b])
    <3>1. L[b + 1] \in Leaders
      BY <2>1 DEF IsList
    <3>2. L[b] < L[b + 1]
      BY <1>1, <1>2, <2>1
    <3> QED BY <3>1, <3>2 DEF Later
  <2>3. ASSUME NEW r \in Later(L[b]) PROVE L[b + 1] <= r /\ r \in Nat
    <3>1. PICK a \in b + 1 .. numblocks - 1 : L[a] = r
      BY <1>3
    <3>2. a \in 0 .. numblocks
      BY <1>1, <2>1, <3>1
    <3>3. a = b + 1 \/ L[b + 1] < L[a]
      BY <1>1, <2>1, <3>1, <3>2
    <3> QED BY <1>1, <2>1, <3>1, <3>2, <3>3
  <2>4. \A q \in Later(L[b]) : (\A r \in Later(L[b]) : q <= r) => q = L[b + 1]
    BY <2>2, <2>3
  <2>5. NextLeader(L[b]) = CHOOSE q \in Later(L[b]) : \A r \in Later(L[b]) : q <= r
    BY <2>2 DEF NextLeader, IsLast
  <2>6. NextLeader(L[b]) = L[b + 1]
    BY <2>2, <2>3, <2>4, <2>5
  <2> QED BY <1>2, <1>5, <2>2, <2>6 DEF IsLast
<1> QED BY <1>4, <1>5

\* The last leader is the last of the list before the length of the body.
LEMMA ListLast ==
    ASSUME TypeOK, Counters, NEW L, IsList(L)
    PROVE  LastLeader = L[numblocks - 1] /\ LastLeader \in Nat
<1>1. /\ numblocks \in Nat /\ numblocks >= 1 /\ \A a \in 0 .. numblocks : L[a] \in Nat
  BY ListType
<1>2. numblocks - 1 \in 0 .. numblocks - 1 /\ numblocks - 1 \in 0 .. numblocks
  BY <1>1
<1>3. L[numblocks - 1] \in Leaders /\ IsLast(L[numblocks - 1])
  BY <1>2, ListNext
<1>4. ASSUME NEW p \in Leaders, IsLast(p) PROVE p = L[numblocks - 1]
  <2>1. PICK a \in 0 .. numblocks - 1 : L[a] = p
    BY DEF IsList
  <2> QED BY <1>4, <2>1, ListNext
<1>5. LastLeader = L[numblocks - 1]
  BY <1>3, <1>4 DEF LastLeader
<1> QED BY <1>1, <1>2, <1>5

\* Every position of the body is in a block.
LEMMA Located ==
    ASSUME TypeOK, Counters, NEW L, IsList(L), NEW p \in 0 .. N - 1
    PROVE  \E b \in 0 .. numblocks - 1 : L[b] <= p /\ p < L[b + 1]
<1>1. /\ numblocks \in Nat /\ numblocks >= 1 /\ \A a \in 0 .. numblocks : L[a] \in Nat
      /\ L[0] = 0 /\ L[numblocks] = N /\ N \in Nat
  BY ListType DEF TypeOK, N
<1> DEFINE S == {b \in 0 .. numblocks - 1 : p < L[b + 1]}
<1>2. S \in SUBSET Nat /\ numblocks - 1 \in S
  BY <1>1
<1>3. PICK b \in S : \A c \in S : b <= c
  BY <1>2, Smallest
<1>4. b \in 0 .. numblocks - 1 /\ p < L[b + 1]
  OBVIOUS
<1>5. CASE b = 0
  BY <1>1, <1>4, <1>5
<1>6. CASE b # 0
  <2>1. b - 1 \in 0 .. numblocks - 1 /\ (b - 1) + 1 = b /\ b \in 0 .. numblocks
    BY <1>1, <1>4, <1>6
  <2>2. b - 1 \notin S
    BY <1>3, <1>4, <2>1
  <2>3. ~(p < L[b])
    BY <2>1, <2>2
  <2> QED BY <1>1, <1>4, <2>1, <2>3
<1> QED BY <1>5, <1>6

\* The list as it stands at the end of leaders.
TheList == [a \in 0 .. numblocks |-> leaders[N - numblocks + a]]

\* While the body is Intact the list stays, and so does the last element of the map.
ListStays ==
    /\ phase \in {"map", "build"} /\ Intact => IsList(TheList)
    /\ phase = "build" \/ (phase = "map" /\ i = numblocks) =>
         (Bounded /\ LastLeader >= 2 => bc_to_bb[N] = numblocks - 1)

\* What does not change after the scan and the compression.
LEMMA SameMarks ==
    ASSUME body' = body, marks' = marks, numblocks' = numblocks, gap' = gap
    PROVE  /\ Leaders' = Leaders /\ LastLeader' = LastLeader /\ Kept' = Kept
           /\ (Bounded' <=> Bounded) /\ (Intact' <=> Intact) /\ (Aligned' <=> Aligned)
           /\ \A p : /\ NextLeader(p)' = NextLeader(p) /\ (IsLast(p)' <=> IsLast(p))
                     /\ BlockOf(p)' = BlockOf(p) /\ (ShortBlock(p)' <=> ShortBlock(p))
                     /\ (AfterDone(p)' <=> AfterDone(p))
           /\ \A L : IsList(L)' <=> IsList(L)
<1>1. N' = N /\ Starts' = Starts /\ (Whole' <=> Whole)
  BY SameBody
<1>2. Leaders' = Leaders /\ (Bounded' <=> Bounded) /\ (Aligned' <=> Aligned)
  BY <1>1 DEF Leaders, Bounded, Aligned
<1>3. \A p : Later(p)' = Later(p)
  BY <1>2 DEF Later
<1>4. \A p : (IsLast(p)' <=> IsLast(p))
  BY <1>3 DEF IsLast
<1>5. ASSUME NEW p PROVE NextLeader(p)' = NextLeader(p)
  BY <1>1, <1>2 DEF NextLeader, IsLast, Later
<1>6. \A p : ShortBlock(p)' <=> ShortBlock(p)
  BY <1>4, <1>5 DEF ShortBlock
<1>7. \A p : BlockOf(p)' = BlockOf(p)
  BY <1>2 DEF BlockOf
<1>8. LastLeader' = LastLeader
  BY <1>2, <1>4 DEF LastLeader
<1>9. Intact' <=> Intact
  BY <1>1, <1>2, <1>8 DEF Intact
<1>10. \A p : AfterDone(p)' <=> AfterDone(p)
  BY <1>1 DEF AfterDone
<1>11. Kept' = Kept
  BY <1>1, <1>10 DEF Kept
<1>12. \A L : IsList(L)' <=> IsList(L)
  BY <1>1, <1>2 DEF IsList
<1> QED BY <1>2, <1>4, <1>5, <1>6, <1>7, <1>8, <1>9, <1>10, <1>11, <1>12

\* Filling the map for one block leaves the list alone.
LEMMA ListSpared ==
    ASSUME TypeOK, Counters, MapBlock, Intact, IsList(TheList)
    PROVE  TheList' = TheList
<1> DEFINE F == N - numblocks
           L == TheList
<1>1. /\ N \in Nat /\ numblocks \in 1 .. N /\ i \in 0 .. numblocks - 1 /\ gap \in Nat
      /\ j = F + i /\ N' = N /\ numblocks' = numblocks
  BY DEF TypeOK, Counters, N, MapBlock
<1>2. /\ \A a \in 0 .. numblocks : L[a] \in Nat /\ L[a] = leaders[F + a]
      /\ \A a, c \in 0 .. numblocks : a < c => L[a] < L[c]
      /\ L[numblocks] = N
  <2>1. \A a \in 0 .. numblocks : L[a] = leaders[F + a]
    BY DEF TheList
  <2> HIDE DEF L, F
  <2>2. IsList(L)
    BY DEF L
  <2> QED BY <2>1, <2>2, ListType
<1> HIDE DEF L
<1>3. LastLeader = L[numblocks - 1] /\ LastLeader \in Nat
  BY ListLast DEF L
<1>4. leaders[j] = L[i] /\ leaders[j + 1] = L[i + 1]
  <2>1. i \in 0 .. numblocks /\ i + 1 \in 0 .. numblocks /\ j + 1 = F + (i + 1)
    BY <1>1
  <2> QED BY <1>1, <1>2, <2>1
<1>5. L[i] <= LastLeader /\ L[i + 1] <= N /\ L[i] \in Nat /\ L[i + 1] \in Nat
  <2>1. /\ i \in 0 .. numblocks /\ i + 1 \in 0 .. numblocks /\ numblocks - 1 \in 0 .. numblocks
        /\ numblocks \in 0 .. numblocks
    BY <1>1
  <2>2. i = numblocks - 1 \/ L[i] < L[numblocks - 1]
    BY <1>1, <1>2, <2>1
  <2>3. i + 1 = numblocks \/ L[i + 1] < L[numblocks]
    BY <1>1, <1>2, <2>1
  <2> QED BY <1>1, <1>2, <1>3, <2>1, <2>2, <2>3
<1>6. numblocks < N - LastLeader + 3 + gap
  BY DEF Intact
<1>7. ASSUME NEW a \in 0 .. numblocks PROVE leaders'[F + a] = leaders[F + a]
  <2>1. F + a \in 0 .. N
    BY <1>1
  <2>2. N + 1 + gap + (F + a) \notin MapRange
    <3>1. MapRange = L[i] .. L[i] + L[i + 1] - 2
      BY <1>4 DEF MapRange
    <3>2. L[i] + L[i + 1] - 2 <= LastLeader + N - 2
      BY <1>1, <1>3, <1>5
    <3>3. LastLeader + N - 2 < N + 1 + gap + (F + a)
      BY <1>1, <1>3, <1>6
    <3>4. ASSUME N + 1 + gap + (F + a) \in MapRange PROVE FALSE
      <4>1. N + 1 + gap + (F + a) <= L[i] + L[i + 1] - 2
        BY <3>1, <3>4
      <4>2. \A x, y, z \in Int : x <= y /\ y <= z /\ z < x => FALSE
        OBVIOUS
      <4>3. /\ N + 1 + gap + (F + a) \in Int /\ L[i] + L[i + 1] - 2 \in Int
            /\ LastLeader + N - 2 \in Int
        BY <1>1, <1>3, <1>5
      <4> HIDE DEF F
      <4> QED BY <3>2, <3>3, <4>1, <4>2, <4>3
    <3> QED BY <3>4
  <2> QED BY <2>1, <2>2 DEF MapBlock
<1> QED BY <1>1, <1>7 DEF TheList

\* No step disturbs the list before it is read.
LEMMA NextListStays ==
    ASSUME TypeOK, Counters, Scans, Maps, ListStays, [Next]_vars
    PROVE  ListStays'
<1> USE DEF scanVars, buildVars
<1>0. N \in Nat /\ numblocks \in 1 .. N
  BY DEF TypeOK, N
<1>1. CASE UNCHANGED vars
  <2>1. /\ N' = N /\ LastLeader' = LastLeader /\ (Bounded' <=> Bounded) /\ (Intact' <=> Intact)
        /\ \A L : IsList(L)' <=> IsList(L)
    BY <1>1, SameBody, SameMarks DEF vars
  <2>2. TheList' = TheList
    BY <1>1, <2>1 DEF TheList, vars
  <2>3. PICK L : L = TheList
    OBVIOUS
  <2>4. IsList(TheList)' <=> IsList(TheList)
    BY <2>1, <2>2, <2>3 DEF IsList
  <2> QED BY <1>1, <2>1, <2>4 DEF vars, ListStays
<1>2. CASE ScanJump1 \/ ScanJumpTrue4 \/ ScanOther \/ ScanEnd \/ Compress
  <2>1. phase' \in {"scan", "compress"}
    BY <1>2 DEF ScanJump1, ScanJumpTrue4, ScanOther, ScanEnd, Compress
  <2> QED BY <2>1 DEF ListStays
<1>3. CASE CompressEnd
  <2>1. phase' = "map" /\ i' = 0 /\ numblocks' = numblocks
    BY <1>3 DEF CompressEnd
  <2>2. Intact' => Bounded
    BY <1>3, SameMarks DEF CompressEnd, Intact
  <2>3. ASSUME Bounded PROVE IsList(TheList)'
    <3>1. PICK L : IsList(L)' /\ Mapped(L)'
      BY <1>3, <2>3, MapStarts
    <3>2. L = TheList'
      BY <2>1, <3>1 DEF IsList, Mapped, TheList
    <3> QED BY <3>1, <3>2 DEF IsList
  <2> QED BY <1>0, <2>1, <2>2, <2>3 DEF ListStays
<1>4. CASE MapBlock
  <2>1. /\ phase = "map" /\ phase' = "map" /\ i' = i + 1 /\ numblocks' = numblocks
        /\ i \in Nat /\ i < numblocks /\ j = N - numblocks + i
    BY <1>4 DEF MapBlock, TypeOK, Counters
  <2>2. /\ N' = N /\ LastLeader' = LastLeader /\ (Bounded' <=> Bounded) /\ (Intact' <=> Intact)
        /\ \A L : IsList(L)' <=> IsList(L)
    BY <1>4, SameBody, SameMarks DEF MapBlock
  <2>3. ASSUME Intact PROVE IsList(TheList)'
    <3>1. IsList(TheList)
      BY <2>1, <2>3 DEF ListStays
    <3>2. TheList' = TheList
      BY <1>4, <2>3, <3>1, ListSpared
    <3>3. Leaders' = Leaders
      BY <1>4, SameMarks DEF MapBlock
    <3> QED BY <2>1, <2>2, <3>1, <3>2, <3>3 DEF IsList
  <2>4. ASSUME i' = numblocks, Bounded, LastLeader >= 2 PROVE bc_to_bb'[N] = numblocks - 1
    <3>1. PICK L : IsList(L) /\ Mapped(L)
      BY <2>1, <2>4 DEF Maps
    <3>2. i = numblocks - 1 /\ j = N - 1
      BY <1>0, <2>1, <2>4
    <3>3. leaders[j] = LastLeader /\ leaders[j + 1] = N
      <4>1. LastLeader = L[numblocks - 1] /\ L[numblocks] = N
        BY <3>1, ListLast, ListType
      <4>2. leaders[N - numblocks + i] = L[i] /\ leaders[N - numblocks + numblocks] = L[numblocks]
        <5>1. i \in i .. numblocks /\ numblocks \in i .. numblocks
          BY <1>0, <3>2
        <5> QED BY <3>1, <5>1 DEF Mapped
      <4> QED BY <1>0, <3>2, <4>1, <4>2
    <3>4. LastLeader \in Nat /\ LastLeader <= N
      <4>1. j \in 0 .. N
        BY <1>0, <3>2
      <4>2. leaders[j] \in 0 .. N
        BY <4>1 DEF TypeOK
      <4> QED BY <1>0, <3>3, <4>2
    <3>5. N \in MapRange
      BY <1>0, <2>4, <3>3, <3>4 DEF MapRange
    <3> QED BY <1>0, <1>4, <3>2, <3>5 DEF MapBlock, Filled
  <2> QED BY <2>1, <2>2, <2>3, <2>4 DEF ListStays
<1>5. CASE MapEnd \/ BuildQuad \/ Unsupported \/ NextBlock \/ Flow
  <2>1. /\ phase = "build" \/ (phase = "map" /\ i = numblocks)
        /\ UNCHANGED <<body, gap, marks, numblocks, leaders, bc_to_bb>>
    BY <1>5 DEF MapEnd, BuildQuad, Unsupported, NextBlock, Flow, Counters, TypeOK
  <2>2. /\ N' = N /\ LastLeader' = LastLeader /\ (Bounded' <=> Bounded) /\ (Intact' <=> Intact)
        /\ Leaders' = Leaders
    BY <2>1, SameBody, SameMarks
  <2>3. TheList' = TheList
    BY <2>1, <2>2 DEF TheList
  <2>4. IsList(TheList)' <=> IsList(TheList)
    BY <2>1, <2>2, <2>3 DEF IsList
  <2> QED BY <2>1, <2>2, <2>4 DEF ListStays
<1> QED BY <1>1, <1>2, <1>3, <1>4, <1>5 DEF Next

(* The blocks **************************************************************)

\* Reading and the list go together: pc is at an instruction, in the block that is
\* being built, and got_done is what the instructions before it say.
Reads ==
    phase = "build" /\ Aligned /\ Intact =>
      /\ pc \in Starts \cup {N}
      /\ IF i < numblocks THEN pc = leaders[j] + k /\ pc <= leaders[j + 1] ELSE pc = N
      /\ got_done <=> AfterDone(pc)

\* What a block has of the instructions before p.
Holds(quads, b, p) ==
    /\ \A m, n \in DOMAIN quads : m < n => quads[m].at < quads[n].at
    /\ {quads[n].at : n \in DOMAIN quads} = {s \in Kept : s < p /\ BlockOf(s) = b - 1}

Aims(q) == q.op \in Jumps /\ Target(q.at) \in Leaders /\ ~ShortBlock(Target(q.at))
             => q.dest = BlockOf(Target(q.at))

Built ==
    phase = "build" /\ Aligned /\ Intact =>
      \A b \in 1 .. Len(blocks) :
        Holds(blocks[b], b, pc) /\ \A n \in DOMAIN blocks[b] : Aims(blocks[b][n])

\* Where build_quad is: at the start of an instruction of block i that ends in it.
LEMMA Reading ==
    ASSUME TypeOK, Counters, ListStays, Reads, phase = "build", Aligned, Intact,
           i < numblocks, k < leaders[j + 1] - leaders[j]
    PROVE  /\ pc \in Starts /\ pc \in 0 .. N - 1 /\ Follows(pc) \in Starts \cup {N}
           /\ BlockOf(pc) = i /\ Follows(pc) <= leaders[j + 1] /\ Follows(pc) <= N
           /\ \A t : At(pc, t) = body[pc + 1]
<1> DEFINE L == TheList
           F == N - numblocks
<1>1. /\ N \in Nat /\ N >= 1 /\ body \in Seq(Byte) /\ body # <<>> /\ numblocks \in 1 .. N
      /\ i \in 0 .. numblocks - 1 /\ j = F + i /\ pc \in Nat /\ k \in Nat
  BY DEF TypeOK, Counters, N
<1>2. IsList(L)
  BY DEF ListStays
<1>3. /\ \A a \in 0 .. numblocks : L[a] \in Nat /\ L[a] = leaders[F + a]
      /\ \A a, c \in 0 .. numblocks : a < c => L[a] < L[c]
      /\ L[numblocks] = N
  <2>1. \A a \in 0 .. numblocks : L[a] = leaders[F + a]
    BY DEF TheList
  <2> HIDE DEF L, F
  <2> QED BY <1>2, <2>1, ListType
<1>4. leaders[j] = L[i] /\ leaders[j + 1] = L[i + 1] /\ L[i] \in Nat /\ L[i + 1] \in Nat
  <2>1. i \in 0 .. numblocks /\ i + 1 \in 0 .. numblocks /\ j + 1 = F + (i + 1)
    BY <1>1
  <2> QED BY <1>1, <1>3, <2>1
<1> HIDE DEF L, F
<1>5. pc = L[i] + k /\ pc < L[i + 1]
  BY <1>1, <1>4 DEF Reads
<1>6. L[i + 1] \in Starts \cup {N} /\ L[i + 1] <= N
  <2>1. CASE i + 1 = numblocks
    BY <1>1, <1>3, <2>1
  <2>2. CASE i + 1 # numblocks
    <3>1. i + 1 \in 0 .. numblocks - 1
      BY <1>1, <2>2
    <3>2. L[i + 1] \in Leaders
      BY <1>2, <3>1, ListNext
    <3>3. L[i + 1] \in Starts
      BY <3>2 DEF Aligned
    <3>4. L[i + 1] \in 0 .. N - 1
      BY <1>1, <3>3, StartsFacts
    <3> QED BY <1>1, <3>3, <3>4
  <2> QED BY <2>1, <2>2
<1>7. pc \in Starts /\ pc \in 0 .. N - 1
  <2>1. pc < N
    BY <1>1, <1>4, <1>5, <1>6
  <2> QED BY <1>1, <2>1 DEF Reads
<1>8. BlockOf(pc) = i
  <2>1. L[i] <= pc
    BY <1>1, <1>4, <1>5
  <2> QED BY <1>1, <1>2, <1>5, <2>1, ListCounts
<1>9. Follows(pc) \in Nat /\ Follows(pc) <= N
  <2>1. Follows(pc) \in Nat
    BY <1>1, <1>7, FollowsBehind
  <2>2. Follows(pc) <= N
    BY <1>7 DEF Aligned, Whole, Follows
  <2> QED BY <2>1, <2>2
<1>10. Follows(pc) <= L[i + 1]
  <2>1. CASE L[i + 1] \in Starts
    <3>1. L[i + 1] <= pc \/ Follows(pc) <= L[i + 1]
      BY <1>1, <1>7, <2>1, StartsFacts
    <3> QED BY <1>1, <1>4, <1>5, <3>1
  <2>2. CASE L[i + 1] = N
    BY <1>9, <2>2
  <2> QED BY <1>6, <2>1, <2>2
<1>11. Follows(pc) \in Starts \cup {N}
  <2>1. CASE Follows(pc) < N
    BY <1>1, <1>7, <2>1, StartsFacts
  <2>2. CASE ~(Follows(pc) < N)
    BY <1>1, <1>9, <2>2
  <2> QED BY <2>1, <2>2
<1>12. \A t : At(pc, t) = body[pc + 1]
  BY <1>1, <1>7 DEF At
<1> QED BY <1>4, <1>7, <1>8, <1>9, <1>10, <1>11, <1>12

\* What the instructions before the next one say: whether the last is DONE, and
\* which have a quadruple.
LEMMA OneMore ==
    ASSUME body \in Seq(Byte), body # <<>>, NEW s \in Starts
    PROVE  /\ AfterDone(Follows(s)) <=> IF body[s + 1] \in Silent THEN AfterDone(s)
                                        ELSE body[s + 1] = DONE
           /\ \A r \in Starts : r < Follows(s) <=> r < s \/ r = s
<1> DEFINE Before(p) == {r \in Starts : r < p /\ body[r + 1] \notin Silent}
<1>0. N \in Nat
  BY DEF N
<1>1. s \in Nat /\ s < N /\ Follows(s) \in Nat /\ s < Follows(s)
  <2>1. s \in 0 .. N - 1
    BY StartsFacts
  <2> QED BY <1>0, <2>1, FollowsBehind
<1>2. \A r \in Starts : r \in Nat /\ (r <= s \/ Follows(s) <= r)
  <2>1. \A r \in Starts : r \in 0 .. N - 1 /\ (r <= s \/ Follows(s) <= r)
    BY StartsFacts
  <2> QED BY <1>0, <2>1
<1>3. \A r \in Starts : r < Follows(s) <=> r < s \/ r = s
  BY <1>1, <1>2
<1>4. \A p : AfterDone(p) <=> \E r \in Before(p) : body[r + 1] = DONE /\ \A q \in Before(p) : q <= r
  BY DEF AfterDone
<1>5. Before(Follows(s)) = Before(s) \cup (IF body[s + 1] \in Silent THEN {} ELSE {s})
  BY <1>3
<1>6. \A r \in Before(s) : r \in Nat /\ r < s
  BY <1>2
<1> HIDE DEF Before
<1>7. CASE body[s + 1] \in Silent
  <2>1. Before(Follows(s)) = Before(s)
    BY <1>5, <1>7
  <2>2. AfterDone(Follows(s)) <=> AfterDone(s)
    BY <1>4, <2>1
  <2> QED BY <1>3, <1>7, <2>2
<1>8. CASE body[s + 1] \notin Silent
  <2>1. Before(Follows(s)) = Before(s) \cup {s}
    BY <1>5, <1>8
  <2>2. \A q \in Before(Follows(s)) : q <= s
    BY <1>1, <1>6, <2>1
  <2>3. ASSUME NEW r \in Before(Follows(s)), \A q \in Before(Follows(s)) : q <= r PROVE r = s
    <3>1. s <= r
      BY <2>1, <2>3
    <3>2. r = s \/ r \in Before(s)
      BY <2>1
    <3> QED BY <1>1, <1>6, <3>1, <3>2
  <2>4. AfterDone(Follows(s)) <=> body[s + 1] = DONE
    BY <1>4, <2>1, <2>2, <2>3
  <2> QED BY <1>3, <1>8, <2>4
<1> QED BY <1>7, <1>8

\* The lookup of a jump in bc_to_bb, one byte beyond its target.
LEMMA LookedUp ==
    ASSUME TypeOK, Counters, ListStays, MapExact, phase = "build", Aligned, Intact,
           NEW s \in Starts, body[s + 1] \in Jumps, NEW T \in Leaders, ~ShortBlock(T)
    PROVE  Lookup(T + 1) = BlockOf(T)
<1> DEFINE L == TheList
<1>1. N \in Nat /\ N >= 1 /\ body \in Seq(Byte) /\ body # <<>> /\ numblocks \in 1 .. N
  BY DEF TypeOK, Counters, N
<1>2. IsList(L) /\ Bounded
  BY DEF ListStays, Intact
<1> HIDE DEF L
<1>3. /\ \A a \in 0 .. numblocks : L[a] \in Nat
      /\ \A a, c \in 0 .. numblocks : a < c => L[a] < L[c]
      /\ L[0] = 0 /\ L[numblocks] = N
  BY <1>2, ListType
<1>4. PICK b \in 0 .. numblocks - 1 : L[b] = T
  BY <1>2 DEF IsList
<1>5. /\ b \in 0 .. numblocks /\ b + 1 \in 0 .. numblocks /\ T \in Nat /\ L[b + 1] \in Nat
      /\ T < L[b + 1] /\ L[b + 1] <= N /\ 1 \in 0 .. numblocks /\ 0 \in 0 .. numblocks - 1
  <2>1. b \in 0 .. numblocks /\ b + 1 \in 0 .. numblocks /\ 1 \in 0 .. numblocks
        /\ 0 \in 0 .. numblocks - 1 /\ numblocks \in 0 .. numblocks
    BY <1>1
  <2>2. L[b] < L[b + 1]
    BY <1>1, <1>3, <2>1
  <2>3. b + 1 = numblocks \/ L[b + 1] < L[numblocks]
    BY <1>1, <1>3, <2>1
  <2> QED BY <1>1, <1>3, <1>4, <2>1, <2>2, <2>3
<1>6. NextLeader(T) = L[b + 1] /\ (IsLast(T) <=> b = numblocks - 1)
  BY <1>2, <1>4, ListNext
<1>7. NextLeader(0) = L[1]
  BY <1>2, FirstEnds
<1>8. BlockOf(T) = b
  BY <1>2, <1>4, <1>5, ListCounts
<1>9. T = 0 <=> b = 0
  <2>1. b # 0 => L[0] < L[b]
    BY <1>1, <1>3, <1>5
  <2> QED BY <1>3, <1>4, <2>1
<1>10. CASE T + 1 < L[b + 1]
  <2>1. T + 1 \in 0 .. N - 1 /\ T + 1 \in 0 .. N
    BY <1>1, <1>5, <1>10
  <2>2. BlockOf(T + 1) = b
    <3>1. L[b] <= T + 1 /\ T + 1 \in Int
      BY <1>4, <1>5
    <3> QED BY <1>2, <1>10, <3>1, ListCounts
  <2>3. T + 1 # NextLeader(0) - 1
    <3>1. CASE b = 0
      <4>1. ~(L[1] <= 2)
        BY <1>5, <1>6, <1>9, <3>1 DEF ShortBlock
      <4> QED BY <1>5, <1>7, <1>9, <3>1, <4>1
    <3>2. CASE b # 0
      <4>1. b = 1 \/ L[1] < L[b]
        BY <1>3, <1>5, <3>2
      <4>2. L[1] \in Nat
        BY <1>3, <1>5
      <4> QED BY <1>4, <1>5, <1>7, <4>1, <4>2
    <3> QED BY <3>1, <3>2
  <2>4. bc_to_bb[T + 1] = BlockOf(T + 1)
    BY <1>2, <2>1, <2>3 DEF MapExact
  <2> QED BY <1>8, <2>1, <2>2, <2>4 DEF Lookup
<1>11. CASE ~(T + 1 < L[b + 1])
  <2>1. L[b + 1] = T + 1
    BY <1>5, <1>11
  <2>2. b # 0
    <3>1. ASSUME b = 0 PROVE FALSE
      <4>1. T = 0 /\ L[b + 1] = 1
        BY <1>9, <2>1, <3>1
      <4> QED BY <1>6, <4>1 DEF ShortBlock
    <3> QED BY <3>1
  <2>3. T # 0 /\ IsLast(T)
    BY <1>6, <1>9, <2>1, <2>2 DEF ShortBlock
  <2>4. b = numblocks - 1 /\ T + 1 = N
    <3>1. b = numblocks - 1
      BY <1>6, <2>3
    <3> QED BY <1>1, <1>3, <2>1, <3>1
  <2>5. LastLeader = T
    BY <1>2, <1>4, <2>4, ListLast
  <2>6. T >= 2
    <3>1. ASSUME T = 1 PROVE FALSE
      <4>1. s \in 0 .. N - 1 /\ 0 \in Starts /\ T \in Starts
        BY <1>1, StartsFacts DEF Aligned
      <4>2. Follows(s) <= N
        BY DEF Aligned, Whole, Follows
      <4>3. Follows(s) >= s + 2
        <5>1. body[s + 1] \in 0 .. 255
          BY <1>1, <4>1, FollowsBehind
        <5>2. Length(body[s + 1]) \in {2, 5}
          BY <5>1, Lengths DEF Jumps
        <5> QED BY <4>1, <5>2 DEF Follows
      <4>4. s = 0
        <5>1. Follows(s) \in Nat
          BY <1>1, <4>1, FollowsBehind
        <5> QED BY <1>1, <2>4, <3>1, <4>1, <4>2, <4>3, <5>1
      <4>5. T <= s \/ Follows(s) <= T
        BY <1>1, <4>1, StartsFacts
      <4>6. Follows(s) \in Nat
        BY <1>1, <4>1, FollowsBehind
      <4> QED BY <3>1, <4>3, <4>4, <4>5, <4>6
    <3> QED BY <1>5, <2>3, <3>1
  <2>7. bc_to_bb[N] = numblocks - 1
    BY <1>2, <2>5, <2>6 DEF ListStays
  <2> QED BY <1>1, <1>8, <2>4, <2>7 DEF Lookup
<1> QED BY <1>10, <1>11

\* What build_quad makes of a jump.
LEMMA Aiming ==
    ASSUME TypeOK, Counters, ListStays, MapExact, phase = "build", Aligned, Intact,
           pc \in Starts, NEW t \in Byte
    PROVE  Aims([at |-> pc, op |-> body[pc + 1], dest |-> Destination(body[pc + 1], t)])
<1> DEFINE op == body[pc + 1]
           T == Target(pc)
           quad == [at |-> pc, op |-> op, dest |-> Destination(op, t)]
<1>1. N \in Nat /\ body \in Seq(Byte) /\ body # <<>>
  <2>1. N \in Nat /\ N >= 1 /\ body \in Seq(Byte)
    BY DEF TypeOK, Counters, N
  <2> QED BY <2>1 DEF N
<1>2. pc \in Nat /\ pc < N /\ Follows(pc) <= N /\ op \in 0 .. 255
  <2>1. pc \in 0 .. N - 1
    BY <1>1, StartsFacts
  <2>2. Follows(pc) <= N
    BY DEF Aligned, Whole, Follows
  <2> QED BY <1>1, <2>1, <2>2, FollowsBehind
<1>3. SUFFICES ASSUME op \in Jumps, T \in Leaders, ~ShortBlock(T)
               PROVE  Destination(op, t) = BlockOf(T)
  BY DEF Aims
<1>4. Destination(op, t) = Lookup(T + 1)
  <2>1. CASE op \in Jumps1
    <3>1. Length(op) = 2 /\ op # JUMP_TRUE4
      BY <1>2, <2>1, Lengths
    <3>2. pc + 1 < N
      BY <1>1, <1>2, <3>1 DEF Follows
    <3>3. At(pc + 1, t) = At(pc + 1, 0)
      BY <3>2 DEF At
    <3>4. Char(At(pc + 1, t)) \in Int
      <4>1. pc + 1 \in Nat
        BY <1>2
      <4> QED BY <1>1, <4>1, ReadsInts
    <3>5. T = pc + Char(At(pc + 1, t))
      BY <3>1, <3>3 DEF Target
    <3>6. T + 1 = pc + 1 + Char(At(pc + 1, t))
      BY <1>2, <3>4, <3>5
    <3>7. Destination(op, t) = Lookup(pc + 1 + Char(At(pc + 1, t)))
      BY <2>1, <3>1 DEF Destination
    <3> QED BY <3>6, <3>7
  <2>2. CASE op = JUMP_TRUE4
    <3>1. Length(op) = 5 /\ op \notin Jumps1
      BY <1>2, <2>2, Lengths
    <3>2. pc + 1 < N /\ pc + 1 + 1 < N /\ pc + 1 + 2 < N /\ pc + 1 + 3 < N
      BY <1>1, <1>2, <3>1 DEF Follows
    <3>3. Int4At(pc + 1, t) = Int4At(pc + 1, 0)
      BY <3>2 DEF Int4At, At
    <3>4. Int4At(pc + 1, t) \in Int
      <4>1. pc + 1 \in Nat
        BY <1>2
      <4> QED BY <1>1, <4>1, ReadsInts
    <3>5. T = pc + Int4At(pc + 1, t)
      BY <2>2, <3>3 DEF Target
    <3>6. T + 1 = pc + 1 + Int4At(pc + 1, t)
      BY <1>2, <3>4, <3>5
    <3> QED BY <2>2, <3>1, <3>6 DEF Destination
  <2> QED BY <1>3, <2>1, <2>2 DEF Jumps
<1>5. Lookup(T + 1) = BlockOf(T)
  BY <1>3, LookedUp
<1> QED BY <1>4, <1>5

\* The blocks begin empty, at the first instruction.
LEMMA BuildBegins ==
    ASSUME TypeOK, Counters, ListStays, MapEnd
    PROVE  Reads' /\ Built'
<1>1. /\ N \in Nat /\ N >= 1 /\ body \in Seq(Byte) /\ body # <<>> /\ numblocks \in 1 .. N
      /\ phase = "map" /\ i = numblocks /\ j = N
      /\ phase' = "build" /\ i' = 0 /\ j' = j - numblocks /\ pc' = 0 /\ k' = 0
      /\ blocks' = <<<<>>>> /\ got_done' = FALSE
      /\ UNCHANGED <<body, gap, marks, numblocks, leaders>>
  <2>1. N \in Nat /\ N >= 1 /\ body \in Seq(Byte) /\ numblocks \in 1 .. N
    BY DEF TypeOK, Counters, N
  <2>2. body # <<>>
    BY <2>1 DEF N
  <2>3. i = numblocks /\ j = N
    BY <2>1 DEF MapEnd, Counters, TypeOK
  <2> QED BY <2>1, <2>2, <2>3 DEF MapEnd, scanVars
<1>2. /\ Starts' = Starts /\ N' = N /\ Kept' = Kept /\ (Aligned' <=> Aligned)
      /\ (Intact' <=> Intact) /\ \A p : BlockOf(p)' = BlockOf(p) /\ (AfterDone(p)' <=> AfterDone(p))
  BY <1>1, SameBody, SameMarks
<1>3. Starts \subseteq 0 .. N - 1 /\ 0 \in Starts
  BY <1>1, StartsFacts
<1>4. \A s \in Starts : ~(s < 0)
  BY <1>1, <1>3
<1>5. ASSUME Intact PROVE leaders[j'] = 0 /\ leaders[j' + 1] \in Nat
  <2>1. IsList(TheList)
    BY <1>1, <1>5 DEF ListStays
  <2>2. TheList[0] = 0
    BY <2>1 DEF IsList
  <2>3. leaders[N - numblocks + 0] = 0
    BY <1>1, <2>2 DEF TheList
  <2>4. j' + 1 \in 0 .. N
    BY <1>1
  <2>5. leaders[j' + 1] \in 0 .. N
    BY <2>4 DEF TypeOK
  <2> QED BY <1>1, <2>3, <2>5
<1>6. Reads'
  <2>1. ~AfterDone(0)
    BY <1>4 DEF AfterDone
  <2>2. AfterDone(pc)' <=> AfterDone(0)
    BY <1>1, <1>2 DEF AfterDone
  <2>3. ASSUME Intact PROVE i' < numblocks' /\ pc' = leaders'[j'] + k' /\ pc' <= leaders'[j' + 1]
    BY <1>1, <1>5, <2>3
  <2> QED BY <1>1, <1>2, <1>3, <2>1, <2>2, <2>3 DEF Reads
<1>7. Built'
  <2>1. Len(blocks') = 1 /\ blocks'[1] = <<>>
    BY <1>1
  <2>2. {s \in Kept : s < 0 /\ BlockOf(s) = 1 - 1} = {}
    BY <1>4 DEF Kept
  <2>3. Holds(<<>>, 1, 0)
    BY <2>2 DEF Holds
  <2>4. Holds(blocks[1], 1, pc)'
    BY <1>1, <1>2, <2>1, <2>3 DEF Holds
  <2>5. \A n \in DOMAIN blocks'[1] : Aims(blocks[1][n])'
    BY <2>1
  <2>6. \A b \in 1 .. Len(blocks') : b = 1
    BY <2>1
  <2> QED BY <2>4, <2>5, <2>6 DEF Built
<1> QED BY <1>6, <1>7

\* build_quad keeps to the block, and its quadruple goes where the instruction is.
LEMMA BuildGoesOn ==
    ASSUME TypeOK, Counters, ListStays, MapExact, Reads, Built, BuildQuad
    PROVE  Reads' /\ Built'
<1>1. /\ N \in Nat /\ N >= 1 /\ body \in Seq(Byte) /\ body # <<>> /\ numblocks \in 1 .. N
      /\ phase = "build" /\ phase' = "build" /\ i < numblocks /\ k < leaders[j + 1] - leaders[j]
      /\ i \in Nat /\ pc \in Nat /\ k \in Nat /\ Len(blocks) = i + 1
      /\ UNCHANGED <<body, gap, marks, numblocks, leaders, i, j, bc_to_bb>>
  <2>1. N \in Nat /\ N >= 1 /\ body \in Seq(Byte) /\ numblocks \in 1 .. N
    BY DEF TypeOK, Counters, N
  <2>2. body # <<>>
    BY <2>1 DEF N
  <2> QED BY <2>1, <2>2 DEF BuildQuad, TypeOK, Counters, scanVars
<1>2. /\ Starts' = Starts /\ N' = N /\ Kept' = Kept /\ (Aligned' <=> Aligned) /\ Leaders' = Leaders
      /\ (Intact' <=> Intact)
      /\ \A p : /\ BlockOf(p)' = BlockOf(p) /\ (AfterDone(p)' <=> AfterDone(p))
                /\ (ShortBlock(p)' <=> ShortBlock(p)) /\ Target(p)' = Target(p)
  BY <1>1, SameBody, SameMarks
<1>3. SUFFICES ASSUME Aligned, Intact PROVE Reads' /\ Built'
  BY <1>2 DEF Reads, Built
<1>4. /\ pc \in Starts /\ pc \in 0 .. N - 1 /\ Follows(pc) \in Starts \cup {N}
      /\ BlockOf(pc) = i /\ Follows(pc) <= leaders[j + 1]
      /\ \A t : At(pc, t) = body[pc + 1]
  BY <1>1, <1>3, Reading
<1> DEFINE op == body[pc + 1]
<1>5. PICK t \in After :
        /\ op \in Supported
        /\ k' = k + Length(op) /\ pc' = pc + Length(op)
        /\ blocks' = IF Dropped(op) THEN blocks
                     ELSE [blocks EXCEPT ![i + 1] =
                             Append(@, [at |-> pc, op |-> op, dest |-> Destination(op, t)])]
        /\ got_done' = IF op \in Silent THEN got_done ELSE op = DONE
  BY <1>4 DEF BuildQuad
<1>6. /\ pc = leaders[j] + k /\ (got_done <=> AfterDone(pc))
      /\ \A b \in 1 .. Len(blocks) :
           Holds(blocks[b], b, pc) /\ \A n \in DOMAIN blocks[b] : Aims(blocks[b][n])
  BY <1>1, <1>3 DEF Reads, Built
<1>7. pc' = Follows(pc) /\ Length(op) \in 1 .. 9
  BY <1>1, <1>4, <1>5, FollowsBehind DEF Follows
<1>8. /\ AfterDone(Follows(pc)) <=> IF op \in Silent THEN AfterDone(pc) ELSE op = DONE
      /\ \A r \in Starts : r < Follows(pc) <=> r < pc \/ r = pc
  BY <1>1, <1>4, OneMore
<1>9. PICK f : f = Follows(pc)
  OBVIOUS
<1>10. Reads'
  <2>1. pc' \in Starts' \cup {N'}
    BY <1>2, <1>4, <1>7
  <2>2. pc' = leaders'[j'] + k' /\ pc' <= leaders'[j' + 1] /\ i' < numblocks'
    <3>1. leaders[j] \in Nat
      <4>1. j \in 0 .. N
        BY DEF TypeOK
      <4>2. leaders[j] \in 0 .. N
        BY <4>1 DEF TypeOK
      <4> QED BY <4>2
    <3>2. pc' = leaders[j] + k'
      <4>1. pc = leaders[j] + k /\ pc' = pc + Length(op) /\ k' = k + Length(op)
        BY <1>5, <1>6
      <4>2. k \in Nat /\ Length(op) \in Nat
        BY <1>1, <1>7
      <4>3. \A x, y, z \in Nat : x + y + z = x + (y + z)
        OBVIOUS
      <4> HIDE DEF op
      <4> QED BY <3>1, <4>1, <4>2, <4>3
    <3>3. pc' <= leaders[j + 1]
      BY <1>4, <1>7
    <3> QED BY <1>1, <3>2, <3>3
  <2>3. got_done' <=> AfterDone(pc)'
    <3>1. AfterDone(pc)' <=> AfterDone(f)'
      BY <1>7, <1>9 DEF AfterDone
    <3>2. AfterDone(f)' <=> AfterDone(f)
      BY <1>2
    <3>3. AfterDone(f) <=> AfterDone(Follows(pc))
      BY <1>9
    <3>4. got_done' <=> IF op \in Silent THEN AfterDone(pc) ELSE op = DONE
      <4>1. got_done \in BOOLEAN
        BY DEF TypeOK
      <4>2. CASE op \in Silent
        BY <1>5, <1>6, <4>1, <4>2
      <4>3. CASE op \notin Silent
        BY <1>5, <4>3
      <4> QED BY <4>2, <4>3
    <3> QED BY <1>8, <3>1, <3>2, <3>3, <3>4
  <2> QED BY <2>1, <2>2, <2>3 DEF Reads
<1>11. pc \in Kept <=> ~Dropped(op)
  BY <1>4, <1>6 DEF Kept, Dropped
<1> DEFINE H(b, p) == {s \in Kept : s < p /\ BlockOf(s) = b - 1}
<1>12. \A b \in Nat : H(b, f) = H(b, pc) \cup (IF ~Dropped(op) /\ b = i + 1 THEN {pc} ELSE {})
  <2>1. SUFFICES ASSUME NEW b \in Nat
                 PROVE  H(b, f) = H(b, pc) \cup (IF ~Dropped(op) /\ b = i + 1 THEN {pc} ELSE {})
    OBVIOUS
  <2>2. \A s : s \in H(b, f) <=> s \in Kept /\ s < f /\ BlockOf(s) = b - 1
    OBVIOUS
  <2>3. \A s : s \in H(b, pc) <=> s \in Kept /\ s < pc /\ BlockOf(s) = b - 1
    OBVIOUS
  <2>4. \A s \in Kept : s < f <=> s < pc \/ s = pc
    BY <1>8, <1>9 DEF Kept
  <2>5. ~(pc < pc)
    BY <1>1
  <2> HIDE DEF H, op
  <2>6. CASE b = i + 1
    <3>1. b - 1 = i
      BY <1>1, <2>6
    <3> QED BY <1>4, <1>11, <2>2, <2>3, <2>4, <2>6, <3>1
  <2>7. CASE b # i + 1
    <3>1. b - 1 # i
      BY <1>1, <2>7
    <3> QED BY <1>4, <2>2, <2>3, <2>4, <2>7, <3>1
  <2> QED BY <2>6, <2>7
<1> HIDE DEF op, H
<1>13. ASSUME NEW b \in 1 .. Len(blocks), b # i + 1 \/ Dropped(op), blocks'[b] = blocks[b]
       PROVE  Holds(blocks[b], b, pc)' /\ \A n \in DOMAIN blocks'[b] : Aims(blocks[b][n])'
  <2>1. H(b, f) = H(b, pc)
    <3>1. b \in Nat
      BY <1>1
    <3>2. ~(~Dropped(op) /\ b = i + 1)
      BY <1>13
    <3> QED BY <1>12, <3>1, <3>2
  <2>2. Holds(blocks[b], b, pc) /\ \A n \in DOMAIN blocks[b] : Aims(blocks[b][n])
    BY <1>6
  <2>3. {blocks[b][n].at : n \in DOMAIN blocks[b]} = {s \in Kept : s < f /\ BlockOf(s) = b - 1}
    BY <2>1, <2>2 DEF Holds, H
  <2>4. Holds(blocks[b], b, f)
    BY <2>2, <2>3 DEF Holds
  <2>5. Holds(blocks[b], b, pc)'
    BY <1>2, <1>7, <1>9, <1>13, <2>4 DEF Holds
  <2>6. \A n \in DOMAIN blocks'[b] : Aims(blocks[b][n])'
    BY <1>2, <1>13, <2>2 DEF Aims
  <2> QED BY <2>5, <2>6
<1>14. CASE Dropped(op)
  <2>1. blocks' = blocks
    BY <1>5, <1>14
  <2> QED BY <1>10, <1>13, <1>14, <2>1 DEF Built
<1>15. CASE ~Dropped(op)
  <2> DEFINE quad == [at |-> pc, op |-> op, dest |-> Destination(op, t)]
             c == i + 1
             old == blocks[c]
  <2>1. blocks' = [blocks EXCEPT ![c] = Append(old, quad)]
    BY <1>5, <1>15
  <2>2. /\ Len(blocks') = Len(blocks) /\ c \in 1 .. Len(blocks) /\ blocks'[c] = Append(old, quad)
        /\ \A b \in 1 .. Len(blocks) : b # c => blocks'[b] = blocks[b]
    <3>1. blocks \in Seq(Seq([at : Nat, op : Supported, dest : Block])) /\ c \in 1 .. Len(blocks)
      BY <1>1 DEF TypeOK
    <3> HIDE DEF c, old, quad
    <3> QED BY <2>1, <3>1
  <2>3. old \in Seq([at : Nat, op : Supported, dest : Block])
    <3>1. blocks \in Seq(Seq([at : Nat, op : Supported, dest : Block])) /\ c \in 1 .. Len(blocks)
      BY <1>1 DEF TypeOK
    <3> HIDE DEF c
    <3> QED BY <3>1
  <2>4. /\ DOMAIN Append(old, quad) = 1 .. Len(old) + 1 /\ DOMAIN old = 1 .. Len(old) /\ Len(old) \in Nat
        /\ Append(old, quad)[Len(old) + 1] = quad
        /\ \A n \in 1 .. Len(old) : Append(old, quad)[n] = old[n]
    <3> HIDE DEF old, quad
    <3> DEFINE Q == [at : Nat, op : Supported, dest : Block]
    <3>1. old \in Seq(Q)
      BY <2>3
    <3> HIDE DEF Q
    <3> QED BY <3>1
  <2> HIDE DEF old
  <2>5. Holds(old, c, pc) /\ \A n \in DOMAIN old : Aims(old[n])
    BY <1>6, <2>2 DEF old
  <2>6. H(c, f) = H(c, pc) \cup {pc}
    <3>1. c \in Nat
      BY <1>1
    <3> QED BY <1>12, <1>15, <3>1
  <2>7. quad.at = pc
    OBVIOUS
  <2>8. Aims(quad)
    <3>1. t \in Byte
      BY BlocksAssumption
    <3> QED BY <1>1, <1>3, <1>4, <3>1, Aiming DEF op
  <2> HIDE DEF quad, c
  <2>9. Holds(Append(old, quad), c, f)
    <3> DEFINE new == Append(old, quad)
    <3>1. \A n \in 1 .. Len(old) : old[n].at < pc
      <4>1. \A n \in DOMAIN old : old[n].at \in {s \in Kept : s < pc /\ BlockOf(s) = c - 1}
        BY <2>5 DEF Holds
      <4> QED BY <2>4, <4>1
    <3>2. \A n \in 1 .. Len(old) : new[n].at = old[n].at
      BY <2>4
    <3>3. new[Len(old) + 1].at = pc
      BY <2>4, <2>7
    <3>4. DOMAIN new = 1 .. Len(old) + 1
      BY <2>4
    <3> HIDE DEF new
    <3>5. ASSUME NEW m \in DOMAIN new, NEW n \in DOMAIN new, m < n PROVE new[m].at < new[n].at
      <4>1. m \in 1 .. Len(old) /\ (n \in 1 .. Len(old) \/ n = Len(old) + 1)
        BY <2>4, <3>4, <3>5
      <4>2. CASE n = Len(old) + 1
        BY <3>1, <3>2, <3>3, <4>1, <4>2
      <4>3. CASE n \in 1 .. Len(old)
        <5>1. old[m].at < old[n].at
          BY <2>4, <2>5, <3>5, <4>1, <4>3 DEF Holds
        <5> QED BY <3>2, <4>1, <4>3, <5>1
      <4> QED BY <4>1, <4>2, <4>3
    <3>6. {new[n].at : n \in DOMAIN new} = H(c, f)
      <4>1. {old[n].at : n \in DOMAIN old} = H(c, pc)
        BY <2>5 DEF Holds, H
      <4>2. \A n \in DOMAIN new : n \in 1 .. Len(old) \/ n = Len(old) + 1
        BY <2>4, <3>4
      <4>3. \A n \in DOMAIN old : n \in DOMAIN new /\ n \in 1 .. Len(old)
        BY <2>4, <3>4
      <4>4. Len(old) + 1 \in DOMAIN new
        BY <2>4, <3>4
      <4>5. \A x : x \in {new[n].at : n \in DOMAIN new} <=> x \in {old[n].at : n \in DOMAIN old} \/ x = pc
        BY <2>4, <3>2, <3>3, <4>2, <4>3, <4>4
      <4> QED BY <2>6, <4>1, <4>5
    <3> QED BY <3>5, <3>6 DEF Holds, H, new
  <2>10. \A n \in DOMAIN blocks'[c] : Aims(blocks'[c][n])
    BY <2>2, <2>4, <2>5, <2>8
  <2>11. ASSUME NEW b \in 1 .. Len(blocks')
         PROVE  Holds(blocks[b], b, pc)' /\ \A n \in DOMAIN blocks'[b] : Aims(blocks[b][n])'
    <3>1. CASE b = c
      <4>1. PICK q : q = Append(old, quad)
        OBVIOUS
      <4>2. Holds(q, b, f)
        BY <2>9, <3>1, <4>1
      <4>3. Holds(q, b, f)'
        BY <1>2, <4>2 DEF Holds
      <4>4. blocks'[b] = q /\ pc' = f
        BY <1>7, <1>9, <2>2, <3>1, <4>1
      <4>5. Holds(blocks[b], b, pc)'
        BY <4>3, <4>4 DEF Holds
      <4>6. \A n \in DOMAIN blocks'[b] : Aims(blocks[b][n])'
        BY <1>2, <2>10, <3>1 DEF Aims
      <4> QED BY <4>5, <4>6
    <3>2. CASE b # c
      BY <1>13, <2>2, <3>2 DEF c
    <3> QED BY <3>1, <3>2
  <2> QED BY <1>10, <2>11 DEF Built
<1> QED BY <1>14, <1>15

\* From one block to the next.
LEMMA BuildMovesOn ==
    ASSUME TypeOK, Counters, ListStays, Reads, Built, NextBlock
    PROVE  Reads' /\ Built'
<1>1. /\ N \in Nat /\ N >= 1 /\ body \in Seq(Byte) /\ body # <<>> /\ numblocks \in 1 .. N
      /\ phase = "build" /\ phase' = "build" /\ i < numblocks /\ k >= leaders[j + 1] - leaders[j]
      /\ i \in Nat /\ pc \in Nat /\ k \in Nat /\ j = N - numblocks + i /\ Len(blocks) = i + 1
      /\ i' = i + 1 /\ j' = j + 1 /\ k' = 0
      /\ blocks' = IF i + 1 < numblocks THEN Append(blocks, <<>>) ELSE blocks
      /\ UNCHANGED <<body, gap, marks, numblocks, leaders, pc, got_done>>
  <2>1. N \in Nat /\ N >= 1 /\ body \in Seq(Byte) /\ numblocks \in 1 .. N
    BY DEF TypeOK, Counters, N
  <2>2. body # <<>>
    BY <2>1 DEF N
  <2> QED BY <2>1, <2>2 DEF NextBlock, TypeOK, Counters, scanVars
<1>2. /\ Starts' = Starts /\ N' = N /\ Kept' = Kept /\ (Aligned' <=> Aligned) /\ Leaders' = Leaders
      /\ (Intact' <=> Intact)
      /\ \A p : /\ BlockOf(p)' = BlockOf(p) /\ (AfterDone(p)' <=> AfterDone(p))
                /\ (ShortBlock(p)' <=> ShortBlock(p)) /\ Target(p)' = Target(p)
  BY <1>1, SameBody, SameMarks
<1>3. SUFFICES ASSUME Aligned, Intact PROVE Reads' /\ Built'
  BY <1>2 DEF Reads, Built
<1> DEFINE L == TheList
           F == N - numblocks
<1>4. IsList(L)
  BY <1>1, <1>3 DEF ListStays
<1>5. /\ \A a \in 0 .. numblocks : L[a] \in Nat /\ L[a] = leaders[F + a]
      /\ \A a, c \in 0 .. numblocks : a < c => L[a] < L[c]
      /\ L[numblocks] = N
  <2>1. \A a \in 0 .. numblocks : L[a] = leaders[F + a]
    BY DEF TheList
  <2> HIDE DEF L, F
  <2> QED BY <1>4, <2>1, ListType
<1>6. i \in 0 .. numblocks - 1 /\ i \in 0 .. numblocks /\ i + 1 \in 0 .. numblocks /\ j + 1 = F + (i + 1)
  BY <1>1
<1>7. leaders[j] = L[i] /\ leaders[j + 1] = L[i + 1] /\ L[i] \in Nat /\ L[i + 1] \in Nat
  BY <1>1, <1>5, <1>6
<1>8. /\ pc \in Starts \cup {N} /\ pc = leaders[j] + k /\ pc <= leaders[j + 1]
      /\ (got_done <=> AfterDone(pc))
      /\ \A b \in 1 .. Len(blocks) :
           Holds(blocks[b], b, pc) /\ \A n \in DOMAIN blocks[b] : Aims(blocks[b][n])
  BY <1>1, <1>3 DEF Reads, Built
<1>9. pc = L[i + 1]
  BY <1>1, <1>7, <1>8
<1>10. PICK f : f = pc
  OBVIOUS
<1>11. Reads'
  <2>1. IF i + 1 < numblocks THEN pc = leaders[j + 1] + 0 /\ pc <= leaders[j + 1 + 1] ELSE pc = N
    <3>1. CASE i + 1 < numblocks
      <4>1. i + 2 \in 0 .. numblocks /\ j + 1 + 1 = F + (i + 2)
        BY <1>1, <3>1
      <4>2. L[i + 2] \in Nat /\ leaders[j + 1 + 1] = L[i + 2]
        BY <1>5, <4>1
      <4>3. i + 1 < i + 2
        BY <1>1
      <4>4. L[i + 1] < L[i + 2]
        BY <1>5, <1>6, <4>1, <4>3
      <4> QED BY <1>7, <1>9, <3>1, <4>2, <4>4
    <3>2. CASE ~(i + 1 < numblocks)
      <4>1. i + 1 = numblocks
        BY <1>1, <3>2
      <4> QED BY <1>5, <1>9, <3>2, <4>1
    <3> QED BY <3>1, <3>2
  <2>2. AfterDone(pc)' <=> AfterDone(pc)
    <3>1. AfterDone(pc)' <=> AfterDone(f)'
      BY <1>1, <1>10 DEF AfterDone
    <3>2. AfterDone(f)' <=> AfterDone(f)
      BY <1>2
    <3> QED BY <1>10, <3>1, <3>2
  <2> QED BY <1>1, <1>2, <1>8, <2>1, <2>2 DEF Reads
<1>12. ASSUME NEW b \in 1 .. Len(blocks), blocks'[b] = blocks[b]
       PROVE  Holds(blocks[b], b, pc)' /\ \A n \in DOMAIN blocks'[b] : Aims(blocks[b][n])'
  <2>1. Holds(blocks[b], b, pc) /\ \A n \in DOMAIN blocks[b] : Aims(blocks[b][n])
    BY <1>8
  <2>2. Holds(blocks[b], b, pc)'
    BY <1>1, <1>2, <1>12, <2>1 DEF Holds
  <2>3. \A n \in DOMAIN blocks'[b] : Aims(blocks[b][n])'
    BY <1>2, <1>12, <2>1 DEF Aims
  <2> QED BY <2>2, <2>3
<1>13. CASE i + 1 < numblocks
  <2>1. /\ Len(blocks') = i + 2 /\ blocks'[i + 2] = <<>>
        /\ \A b \in 1 .. Len(blocks) : blocks'[b] = blocks[b]
    <3> DEFINE Q == Seq([at : Nat, op : Supported, dest : Block])
    <3>1. blocks \in Seq(Q)
      BY DEF TypeOK
    <3>2. blocks' = Append(blocks, <<>>) /\ Len(blocks) = i + 1 /\ i + 1 + 1 = i + 2
      BY <1>1, <1>13
    <3> HIDE DEF Q
    <3> QED BY <3>1, <3>2
  <2>2. {s \in Kept : s < pc /\ BlockOf(s) = i + 1} = {}
    <3>1. ASSUME NEW s \in Kept, s < pc, BlockOf(s) = i + 1 PROVE FALSE
      <4>1. s \in 0 .. N - 1
        BY <1>1, StartsFacts DEF Kept
      <4>2. PICK b \in 0 .. numblocks - 1 : L[b] <= s /\ s < L[b + 1]
        BY <1>4, <4>1, Located
      <4>3. BlockOf(s) = b
        BY <1>4, <4>1, <4>2, ListCounts
      <4>4. L[i + 1] <= s
        BY <3>1, <4>2, <4>3
      <4> QED BY <1>1, <1>7, <1>9, <3>1, <4>1, <4>4
    <3> QED BY <3>1
  <2>3. ASSUME NEW b \in 1 .. Len(blocks')
        PROVE  Holds(blocks[b], b, pc)' /\ \A n \in DOMAIN blocks'[b] : Aims(blocks[b][n])'
    <3>1. CASE b = i + 2
      <4>1. blocks'[b] = <<>>
        BY <2>1, <3>1
      <4>2. {s \in Kept : s < pc /\ BlockOf(s) = b - 1} = {}
        <5>1. b - 1 = i + 1
          BY <1>1, <3>1
        <5> QED BY <2>2, <5>1
      <4>3. Holds(blocks[b], b, pc)'
        BY <1>1, <1>2, <4>1, <4>2 DEF Holds
      <4> QED BY <4>1, <4>3
    <3>2. CASE b # i + 2
      <4>1. b \in 1 .. Len(blocks)
        BY <1>1, <2>1, <3>2
      <4> QED BY <1>12, <2>1, <4>1
    <3> QED BY <3>1, <3>2
  <2> QED BY <1>11, <2>3 DEF Built
<1>14. CASE ~(i + 1 < numblocks)
  <2>1. blocks' = blocks
    BY <1>1, <1>14
  <2> QED BY <1>11, <1>12, <2>1 DEF Built
<1> QED BY <1>13, <1>14

\* At the end everything has been read.
LEMMA BuildEnds ==
    ASSUME TypeOK, Counters, ListStays, Reads, Built, Flow
    PROVE  CutExact' /\ TargetsExact'
<1>1. /\ N \in Nat /\ N >= 1 /\ body \in Seq(Byte) /\ body # <<>> /\ numblocks \in 1 .. N
      /\ phase = "build" /\ i = numblocks /\ Len(blocks) = numblocks
      /\ UNCHANGED <<body, gap, marks, numblocks, blocks>>
  <2>1. N \in Nat /\ N >= 1 /\ body \in Seq(Byte) /\ numblocks \in 1 .. N
    BY DEF TypeOK, Counters, N
  <2>2. body # <<>>
    BY <2>1 DEF N
  <2> QED BY <2>1, <2>2 DEF Flow, TypeOK, Counters, scanVars
<1>2. /\ Kept' = Kept /\ (Aligned' <=> Aligned) /\ Leaders' = Leaders /\ (Intact' <=> Intact)
      /\ \A p : /\ BlockOf(p)' = BlockOf(p) /\ (ShortBlock(p)' <=> ShortBlock(p))
                /\ Target(p)' = Target(p)
      /\ \A b : InBlock(b)' = InBlock(b)
  <2>1. /\ Kept' = Kept /\ (Aligned' <=> Aligned) /\ Leaders' = Leaders /\ (Intact' <=> Intact)
        /\ \A p : /\ BlockOf(p)' = BlockOf(p) /\ (ShortBlock(p)' <=> ShortBlock(p))
                  /\ Target(p)' = Target(p)
    BY <1>1, SameBody, SameMarks
  <2>2. ASSUME NEW b PROVE InBlock(b)' = InBlock(b)
    BY <2>1 DEF InBlock
  <2> QED BY <2>1, <2>2
<1>3. ASSUME Aligned, Intact, NEW b \in 1 .. numblocks
      PROVE  /\ \A m, n \in DOMAIN blocks[b] : m < n => blocks[b][m].at < blocks[b][n].at
             /\ {blocks[b][n].at : n \in DOMAIN blocks[b]} = {s \in Kept : BlockOf(s) = b - 1}
             /\ \A n \in DOMAIN blocks[b] : Aims(blocks[b][n])
             /\ DOMAIN blocks[b] = 1 .. Len(blocks[b]) /\ Len(blocks[b]) \in Nat
  <2>1. pc = N
    BY <1>1, <1>3 DEF Reads
  <2>2. Holds(blocks[b], b, N) /\ \A n \in DOMAIN blocks[b] : Aims(blocks[b][n])
    BY <1>1, <1>3, <2>1 DEF Built
  <2>3. \A s \in Kept : s < N
    <3>1. Starts \subseteq 0 .. N - 1
      BY <1>1, StartsFacts
    <3> QED BY <1>1, <3>1 DEF Kept
  <2>4. DOMAIN blocks[b] = 1 .. Len(blocks[b]) /\ Len(blocks[b]) \in Nat
    <3> DEFINE Q == [at : Nat, op : Supported, dest : Block]
    <3>1. blocks \in Seq(Seq(Q))
      BY DEF TypeOK
    <3> HIDE DEF Q
    <3>2. blocks[b] \in Seq(Q)
      BY <1>1, <3>1
    <3> QED BY <3>2
  <2> QED BY <2>2, <2>3, <2>4 DEF Holds
<1>4. CutExact'
  <2>1. ASSUME Aligned, Intact, NEW b \in 1 .. numblocks
        PROVE  /\ \A n \in 1 .. Len(blocks[b]) - 1 : blocks[b][n].at < blocks[b][n + 1].at
               /\ {blocks[b][n].at : n \in 1 .. Len(blocks[b])} = InBlock(b)
    <3> DEFINE quads == blocks[b]
    <3>1. /\ \A m, n \in DOMAIN quads : m < n => quads[m].at < quads[n].at
          /\ {quads[n].at : n \in DOMAIN quads} = InBlock(b)
          /\ DOMAIN quads = 1 .. Len(quads) /\ Len(quads) \in Nat
      BY <1>3, <2>1 DEF InBlock
    <3> HIDE DEF quads
    <3>2. ASSUME NEW n \in 1 .. Len(quads) - 1 PROVE quads[n].at < quads[n + 1].at
      <4>1. n \in 1 .. Len(quads) /\ n + 1 \in 1 .. Len(quads) /\ n < n + 1
        BY <3>1
      <4> QED BY <3>1, <4>1
    <3> QED BY <3>1, <3>2 DEF quads
  <2> QED BY <1>1, <1>2, <2>1 DEF CutExact
<1>5. TargetsExact'
  <2>1. ASSUME Aligned, Intact, NEW b \in 1 .. numblocks, NEW n \in 1 .. Len(blocks[b])
        PROVE  Aims(blocks[b][n])
    BY <1>3, <2>1
  <2> QED BY <1>1, <1>2, <2>1 DEF TargetsExact, Aims
<1> QED BY <1>4, <1>5

\* No step disturbs the blocks.
LEMMA NextBuilt ==
    ASSUME TypeOK, Counters, ListStays, MapExact, Reads, Built, CutExact, TargetsExact,
           [Next]_vars
    PROVE  Reads' /\ Built' /\ CutExact' /\ TargetsExact'
<1> USE DEF scanVars, buildVars
<1>1. CASE UNCHANGED vars
  <2>1. /\ Starts' = Starts /\ N' = N /\ Kept' = Kept /\ (Aligned' <=> Aligned)
        /\ Leaders' = Leaders /\ (Intact' <=> Intact)
        /\ \A p : /\ BlockOf(p)' = BlockOf(p) /\ (ShortBlock(p)' <=> ShortBlock(p))
                  /\ Target(p)' = Target(p) /\ (AfterDone(p)' <=> AfterDone(p))
    BY <1>1, SameBody, SameMarks DEF vars
  <2>2. PICK f : f = pc
    OBVIOUS
  <2>3. AfterDone(pc)' <=> AfterDone(pc)
    <3>1. AfterDone(pc)' <=> AfterDone(f)'
      BY <1>1, <2>2 DEF AfterDone, vars
    <3> QED BY <2>1, <2>2, <3>1
  <2>4. Reads'
    BY <1>1, <2>1, <2>3 DEF vars, Reads
  <2>5. Built'
    BY <1>1, <2>1 DEF vars, Built, Holds, Aims
  <2>6. CutExact'
    <3>1. ASSUME NEW b PROVE InBlock(b)' = InBlock(b)
      BY <2>1 DEF InBlock
    <3> QED BY <1>1, <2>1, <3>1 DEF vars, CutExact
  <2>7. TargetsExact'
    BY <1>1, <2>1 DEF vars, TargetsExact
  <2> QED BY <2>4, <2>5, <2>6, <2>7
<1>2. CASE ScanJump1 \/ ScanJumpTrue4 \/ ScanOther \/ ScanEnd \/ Compress \/ CompressEnd \/ MapBlock
           \/ Unsupported
  <2>1. phase' \in {"scan", "compress", "map", "failed"}
    BY <1>2 DEF ScanJump1, ScanJumpTrue4, ScanOther, ScanEnd, Compress, CompressEnd, MapBlock,
                Unsupported
  <2> QED BY <2>1 DEF Reads, Built, CutExact, TargetsExact
<1>3. CASE MapEnd
  <2>1. phase' = "build"
    BY <1>3 DEF MapEnd
  <2> QED BY <1>3, <2>1, BuildBegins DEF CutExact, TargetsExact
<1>4. CASE BuildQuad
  <2>1. phase' = "build"
    BY <1>4 DEF BuildQuad
  <2> QED BY <1>4, <2>1, BuildGoesOn DEF CutExact, TargetsExact
<1>5. CASE NextBlock
  <2>1. phase' = "build"
    BY <1>5 DEF NextBlock
  <2> QED BY <1>5, <2>1, BuildMovesOn DEF CutExact, TargetsExact
<1>6. CASE Flow
  <2>1. phase' = "done"
    BY <1>6 DEF Flow
  <2> QED BY <1>6, <2>1, BuildEnds DEF Reads, Built
<1> QED BY <1>1, <1>2, <1>3, <1>4, <1>5, <1>6 DEF Next

\* Strengthened: the list keeps its place, and the quadruples so far are those of the
\* instructions already read, each in its block with its destination.
BInv == IInv /\ ListStays /\ Reads /\ Built /\ CutExact /\ TargetsExact

\* The strengthened invariant holds at first, and every step keeps it.
LEMMA Preserved ==
    /\ Init => BInv
    /\ BInv /\ [Next]_vars => BInv'
<1>1. Init => BInv
  BY Inductive DEF Init, BInv, ListStays, Reads, Built, CutExact, TargetsExact
<1>2. ASSUME IInv, [Next]_vars PROVE IInv'
  BY <1>2, NextTypes, NextScans, NextMaps DEF IInv
<1>3. ASSUME BInv, [Next]_vars PROVE BInv'
  <2>1. TypeOK /\ Counters /\ Scans /\ Partition /\ Maps /\ MapExact
    BY <1>3 DEF BInv, IInv
  <2>2. ListStays'
    BY <1>3, <2>1, NextListStays DEF BInv
  <2>3. Reads' /\ Built' /\ CutExact' /\ TargetsExact'
    BY <1>3, <2>1, NextBuilt DEF BInv
  <2> QED BY <1>2, <1>3, <2>2, <2>3 DEF BInv
<1> QED BY <1>1, <1>3

\* In every body whose leaders are instructions, the blocks hold every instruction
\* that gets a quadruple, once, in order, and in the block its position belongs to:
\* a DONE is dropped only behind a DONE, wherever the block boundaries are.
THEOREM CutsRight == Spec => []CutExact
<1>1. BInv => CutExact
  BY DEF BInv
<1> QED BY <1>1, Preserved, PTL DEF Spec

\* And a jump to a leader gets the block that starts there as its destination,
\* unless that block is too short for the lookup one byte beyond it.
THEOREM TargetsRight == Spec => []TargetsExact
<1>1. BInv => TargetsExact
  BY DEF BInv
<1> QED BY <1>1, Preserved, PTL DEF Spec
==============================================================================
