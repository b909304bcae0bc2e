--------------------------- MODULE JitProc_proofs ---------------------------
(***************************************************************************)
(* Proofs about JitProc, for any number of commands, structures, nested    *)
(* calls and recompilations.                                               *)
(***************************************************************************)
EXTENDS JitProc, FiniteSetTheorems, SequenceTheorems, TLAPS

Activation == [proc: Procs, code: Codes]
ProcRec    == [refCount: Nat, code: Codes \cup {NULL}, leaf: BOOLEAN, jit: JIT_Proc]
CodeRec    == [refCount: Nat, procPtr: Procs \cup {NULL}, epoch: Nat]

------------------------------------------------------------------------------
(* Counting.                                                                *)

\* Positions of a sequence that hold a member of T.
Places(s, T) == {i \in DOMAIN s : s[i] \in T}

LEMMA PlacesFinite ==
    ASSUME NEW S, NEW s \in Seq(S), NEW T
    PROVE  IsFiniteSet(Places(s, T)) /\ Cardinality(Places(s, T)) \in Nat
<1>1. IsFiniteSet(DOMAIN s)
  BY FS_Interval, LenProperties
<1> QED
  BY <1>1, FS_Subset, FS_CardinalityType DEF Places

\* Appending an element counts it if it is in T.
LEMMA PlacesAppend ==
    ASSUME NEW S, NEW s \in Seq(S), NEW a \in S, NEW T
    PROVE  Cardinality(Places(Append(s, a), T))
             = Cardinality(Places(s, T)) + (IF a \in T THEN 1 ELSE 0)
<1> DEFINE n == Len(s) + 1
<1>1. n \notin Places(s, T)
  BY DEF Places
<1>2. CASE a \in T
  <2>1. Places(Append(s, a), T) = Places(s, T) \cup {n}
    BY <1>2 DEF Places
  <2> QED
    BY <1>1, <1>2, <2>1, PlacesFinite, FS_AddElement
<1>3. CASE a \notin T
  <2>1. Places(Append(s, a), T) = Places(s, T)
    BY <1>3 DEF Places
  <2> QED
    BY <1>3, <2>1, PlacesFinite
<1> QED
  BY <1>2, <1>3

\* Removing the last element uncounts it if it is in T.
LEMMA PlacesFront ==
    ASSUME NEW S, NEW s \in Seq(S), s # <<>>, NEW T
    PROVE  LET f == SubSeq(s, 1, Len(s) - 1) IN
           /\ f \in Seq(S) /\ Len(f) = Len(s) - 1
           /\ \A i \in DOMAIN f : i \in DOMAIN s /\ f[i] = s[i]
           /\ Cardinality(Places(f, T))
                = Cardinality(Places(s, T)) - (IF s[Len(s)] \in T THEN 1 ELSE 0)
<1> DEFINE f == SubSeq(s, 1, Len(s) - 1)
           a == s[Len(s)]
<1>1. f \in Seq(S) /\ a \in S /\ Len(f) = Len(s) - 1
      /\ \A i \in DOMAIN f : i \in DOMAIN s /\ f[i] = s[i]
  <2>1. Len(s) \in Nat \ {0} /\ DOMAIN s = 1..Len(s)
    BY EmptySeq, LenProperties
  <2>2. a \in S /\ \A i \in 1..(Len(s) - 1) : s[i] \in S
    BY <2>1, ElementOfSeq
  <2>3. f \in Seq(S) /\ Len(f) = Len(s) - 1
        /\ \A i \in 1..(Len(s) - 1) : f[i] = s[1 + i - 1]
    BY <2>1, <2>2, SubSeqProperties
  <2>4. DOMAIN f = 1..(Len(s) - 1)
    BY <2>3, LenProperties
  <2> HIDE DEF f
  <2> QED
    BY <2>1, <2>2, <2>3, <2>4
<1>2. s = Append(f, a)
  <2> DEFINE g == Append(f, a)
  <2> HIDE DEF f
  <2>1. g \in Seq(S) /\ Len(g) = Len(f) + 1 /\ g[Len(f) + 1] = a
        /\ \A i \in 1..Len(f) : g[i] = f[i]
    BY <1>1
  <2>2. Len(f) \in Nat /\ Len(s) = Len(f) + 1 /\ DOMAIN f = 1..Len(f)
    BY <1>1, LenProperties
  <2>3. \A i \in 1..Len(s) : s[i] = g[i]
    BY <1>1, <2>1, <2>2
  <2> HIDE DEF g
  <2>4. s = g
    BY <1>1, <2>1, <2>2, <2>3, SeqEqual
  <2> QED
    BY <2>4 DEF g
<1>3. Cardinality(Places(s, T)) = Cardinality(Places(f, T)) + (IF a \in T THEN 1 ELSE 0)
  <2> HIDE DEF f, a
  <2> QED BY <1>1, <1>2, PlacesAppend
<1>4. Cardinality(Places(f, T)) \in Nat
  <2> HIDE DEF f
  <2> QED BY <1>1, PlacesFinite
<1> QED
  BY <1>1, <1>3, <1>4

\* The number of commands that f maps to x.
Named(f, x) == Cardinality({d \in Cmds : f[d] = x})

LEMMA NamedUpdate ==
    ASSUME NEW f \in [Cmds -> Procs \cup {NULL}], NEW g \in [Cmds -> Procs \cup {NULL}],
           NEW c \in Cmds, \A d \in Cmds : d # c => g[d] = f[d], NEW x \in Procs
    PROVE  /\ Named(f, x) \in Nat
           /\ f[c] = x => Named(f, x) > 0
           /\ Named(g, x)
                = Named(f, x) - (IF f[c] = x THEN 1 ELSE 0) + (IF g[c] = x THEN 1 ELSE 0)
<1> DEFINE A == {d \in Cmds : f[d] = x}
           B == {d \in Cmds : g[d] = x}
<1>1. IsFiniteSet(A) /\ Cardinality(A) \in Nat
  BY FS_Subset, FS_CardinalityType, ProcAssumption
<1>2. c \in A <=> f[c] = x
  OBVIOUS
<1>3. ASSUME f[c] = x PROVE Cardinality(A) > 0
  BY <1>1, <1>2, <1>3, FS_EmptySet
<1>4. CASE g[c] = x
  <2>1. B = A \cup {c}
    BY <1>4
  <2> HIDE DEF A, B
  <2>2. Cardinality(B) = IF c \in A THEN Cardinality(A) ELSE Cardinality(A) + 1
    BY <1>1, <2>1, FS_AddElement
  <2> QED
    BY <1>1, <1>2, <1>3, <1>4, <2>2 DEF Named, A, B
<1>5. CASE g[c] # x
  <2>1. B = A \ {c}
    BY <1>5
  <2> HIDE DEF A, B
  <2>2. Cardinality(B) = IF c \in A THEN Cardinality(A) - 1 ELSE Cardinality(A)
    BY <1>1, <2>1, FS_RemoveElement
  <2> QED
    BY <1>1, <1>2, <1>3, <1>5, <2>2 DEF Named, A, B
<1> QED
  BY <1>4, <1>5

OfProc(p) == {a \in Activation : a.proc = p}
OfCode(k) == {a \in Activation : a.code = k}

\* The counts of the invariant in terms of Places, for any stack s.
LEMMA Counts ==
    ASSUME NEW s \in Seq(Activation)
    PROVE  /\ \A p : {i \in DOMAIN s : s[i].proc = p} = Places(s, OfProc(p))
           /\ \A k : {i \in DOMAIN s : s[i].code = k} = Places(s, OfCode(k))
<1>1. \A i \in DOMAIN s : s[i] \in Activation
  BY ElementOfSeq, LenProperties
<1> QED
  BY <1>1 DEF Places, OfProc, OfCode

LEMMA CountsFinite ==
    ASSUME stack \in Seq(Activation), NEW x
    PROVE  /\ IsFiniteSet(RunBy(x)) /\ Cardinality(RunBy(x)) \in Nat
           /\ IsFiniteSet(RunsOf(x)) /\ Cardinality(RunsOf(x)) \in Nat
<1>1. RunBy(x) = Places(stack, OfProc(x)) /\ RunsOf(x) = Places(stack, OfCode(x))
  BY Counts DEF RunBy, RunsOf
<1> QED
  BY <1>1, PlacesFinite

------------------------------------------------------------------------------
(* The helpers of the model.                                                *)

\* The JIT_Proc macros produce JIT_Proc structures.
LEMMA JitType ==
    /\ JIT_PROCSETUP \in JIT_Proc
    /\ \A j \in JIT_Proc : \A r : OnResult(j, r) \in JIT_Proc
    /\ \A j \in JIT_Proc, k \in Codes, leaf \in BOOLEAN : OnCall(j, k, leaf) \in JIT_Proc
<1> USE ProcAssumption
<1>1. MaxCount \in Nat /\ MaxCount > 0
  BY DEF MaxCount
<1>2. JIT_PROCSETUP \in JIT_Proc
  BY <1>1 DEF JIT_PROCSETUP, JIT_Proc
<1>3. \A j \in JIT_Proc : \A r : OnResult(j, r) \in JIT_Proc
  BY DEF OnResult, JIT_Proc
<1>4. \A j \in JIT_Proc, k \in Codes, leaf \in BOOLEAN : OnCall(j, k, leaf) \in JIT_Proc
  <2> TAKE j \in JIT_Proc, k \in Codes, leaf \in BOOLEAN
  <2>1. AllocTypes(j, k) \in JIT_Proc
    BY DEF AllocTypes, JIT_Proc
  <2>2. \A a \in JIT_Proc : JIT_Compile(a, k, leaf) \in JIT_Proc
    BY DEF JIT_Compile, JIT_Proc
  <2>3. \A a \in JIT_Proc : JIT_UPDATEPROCCOUNT(a) \in JIT_Proc
    BY <1>1 DEF JIT_UPDATEPROCCOUNT, JIT_Proc
  <2> QED
    BY <2>1, <2>2, <2>3 DEF OnCall
<1> QED
  BY <1>2, <1>3, <1>4

\* Dropping a reference touches one structure, which is freed with the last.
LEMMA DropProcEffect ==
    ASSUME NEW pr \in [Procs -> ProcRec], NEW p \in Procs, pr[p].refCount > 0
    PROVE  /\ DropProc(pr, p) \in [Procs -> ProcRec]
           /\ \A x \in Procs : x # p => DropProc(pr, p)[x] = pr[x]
           /\ DropProc(pr, p)[p].refCount = pr[p].refCount - 1
           /\ pr[p].refCount = 1 => DropProc(pr, p)[p] = NoProc
           /\ pr[p].refCount # 1 => /\ DropProc(pr, p)[p].code = pr[p].code
                                    /\ DropProc(pr, p)[p].jit = pr[p].jit
BY JitType DEF DropProc, NoProc, ProcRec

LEMMA DropCodeEffect ==
    ASSUME NEW cd \in [Codes -> CodeRec], NEW k \in Codes, cd[k].refCount > 0
    PROVE  /\ DropCode(cd, k) \in [Codes -> CodeRec]
           /\ \A x \in Codes : x # k => DropCode(cd, k)[x] = cd[x]
           /\ DropCode(cd, k)[k].refCount = cd[k].refCount - 1
           /\ cd[k].refCount = 1 => DropCode(cd, k)[k] = NoCode
           /\ cd[k].refCount # 1 => DropCode(cd, k)[k].procPtr = cd[k].procPtr
BY DEF DropCode, NoCode, CodeRec

------------------------------------------------------------------------------
(* What the invariant says of one structure at a time.                      *)

LEMMA Live ==
    ASSUME IInv
    PROVE  /\ proc \in [Procs -> ProcRec] /\ code \in [Codes -> CodeRec]
           /\ stack \in Seq(Activation) /\ cmd \in [Cmds -> Procs \cup {NULL}]
           /\ \A c \in Cmds : cmd[c] # NULL => cmd[c] \in Procs /\ proc[cmd[c]].refCount > 0
           /\ \A c \in Cmds : cmd[c] # NULL /\ proc[cmd[c]].refCount = 1
                => \A i \in DOMAIN stack : stack[i].proc # cmd[c]
           /\ \A i \in DOMAIN stack : /\ stack[i].proc \in Procs /\ stack[i].code \in Codes
                                      /\ proc[stack[i].proc].refCount > 0
                                      /\ code[stack[i].code].refCount > 0
           /\ \A p \in Procs : proc[p].code # NULL =>
                /\ proc[p].code \in Codes /\ code[proc[p].code].refCount > 0
                /\ code[proc[p].code].refCount = 1 =>
                     \A i \in DOMAIN stack : stack[i].code # proc[p].code
<1> USE ProcAssumption
<1>1. /\ proc \in [Procs -> ProcRec] /\ code \in [Codes -> CodeRec]
      /\ stack \in Seq(Activation) /\ cmd \in [Cmds -> Procs \cup {NULL}]
  BY DEF IInv, TypeOK, ProcRec, CodeRec, Activation
<1>2. \A i \in DOMAIN stack : stack[i] \in Activation
  BY <1>1, ElementOfSeq, LenProperties
<1>3. /\ \A p \in Procs : proc[p].refCount = Named(cmd, p) + Cardinality(RunBy(p))
      /\ \A k \in Codes : code[k].refCount = Body(k) + Cardinality(RunsOf(k))
  BY DEF IInv, RefCountExact, CodeCountExact, NamedBy, Named
<1>4. /\ \A p \in Procs : Named(cmd, p) \in Nat
      /\ \A c \in Cmds : cmd[c] # NULL => cmd[c] \in Procs /\ Named(cmd, cmd[c]) > 0
  <2>1. \A c \in Cmds, p \in Procs : Named(cmd, p) \in Nat /\ (cmd[c] = p => Named(cmd, p) > 0)
    BY <1>1, NamedUpdate
  <2>2. ASSUME NEW p \in Procs, Cmds = {} PROVE Named(cmd, p) \in Nat
    BY <2>2, FS_EmptySet DEF Named
  <2> QED
    BY <1>1, <2>1, <2>2
<1>5. \A p \in Procs : Cardinality(RunBy(p)) \in Nat
                       /\ \A i \in DOMAIN stack : stack[i].proc = p => Cardinality(RunBy(p)) > 0
  <2> TAKE p \in Procs
  <2>1. IsFiniteSet(RunBy(p)) /\ Cardinality(RunBy(p)) \in Nat
    BY <1>1, CountsFinite
  <2>2. ASSUME NEW i \in DOMAIN stack, stack[i].proc = p PROVE Cardinality(RunBy(p)) # 0
    BY <2>1, <2>2, FS_EmptySet DEF RunBy
  <2> QED
    BY <2>1, <2>2
<1>6. \A k \in Codes : Cardinality(RunsOf(k)) \in Nat
                       /\ \A i \in DOMAIN stack : stack[i].code = k => Cardinality(RunsOf(k)) > 0
  <2> TAKE k \in Codes
  <2>1. IsFiniteSet(RunsOf(k)) /\ Cardinality(RunsOf(k)) \in Nat
    BY <1>1, CountsFinite
  <2>2. ASSUME NEW i \in DOMAIN stack, stack[i].code = k PROVE Cardinality(RunsOf(k)) # 0
    BY <2>1, <2>2, FS_EmptySet DEF RunsOf
  <2> QED
    BY <2>1, <2>2
<1>7. \A c \in Cmds : cmd[c] # NULL => cmd[c] \in Procs /\ proc[cmd[c]].refCount > 0
  BY <1>3, <1>4, <1>5
<1>8. \A c \in Cmds : cmd[c] # NULL /\ proc[cmd[c]].refCount = 1
        => \A i \in DOMAIN stack : stack[i].proc # cmd[c]
  BY <1>3, <1>4, <1>5
<1>9. \A i \in DOMAIN stack : /\ stack[i].proc \in Procs /\ stack[i].code \in Codes
                              /\ proc[stack[i].proc].refCount > 0
                              /\ code[stack[i].code].refCount > 0
  <2> TAKE i \in DOMAIN stack
  <2>1. stack[i].proc \in Procs /\ stack[i].code \in Codes
    BY <1>2 DEF Activation
  <2>2. proc[stack[i].proc].refCount > 0
    BY <1>3, <1>4, <1>5, <2>1
  <2>3. Body(stack[i].code) \in Nat
    BY DEF Body
  <2>4. code[stack[i].code].refCount > 0
    BY <1>3, <1>6, <2>1, <2>3
  <2> QED
    BY <2>1, <2>2, <2>4
<1>10. \A p \in Procs : proc[p].code # NULL =>
         /\ proc[p].code \in Codes /\ code[proc[p].code].refCount > 0
         /\ code[proc[p].code].refCount = 1 =>
              \A i \in DOMAIN stack : stack[i].code # proc[p].code
  <2> SUFFICES ASSUME NEW p \in Procs, proc[p].code # NULL
               PROVE  /\ proc[p].code \in Codes /\ code[proc[p].code].refCount > 0
                      /\ code[proc[p].code].refCount = 1 =>
                           \A i \in DOMAIN stack : stack[i].code # proc[p].code
    OBVIOUS
  <2>1. proc[p].code \in Codes
    BY <1>1 DEF ProcRec
  <2>2. Body(proc[p].code) = 1
    BY DEF Body
  <2> QED
    BY <1>3, <1>6, <2>1, <2>2
<1> QED
  BY <1>1, <1>7, <1>8, <1>9, <1>10

\* Dropping a reference to q drops its body's reference to the bytecode with the
\* last one, and no bytecode that is still referenced changes hands.
LEMMA DropBodyEffect ==
    ASSUME NEW cd \in [Codes -> CodeRec], NEW q \in Procs, proc \in [Procs -> ProcRec],
           proc[q].code # NULL => cd[proc[q].code].refCount > 0
    PROVE  LET gone(k) == proc[q].refCount = 1 /\ proc[q].code = k IN
           /\ DropBody(cd, q) \in [Codes -> CodeRec]
           /\ \A k \in Codes :
                /\ ~gone(k) => DropBody(cd, q)[k] = cd[k]
                /\ gone(k) => DropBody(cd, q)[k].refCount = cd[k].refCount - 1
                /\ gone(k) /\ cd[k].refCount = 1 => DropBody(cd, q)[k] = NoCode
                /\ gone(k) /\ cd[k].refCount # 1 => DropBody(cd, q)[k].procPtr = cd[k].procPtr
<1> USE ProcAssumption
<1>1. CASE proc[q].refCount = 1 /\ proc[q].code # NULL
  <2>1. proc[q].code \in Codes
    BY <1>1 DEF ProcRec
  <2>2. DropBody(cd, q) = DropCode(cd, proc[q].code)
    BY <1>1 DEF DropBody
  <2> QED
    BY <1>1, <2>1, <2>2, DropCodeEffect
<1>2. CASE ~(proc[q].refCount = 1 /\ proc[q].code # NULL)
  BY <1>2 DEF DropBody
<1> QED
  BY <1>1, <1>2

\* The structures pr and cd after a command stops naming q (or named nothing).
LEMMA Released ==
    ASSUME IInv, NEW q \in Procs \cup {NULL}, q # NULL => proc[q].refCount > 0,
           NEW pr, pr = IF q = NULL THEN proc ELSE DropProc(proc, q),
           NEW cd, cd = IF q = NULL THEN code ELSE DropBody(code, q)
    PROVE  /\ pr \in [Procs -> ProcRec] /\ cd \in [Codes -> CodeRec]
           /\ \A p \in Procs : /\ pr[p].refCount = proc[p].refCount - (IF p = q THEN 1 ELSE 0)
                               /\ p # q => pr[p] = proc[p]
                               /\ pr[p].refCount = 0 => pr[p] = NoProc
                               /\ pr[p].code # NULL => cd[pr[p].code].procPtr = p
           /\ \A k \in Codes : /\ cd[k].refCount = (IF \E p \in Procs : pr[p].code = k THEN 1 ELSE 0)
                                                      + Cardinality(RunsOf(k))
                               /\ cd[k].refCount = 0 => cd[k] = NoCode
                               /\ cd[k].refCount > 0 => cd[k].procPtr # NULL
           /\ \A i \in DOMAIN stack : cd[stack[i].code].procPtr = stack[i].proc
<1> USE ProcAssumption
<1>1. CASE q = NULL
  <2>1. \A p \in Procs : proc[p].refCount \in Nat
    BY Live DEF ProcRec
  <2>2. pr = proc /\ cd = code
    BY <1>1
  <2>3. /\ \A p \in Procs : proc[p].refCount = 0 => proc[p] = NoProc
        /\ \A p \in Procs : proc[p].code # NULL => code[proc[p].code].procPtr = p
        /\ \A k \in Codes : /\ code[k].refCount = 0 => code[k] = NoCode
                            /\ code[k].refCount > 0 => code[k].procPtr # NULL
        /\ \A i \in DOMAIN stack : code[stack[i].code].procPtr = stack[i].proc
    BY DEF IInv, Owned, RunsOwn
  <2>4. \A k \in Codes : code[k].refCount = (IF \E p \in Procs : proc[p].code = k THEN 1 ELSE 0)
                                            + Cardinality(RunsOf(k))
    BY DEF IInv, CodeCountExact, Body
  <2> QED
    BY <1>1, <2>1, <2>2, <2>3, <2>4, Live
<1>2. CASE q # NULL
  <2> DEFINE gone(k) == proc[q].refCount = 1 /\ proc[q].code = k
  <2>1. /\ pr \in [Procs -> ProcRec]
        /\ \A x \in Procs : x # q => pr[x] = proc[x]
        /\ pr[q].refCount = proc[q].refCount - 1
        /\ proc[q].refCount = 1 => pr[q] = NoProc
        /\ proc[q].refCount # 1 => pr[q].code = proc[q].code
    BY <1>2, Live, DropProcEffect
  <2>2. /\ cd \in [Codes -> CodeRec]
        /\ \A k \in Codes :
             /\ ~gone(k) => cd[k] = code[k]
             /\ gone(k) => cd[k].refCount = code[k].refCount - 1
             /\ gone(k) /\ code[k].refCount = 1 => cd[k] = NoCode
             /\ gone(k) /\ code[k].refCount # 1 => cd[k].procPtr = code[k].procPtr
    BY <1>2, Live, DropBodyEffect
  <2> HIDE DEF gone
  <2>3. \A p \in Procs : /\ proc[p].code # NULL => proc[p].code \in Codes
                         /\ proc[p].refCount \in Nat
    BY Live DEF ProcRec
  <2>4. \A k \in Codes : code[k].refCount \in Nat /\ code[k].procPtr \in Procs \cup {NULL}
    BY Live DEF CodeRec
  <2>5. \A p \in Procs : /\ pr[p].refCount = proc[p].refCount - (IF p = q THEN 1 ELSE 0)
                         /\ p # q => pr[p] = proc[p]
                         /\ pr[p].refCount = 0 => pr[p] = NoProc
    BY <1>2, <2>1, <2>3 DEF IInv, Owned
  <2>6. \A p \in Procs : pr[p].code # NULL =>
          pr[p].code = proc[p].code /\ ~gone(pr[p].code)
    BY <1>2, <2>1 DEF IInv, Owned, NoProc, gone
  <2>7. \A p \in Procs : pr[p].code # NULL => cd[pr[p].code].procPtr = p
    BY <2>2, <2>3, <2>6 DEF IInv, Owned
  <2>8. ASSUME NEW k \in Codes
        PROVE  cd[k].refCount = (IF \E p \in Procs : pr[p].code = k THEN 1 ELSE 0)
                                  + Cardinality(RunsOf(k))
    <3>1. code[k].refCount = (IF \E p \in Procs : proc[p].code = k THEN 1 ELSE 0)
                               + Cardinality(RunsOf(k))
      BY DEF IInv, CodeCountExact, Body
    <3>2. k # NULL
      OBVIOUS
    <3>3. Cardinality(RunsOf(k)) \in Nat
      BY Live, CountsFinite
    <3>4. CASE gone(k)
      <4>1. ~\E p \in Procs : pr[p].code = k
        BY <2>6, <3>2, <3>4
      <4>2. \E p \in Procs : proc[p].code = k
        BY <1>2, <3>4 DEF gone
      <4> QED
        BY <2>2, <3>1, <3>3, <3>4, <4>1, <4>2
    <3>5. CASE ~gone(k)
      <4>1. (\E p \in Procs : pr[p].code = k) <=> (\E p \in Procs : proc[p].code = k)
        BY <1>2, <2>1, <2>6, <3>2, <3>5 DEF gone
      <4> QED
        BY <2>2, <3>1, <3>5, <4>1
    <3> QED
      BY <3>4, <3>5
  <2>9. \A k \in Codes : /\ cd[k].refCount = 0 => cd[k] = NoCode
                         /\ cd[k].refCount > 0 => cd[k].procPtr # NULL
    <3> TAKE k \in Codes
    <3>1. code[k].refCount = 0 => code[k] = NoCode
      BY DEF IInv, Owned
    <3>2. code[k].refCount > 0 => code[k].procPtr # NULL
      BY DEF IInv, Owned
    <3>3. gone(k) => code[k].refCount > 0
      BY <1>2, Live DEF gone
    <3> QED
      BY <2>2, <2>4, <3>1, <3>2, <3>3 DEF NoCode
  <2>10. \A i \in DOMAIN stack : cd[stack[i].code].procPtr = stack[i].proc
    <3> TAKE i \in DOMAIN stack
    <3>1. stack[i].code \in Codes /\ code[stack[i].code].procPtr = stack[i].proc
      BY Live DEF IInv, RunsOwn
    <3>2. gone(stack[i].code) => code[stack[i].code].refCount # 1
      BY <1>2, <3>1, Live DEF gone
    <3> QED
      BY <2>2, <3>1, <3>2
  <2> QED
    BY <2>1, <2>2, <2>5, <2>7, <2>8, <2>9, <2>10
<1> QED
  BY <1>1, <1>2

------------------------------------------------------------------------------
(* Every action keeps the invariant.                                        *)

\* Steps that leave commands, structures and activations alone.
LEMMA QuietKeeps ==
    ASSUME IInv, UNCHANGED <<cmd, proc, code, stack>>,
           epoch' \in Nat, fault' \in {"none", "free", "jump", "types"},
           frame' # NULL => /\ frame' \in Procs
                            /\ proc[frame'].refCount > 0 /\ proc[frame'].code # NULL
    PROVE  IInv'
<1>1. TypeOK'
  BY DEF IInv, TypeOK
<1>2. RefCountExact' /\ CodeCountExact'
  BY DEF IInv, RefCountExact, CodeCountExact, NamedBy, RunBy, RunsOf, Body
<1>3. Owned' /\ FrameLive' /\ RunsOwn'
  BY DEF IInv, Owned, FrameLive, RunsOwn
<1> QED
  BY <1>1, <1>2, <1>3 DEF IInv

LEMMA DeleteKeeps ==
    ASSUME IInv, NEW c \in Cmds, DeleteProc(c)
    PROVE  IInv'
<1> USE ProcAssumption
<1> DEFINE q == cmd[c]
<1>1. q \in Procs /\ proc[q].refCount > 0 /\ cmd' = [cmd EXCEPT ![c] = NULL]
      /\ proc' = DropProc(proc, q) /\ code' = DropBody(code, q)
      /\ UNCHANGED <<stack, frame, epoch, fault>> /\ frame = NULL
  BY Live DEF DeleteProc, Running
<1> HIDE DEF q
<1>2. /\ proc' \in [Procs -> ProcRec] /\ code' \in [Codes -> CodeRec]
      /\ \A p \in Procs : /\ proc'[p].refCount = proc[p].refCount - (IF p = q THEN 1 ELSE 0)
                          /\ proc'[p].refCount = 0 => proc'[p] = NoProc
                          /\ proc'[p].code # NULL => code'[proc'[p].code].procPtr = p
      /\ \A k \in Codes : /\ code'[k].refCount = (IF \E p \in Procs : proc'[p].code = k THEN 1 ELSE 0)
                                                   + Cardinality(RunsOf(k))
                          /\ code'[k].refCount = 0 => code'[k] = NoCode
                          /\ code'[k].refCount > 0 => code'[k].procPtr # NULL
      /\ \A i \in DOMAIN stack : code'[stack[i].code].procPtr = stack[i].proc
  BY <1>1, Released
<1>3. TypeOK'
  BY <1>1, <1>2, Live DEF IInv, TypeOK, ProcRec, CodeRec
<1>4. RefCountExact'
  <2> SUFFICES ASSUME NEW p \in Procs
               PROVE  proc'[p].refCount = Named(cmd', p) + Cardinality(RunBy(p))
    BY <1>1 DEF RefCountExact, NamedBy, RunBy, Named
  <2>1. proc[p].refCount = Named(cmd, p) + Cardinality(RunBy(p))
    BY DEF IInv, RefCountExact, NamedBy, Named
  <2>2. Named(cmd, p) \in Nat /\ Named(cmd', p) = Named(cmd, p) - (IF q = p THEN 1 ELSE 0)
    <3>1. /\ cmd \in [Cmds -> Procs \cup {NULL}] /\ cmd' \in [Cmds -> Procs \cup {NULL}]
          /\ cmd'[c] = NULL /\ \A d \in Cmds : d # c => cmd'[d] = cmd[d]
      BY <1>1, Live
    <3>2. Named(cmd, p) \in Nat
      BY <3>1, NamedUpdate
    <3>3. Named(cmd', p) = Named(cmd, p) - (IF cmd[c] = p THEN 1 ELSE 0) + (IF cmd'[c] = p THEN 1 ELSE 0)
      BY <3>1, NamedUpdate
    <3> QED
      BY <1>1, <3>1, <3>2, <3>3 DEF q
  <2>3. Cardinality(RunBy(p)) \in Nat
    BY Live, CountsFinite
  <2> QED
    BY <1>2, <2>1, <2>2, <2>3
<1>5. CodeCountExact'
  BY <1>1, <1>2 DEF CodeCountExact, RunsOf, Body
<1>6. Owned' /\ FrameLive' /\ RunsOwn'
  BY <1>1, <1>2 DEF Owned, FrameLive, RunsOwn
<1> QED
  BY <1>3, <1>4, <1>5, <1>6 DEF IInv

LEMMA CreateKeeps ==
    ASSUME IInv, NEW c \in Cmds, NEW p \in Procs, NEW leaf \in BOOLEAN, CreateProc(c, p, leaf)
    PROVE  IInv'
<1> USE ProcAssumption
<1> DEFINE q   == cmd[c]
           pr  == IF q = NULL THEN proc ELSE DropProc(proc, q)
           new == [refCount |-> 1, code |-> NULL, leaf |-> leaf, jit |-> JIT_PROCSETUP]
<1>1. /\ q \in Procs \cup {NULL} /\ (q # NULL => proc[q].refCount > 0) /\ q # p
      /\ cmd' = [cmd EXCEPT ![c] = p] /\ proc[p].refCount = 0
      /\ proc' = [pr EXCEPT ![p] = new]
      /\ code' = IF q = NULL THEN code ELSE DropBody(code, q)
      /\ UNCHANGED <<stack, frame, epoch, fault>> /\ frame = NULL
  BY Live DEF CreateProc, Running
<1>2. /\ pr \in [Procs -> ProcRec] /\ code' \in [Codes -> CodeRec]
      /\ \A x \in Procs : /\ pr[x].refCount = proc[x].refCount - (IF x = q THEN 1 ELSE 0)
                          /\ x # q => pr[x] = proc[x]
                          /\ pr[x].refCount = 0 => pr[x] = NoProc
                          /\ pr[x].code # NULL => code'[pr[x].code].procPtr = x
      /\ \A k \in Codes : /\ code'[k].refCount = (IF \E x \in Procs : pr[x].code = k THEN 1 ELSE 0)
                                                   + Cardinality(RunsOf(k))
                          /\ code'[k].refCount = 0 => code'[k] = NoCode
                          /\ code'[k].refCount > 0 => code'[k].procPtr # NULL
      /\ \A i \in DOMAIN stack : code'[stack[i].code].procPtr = stack[i].proc
  BY <1>1, Released
<1> HIDE DEF q, pr
<1>3. proc' \in [Procs -> ProcRec] /\ proc'[p] = new /\ \A x \in Procs : x # p => proc'[x] = pr[x]
  BY <1>1, <1>2, JitType DEF ProcRec
<1>4. pr[p].code = NULL
  BY <1>1, <1>2 DEF NoProc
<1>5. TypeOK'
  BY <1>1, <1>2, <1>3, Live DEF IInv, TypeOK, ProcRec, CodeRec
<1>6. RefCountExact'
  <2> SUFFICES ASSUME NEW x \in Procs
               PROVE  proc'[x].refCount = Named(cmd', x) + Cardinality(RunBy(x))
    BY <1>1 DEF RefCountExact, NamedBy, RunBy, Named
  <2>1. proc[x].refCount = Named(cmd, x) + Cardinality(RunBy(x))
    BY DEF IInv, RefCountExact, NamedBy, Named
  <2>2. Named(cmd, x) \in Nat
        /\ Named(cmd', x) = Named(cmd, x) - (IF q = x THEN 1 ELSE 0) + (IF p = x THEN 1 ELSE 0)
    <3>1. /\ cmd \in [Cmds -> Procs \cup {NULL}] /\ cmd' \in [Cmds -> Procs \cup {NULL}]
          /\ cmd'[c] = p /\ \A d \in Cmds : d # c => cmd'[d] = cmd[d]
      BY <1>1, Live
    <3>2. Named(cmd, x) \in Nat
      BY <3>1, NamedUpdate
    <3>3. Named(cmd', x) = Named(cmd, x) - (IF cmd[c] = x THEN 1 ELSE 0) + (IF cmd'[c] = x THEN 1 ELSE 0)
      BY <3>1, NamedUpdate
    <3> QED
      BY <1>1, <3>1, <3>2, <3>3 DEF q
  <2>3. Cardinality(RunBy(x)) \in Nat
    BY Live, CountsFinite
  <2>4. proc'[x].refCount = IF x = p THEN 1 ELSE pr[x].refCount
    BY <1>3
  <2> QED
    BY <1>1, <1>2, <2>1, <2>2, <2>3, <2>4
<1>7. CodeCountExact'
  <2>1. \A k \in Codes : (\E x \in Procs : proc'[x].code = k) <=> (\E x \in Procs : pr[x].code = k)
    BY <1>3, <1>4
  <2> QED
    BY <1>1, <1>2, <2>1 DEF CodeCountExact, RunsOf, Body
<1>8. Owned'
  BY <1>2, <1>3 DEF Owned
<1>9. FrameLive' /\ RunsOwn'
  BY <1>1, <1>2 DEF FrameLive, RunsOwn
<1> QED
  BY <1>5, <1>6, <1>7, <1>8, <1>9 DEF IInv

\* The bytecodes after p's body is compiled anew into k, for the Proc owner.
LEMMA RecompiledEffect ==
    ASSUME IInv, NEW p \in Procs, NEW k \in FreeCodes, NEW owner \in Procs,
           NEW cd, cd = Recompiled(p, k, owner)
    PROVE  /\ cd \in [Codes -> CodeRec]
           /\ cd[k].refCount = 1 /\ cd[k].procPtr = owner /\ RunsOf(k) = {}
           /\ \A x \in Codes : x # k =>
                cd[x].refCount = (IF \E y \in Procs : y # p /\ proc[y].code = x THEN 1 ELSE 0)
                                   + Cardinality(RunsOf(x))
           /\ \A x \in Codes : /\ cd[x].refCount = 0 => cd[x] = NoCode
                               /\ cd[x].refCount > 0 => cd[x].procPtr # NULL
           /\ \A y \in Procs : /\ proc[y].code # k
                               /\ y # p /\ proc[y].code # NULL => cd[proc[y].code].procPtr = y
           /\ \A i \in DOMAIN stack : cd[stack[i].code].procPtr = stack[i].proc
<1> USE ProcAssumption
<1> DEFINE old == proc[p].code
           fr  == IF old = NULL THEN code ELSE DropCode(code, old)
<1>1. /\ k \in Codes /\ k # NULL /\ code[k].refCount = 0
      /\ epoch \in Nat
      /\ \A y \in Procs : /\ proc[y].code # k
                          /\ proc[y].code # NULL => proc[y].code \in Codes
      /\ \A i \in DOMAIN stack : stack[i].code # k
  BY Live DEF FreeCodes, IInv, TypeOK
<1>2. fr \in [Codes -> CodeRec] /\ \A x \in Codes :
        /\ fr[x].refCount = code[x].refCount - (IF x = old THEN 1 ELSE 0)
        /\ x # old => fr[x] = code[x]
        /\ x = old /\ code[x].refCount = 1 => fr[x] = NoCode
        /\ x = old /\ code[x].refCount # 1 => fr[x].procPtr = code[x].procPtr
  <2>1. CASE old = NULL
    <3>1. \A x \in Codes : code[x].refCount \in Nat /\ x # NULL
      BY Live DEF CodeRec
    <3> QED
      BY <2>1, <3>1, Live
  <2>2. CASE old # NULL
    <3>1. old \in Codes /\ code[old].refCount > 0 /\ code \in [Codes -> CodeRec]
      BY <2>2, Live
    <3>2. \A x \in Codes : code[x].refCount \in Nat
      BY Live DEF CodeRec
    <3> HIDE DEF old
    <3> QED
      BY <2>2, <3>1, <3>2, DropCodeEffect
  <2> QED
    BY <2>1, <2>2
<1>3. cd = [fr EXCEPT ![k] = [refCount |-> 1, procPtr |-> owner, epoch |-> epoch]]
  BY DEF Recompiled
<1> HIDE DEF fr
<1>4. cd \in [Codes -> CodeRec] /\ cd[k].refCount = 1 /\ cd[k].procPtr = owner
      /\ \A x \in Codes : x # k => cd[x] = fr[x]
  BY <1>1, <1>2, <1>3 DEF CodeRec
<1>5. RunsOf(k) = {}
  BY <1>1 DEF RunsOf
<1>6. \A y \in Procs : y # p /\ proc[y].code # NULL => proc[y].code # old
  BY DEF IInv, Owned
<1>7. ASSUME NEW x \in Codes, x # k
      PROVE  cd[x].refCount = (IF \E y \in Procs : y # p /\ proc[y].code = x THEN 1 ELSE 0)
                                + Cardinality(RunsOf(x))
  <2>1. code[x].refCount = (IF \E y \in Procs : proc[y].code = x THEN 1 ELSE 0)
                             + Cardinality(RunsOf(x))
    BY DEF IInv, CodeCountExact, Body
  <2>2. Cardinality(RunsOf(x)) \in Nat /\ x # NULL
    BY Live, CountsFinite
  <2>3. cd[x].refCount = code[x].refCount - (IF x = old THEN 1 ELSE 0)
    BY <1>2, <1>4, <1>7
  <2>4. CASE x = old
    <3>1. ~\E y \in Procs : y # p /\ proc[y].code = x
      BY <1>6, <2>2, <2>4
    <3>2. \E y \in Procs : proc[y].code = x
      BY <2>4
    <3> QED
      BY <2>1, <2>2, <2>3, <2>4, <3>1, <3>2
  <2>5. CASE x # old
    <3>1. (\E y \in Procs : y # p /\ proc[y].code = x) <=> (\E y \in Procs : proc[y].code = x)
      BY <2>5
    <3> QED
      BY <2>1, <2>2, <2>3, <2>5, <3>1
  <2> QED
    BY <2>4, <2>5
<1>8. \A x \in Codes : /\ cd[x].refCount = 0 => cd[x] = NoCode
                       /\ cd[x].refCount > 0 => cd[x].procPtr # NULL
  <2> TAKE x \in Codes
  <2>1. code[x].refCount \in Nat /\ (code[x].refCount = 0 => code[x] = NoCode)
        /\ (code[x].refCount > 0 => code[x].procPtr # NULL)
    BY Live DEF CodeRec, IInv, Owned
  <2>2. x = old => code[x].refCount > 0
    BY Live
  <2>3. CASE x = k
    BY <1>4, <2>3
  <2>4. CASE x # k
    BY <1>2, <1>4, <2>1, <2>2, <2>4 DEF NoCode
  <2> QED
    BY <2>3, <2>4
<1>9. \A y \in Procs : y # p /\ proc[y].code # NULL => cd[proc[y].code].procPtr = y
  BY <1>1, <1>2, <1>4, <1>6 DEF IInv, Owned
<1>10. \A i \in DOMAIN stack : cd[stack[i].code].procPtr = stack[i].proc
  <2> TAKE i \in DOMAIN stack
  <2>1. stack[i].code \in Codes /\ stack[i].code # k
        /\ code[stack[i].code].procPtr = stack[i].proc
    BY <1>1, Live DEF IInv, RunsOwn
  <2>2. stack[i].code = old => code[stack[i].code].refCount # 1
    BY <2>1, Live
  <2> QED
    BY <1>2, <1>4, <2>1, <2>2
<1> QED
  BY <1>1, <1>4, <1>5, <1>7, <1>8, <1>9, <1>10

LEMMA RecompileKeeps ==
    ASSUME IInv, NEW c \in Cmds, NEW k \in Codes, PushRecompile(c, k)
    PROVE  IInv'
<1> USE ProcAssumption
<1> DEFINE p == cmd[c]
<1>1. /\ p \in Procs /\ k \in FreeCodes /\ proc[p].refCount = 1
      /\ code' = Recompiled(p, k, p)
      /\ proc' = [proc EXCEPT ![p].code = k, ![p].jit = ResetJit(p)]
      /\ frame' = p /\ UNCHANGED <<cmd, stack, epoch>>
      /\ fault' \in {"none", "free", "jump", "types"}
  BY Live DEF PushRecompile, ResetFault
<1> HIDE DEF p
<1>2. /\ code' \in [Codes -> CodeRec]
      /\ code'[k].refCount = 1 /\ code'[k].procPtr = p /\ RunsOf(k) = {}
      /\ \A x \in Codes : x # k =>
           code'[x].refCount = (IF \E y \in Procs : y # p /\ proc[y].code = x THEN 1 ELSE 0)
                              + Cardinality(RunsOf(x))
      /\ \A x \in Codes : /\ code'[x].refCount = 0 => code'[x] = NoCode
                          /\ code'[x].refCount > 0 => code'[x].procPtr # NULL
      /\ \A y \in Procs : /\ proc[y].code # k
                          /\ y # p /\ proc[y].code # NULL => code'[proc[y].code].procPtr = y
      /\ \A i \in DOMAIN stack : code'[stack[i].code].procPtr = stack[i].proc
  BY <1>1, RecompiledEffect
<1>3. /\ proc' \in [Procs -> ProcRec] /\ proc'[p].code = k
      /\ \A x \in Procs : proc'[x].refCount = proc[x].refCount /\ (x # p => proc'[x] = proc[x])
  <2>1. proc \in [Procs -> ProcRec] /\ proc[p] \in ProcRec /\ k \in Codes
    BY <1>1, Live
  <2>2. ResetJit(p) \in JIT_Proc
    BY <2>1, JitType DEF ProcRec, ResetJit, JIT_PROCRESET
  <2>3. [proc[p] EXCEPT !.code = k, !.jit = ResetJit(p)] \in ProcRec
    BY <2>1, <2>2 DEF ProcRec
  <2>4. proc' = [proc EXCEPT ![p] = [proc[p] EXCEPT !.code = k, !.jit = ResetJit(p)]]
    BY <1>1, <2>1
  <2>5. /\ proc' \in [Procs -> ProcRec]
        /\ proc'[p] = [proc[p] EXCEPT !.code = k, !.jit = ResetJit(p)]
        /\ \A x \in Procs : x # p => proc'[x] = proc[x]
    BY <1>1, <2>1, <2>3, <2>4
  <2> QED
    BY <1>1, <2>1, <2>5 DEF ProcRec
<1>4. TypeOK'
  BY <1>1, <1>2, <1>3, Live DEF IInv, TypeOK, ProcRec, CodeRec
<1>5. RefCountExact'
  BY <1>1, <1>3 DEF IInv, RefCountExact, NamedBy, RunBy
<1>6. CodeCountExact'
  <2> SUFFICES ASSUME NEW x \in Codes
               PROVE  code'[x].refCount = Body(x)' + Cardinality(RunsOf(x)')
    BY DEF CodeCountExact
  <2>a. RunsOf(x)' = RunsOf(x) /\ Body(x)' = IF \E y \in Procs : proc'[y].code = x THEN 1 ELSE 0
    BY <1>1 DEF RunsOf, Body
  <2>1. CASE x = k
    <3>1. (\E y \in Procs : proc'[y].code = x) /\ Cardinality(RunsOf(x)) = 0
      BY <1>1, <1>2, <1>3, <2>1, FS_EmptySet
    <3>2. code'[x].refCount = 1
      BY <1>2, <2>1
    <3>3. Body(x)' = 1 /\ Cardinality(RunsOf(x)') = 0
      BY <2>a, <3>1
    <3> QED
      BY <3>2, <3>3
  <2>2. CASE x # k
    <3>1. (\E y \in Procs : proc'[y].code = x) <=> (\E y \in Procs : y # p /\ proc[y].code = x)
      BY <1>3, <2>2
    <3> QED
      BY <1>2, <2>2, <2>a, <3>1
  <2> QED
    BY <2>1, <2>2
<1>7. Owned'
  <2>1. \A x \in Procs : proc'[x].code # NULL => code'[proc'[x].code].procPtr = x
    BY <1>2, <1>3
  <2>2. \A x \in Procs : proc'[x].refCount = 0 => proc'[x] = NoProc
    BY <1>1, <1>3 DEF IInv, Owned
  <2> QED
    BY <1>2, <2>1, <2>2 DEF Owned
<1>8. FrameLive' /\ RunsOwn'
  BY <1>1, <1>2, <1>3 DEF FrameLive, RunsOwn
<1> QED
  BY <1>4, <1>5, <1>6, <1>7, <1>8 DEF IInv

LEMMA ReplaceKeeps ==
    ASSUME IInv, NEW c \in Cmds, NEW k \in Codes, NEW p2 \in Procs, NEW garbage \in JIT_Proc,
           PushReplace(c, k, p2, garbage)
    PROVE  IInv'
<1> USE ProcAssumption
<1> DEFINE p == cmd[c]
           new == [refCount |-> 1, code |-> k, leaf |-> proc[p].leaf, jit |-> garbage]
<1>1. /\ p \in Procs /\ k \in FreeCodes /\ proc[p].refCount > 1 /\ proc[p2].refCount = 0
      /\ code' = Recompiled(p, k, p2)
      /\ proc' = [proc EXCEPT ![p].refCount = @ - 1, ![p].code = NULL, ![p].jit = ResetJit(p),
                              ![p2] = new]
      /\ cmd' = [cmd EXCEPT ![c] = p2] /\ frame' = p2 /\ UNCHANGED <<stack, epoch>>
      /\ fault' \in {"none", "free", "jump", "types"}
  BY Live DEF PushReplace, ResetFault, FreeProcs
<1> HIDE DEF p
<1>2. /\ code' \in [Codes -> CodeRec]
      /\ code'[k].refCount = 1 /\ code'[k].procPtr = p2 /\ RunsOf(k) = {}
      /\ \A x \in Codes : x # k =>
           code'[x].refCount = (IF \E y \in Procs : y # p /\ proc[y].code = x THEN 1 ELSE 0)
                              + Cardinality(RunsOf(x))
      /\ \A x \in Codes : /\ code'[x].refCount = 0 => code'[x] = NoCode
                          /\ code'[x].refCount > 0 => code'[x].procPtr # NULL
      /\ \A y \in Procs : /\ proc[y].code # k
                          /\ y # p /\ proc[y].code # NULL => code'[proc[y].code].procPtr = y
      /\ \A i \in DOMAIN stack : code'[stack[i].code].procPtr = stack[i].proc
  BY <1>1, RecompiledEffect
<1>3. p # p2 /\ proc[p2] = NoProc /\ proc[p].refCount \in Nat /\ new \in ProcRec
  BY <1>1, Live DEF IInv, Owned, ProcRec
<1>4. /\ proc' \in [Procs -> ProcRec] /\ proc'[p2] = new
      /\ proc'[p].refCount = proc[p].refCount - 1 /\ proc'[p].code = NULL
      /\ \A x \in Procs : x \notin {p, p2} => proc'[x] = proc[x]
  <2>1. proc \in [Procs -> ProcRec] /\ ResetJit(p) \in JIT_Proc /\ proc[p].refCount - 1 \in Nat
    BY <1>1, <1>3, Live, JitType DEF ProcRec, ResetJit, JIT_PROCRESET
  <2>2. [proc[p] EXCEPT !.refCount = @ - 1, !.code = NULL, !.jit = ResetJit(p)] \in ProcRec
    BY <1>1, <2>1 DEF ProcRec
  <2>3. proc' = [proc EXCEPT ![p] = [proc[p] EXCEPT !.refCount = @ - 1, !.code = NULL, !.jit = ResetJit(p)],
                             ![p2] = new]
    BY <1>1, <1>3, <2>1
  <2> HIDE DEF new
  <2>4. proc' \in [Procs -> ProcRec]
    BY <1>1, <1>3, <2>1, <2>2, <2>3
  <2>5. proc'[p] = [proc[p] EXCEPT !.refCount = @ - 1, !.code = NULL, !.jit = ResetJit(p)]
    BY <1>1, <1>3, <2>1, <2>3
  <2>6. proc[p] \in ProcRec
    BY <1>1, <2>1
  <2> QED
    BY <1>1, <1>3, <2>1, <2>3, <2>4, <2>5, <2>6 DEF ProcRec
<1>5. TypeOK'
  BY <1>1, <1>2, <1>4, Live DEF IInv, TypeOK, ProcRec, CodeRec
<1>6. RefCountExact'
  <2> SUFFICES ASSUME NEW x \in Procs
               PROVE  proc'[x].refCount = Named(cmd', x) + Cardinality(RunBy(x))
    BY <1>1 DEF RefCountExact, NamedBy, RunBy, Named
  <2>1. proc[x].refCount = Named(cmd, x) + Cardinality(RunBy(x))
    BY DEF IInv, RefCountExact, NamedBy, Named
  <2>2. Named(cmd, x) \in Nat
        /\ Named(cmd', x) = Named(cmd, x) - (IF p = x THEN 1 ELSE 0) + (IF p2 = x THEN 1 ELSE 0)
    <3>1. /\ cmd \in [Cmds -> Procs \cup {NULL}] /\ cmd' \in [Cmds -> Procs \cup {NULL}]
          /\ cmd'[c] = p2 /\ \A d \in Cmds : d # c => cmd'[d] = cmd[d]
      BY <1>1, Live
    <3>2. Named(cmd, x) \in Nat
      BY <3>1, NamedUpdate
    <3>3. Named(cmd', x) = Named(cmd, x) - (IF cmd[c] = x THEN 1 ELSE 0) + (IF cmd'[c] = x THEN 1 ELSE 0)
      BY <3>1, NamedUpdate
    <3> QED
      BY <3>1, <3>2, <3>3 DEF p
  <2>3. Cardinality(RunBy(x)) \in Nat
    BY Live, CountsFinite
  <2>4. proc'[x].refCount = IF x = p THEN proc[x].refCount - 1
                            ELSE IF x = p2 THEN 1 ELSE proc[x].refCount
    BY <1>3, <1>4
  <2> QED
    BY <1>1, <1>3, <2>1, <2>2, <2>3, <2>4
<1>7. CodeCountExact'
  <2> SUFFICES ASSUME NEW x \in Codes
               PROVE  code'[x].refCount = Body(x)' + Cardinality(RunsOf(x)')
    BY DEF CodeCountExact
  <2>a. RunsOf(x)' = RunsOf(x) /\ Body(x)' = IF \E y \in Procs : proc'[y].code = x THEN 1 ELSE 0
    BY <1>1 DEF RunsOf, Body
  <2>1. CASE x = k
    <3>1. (\E y \in Procs : proc'[y].code = x) /\ Cardinality(RunsOf(x)) = 0
      BY <1>1, <1>2, <1>4, <2>1, FS_EmptySet
    <3>2. code'[x].refCount = 1
      BY <1>2, <2>1
    <3>3. Body(x)' = 1 /\ Cardinality(RunsOf(x)') = 0
      BY <2>a, <3>1
    <3> QED
      BY <3>2, <3>3
  <2>2. CASE x # k
    <3>1. (\E y \in Procs : proc'[y].code = x) <=> (\E y \in Procs : y # p /\ proc[y].code = x)
      BY <1>3, <1>4, <2>2 DEF NoProc
    <3> QED
      BY <1>2, <2>2, <2>a, <3>1
  <2> QED
    BY <2>1, <2>2
<1>8. Owned'
  <2>1. \A x \in Procs : proc'[x].code # NULL => code'[proc'[x].code].procPtr = x
    BY <1>2, <1>4
  <2>2. \A x \in Procs : proc'[x].refCount = 0 => proc'[x] = NoProc
    BY <1>1, <1>3, <1>4 DEF IInv, Owned
  <2> QED
    BY <1>2, <2>1, <2>2 DEF Owned
<1>9. FrameLive' /\ RunsOwn'
  BY <1>1, <1>2, <1>4 DEF FrameLive, RunsOwn
<1> QED
  BY <1>5, <1>6, <1>7, <1>8, <1>9 DEF IInv

\* Entering the interpreter takes one reference to the Proc and one to its bytecode.
LEMMA EnterKeeps ==
    ASSUME IInv, EnterInterpreted
    PROVE  IInv'
<1> USE ProcAssumption
<1> DEFINE p == frame
           k == proc[frame].code
           a == [proc |-> p, code |-> k]
<1>1. /\ p \in Procs /\ k \in Codes /\ proc[p].refCount > 0 /\ code[k].refCount > 0
      /\ proc' = [proc EXCEPT ![p].refCount = @ + 1, ![p].jit = Called]
      /\ code' = [code EXCEPT ![k].refCount = @ + 1]
      /\ stack' = Append(stack, a) /\ frame' = NULL /\ UNCHANGED <<cmd, epoch, fault>>
      /\ code[k].procPtr = p
  BY Live DEF EnterInterpreted, IInv, TypeOK, FrameLive, Owned
<1>2. Called \in JIT_Proc
  <2>1. proc[p].jit \in JIT_Proc /\ proc[p].leaf \in BOOLEAN
    BY <1>1, Live DEF ProcRec
  <2> QED
    BY <1>1, <2>1, JitType DEF Called
<1> HIDE DEF k, p
<1>3. /\ proc' \in [Procs -> ProcRec]
      /\ \A x \in Procs : /\ proc'[x].refCount = proc[x].refCount + (IF x = p THEN 1 ELSE 0)
                          /\ proc'[x].code = proc[x].code
                          /\ x # p => proc'[x] = proc[x]
  <2>1. proc \in [Procs -> ProcRec] /\ proc[p] \in ProcRec /\ proc[p].refCount + 1 \in Nat
    BY <1>1, Live DEF ProcRec
  <2>2. [proc[p] EXCEPT !.refCount = @ + 1, !.jit = Called] \in ProcRec
    BY <1>2, <2>1 DEF ProcRec
  <2>3. proc' = [proc EXCEPT ![p] = [proc[p] EXCEPT !.refCount = @ + 1, !.jit = Called]]
    BY <1>1, <2>1
  <2>4. proc'[p] = [proc[p] EXCEPT !.refCount = @ + 1, !.jit = Called]
        /\ \A x \in Procs : x # p => proc'[x] = proc[x]
    BY <1>1, <2>1, <2>3
  <2>5. proc' \in [Procs -> ProcRec]
    BY <2>1, <2>2, <2>3
  <2>6. \A x \in Procs : proc[x].refCount \in Nat
    BY <2>1 DEF ProcRec
  <2> QED
    BY <1>1, <2>1, <2>4, <2>5, <2>6 DEF ProcRec
<1>4. /\ code' \in [Codes -> CodeRec]
      /\ \A x \in Codes : /\ code'[x].refCount = code[x].refCount + (IF x = k THEN 1 ELSE 0)
                          /\ code'[x].procPtr = code[x].procPtr
                          /\ x # k => code'[x] = code[x]
  <2>1. code \in [Codes -> CodeRec] /\ code[k] \in CodeRec
    BY <1>1, Live
  <2>2. [code[k] EXCEPT !.refCount = @ + 1] \in CodeRec
    BY <2>1 DEF CodeRec
  <2>3. code' = [code EXCEPT ![k] = [code[k] EXCEPT !.refCount = @ + 1]]
    BY <1>1, <2>1
  <2>4. code'[k] = [code[k] EXCEPT !.refCount = @ + 1]
        /\ \A x \in Codes : x # k => code'[x] = code[x]
    BY <1>1, <2>1, <2>3
  <2>5. code' \in [Codes -> CodeRec]
    BY <2>1, <2>2, <2>3
  <2>6. \A x \in Codes : code[x].refCount \in Nat
    BY <2>1 DEF CodeRec
  <2> QED
    BY <1>1, <2>1, <2>4, <2>5, <2>6 DEF CodeRec
<1>5. a \in Activation /\ stack \in Seq(Activation) /\ stack' \in Seq(Activation)
      /\ DOMAIN stack' = 1..Len(stack) + 1 /\ DOMAIN stack = 1..Len(stack)
      /\ stack'[Len(stack) + 1] = a /\ \A i \in 1..Len(stack) : stack'[i] = stack[i]
  BY <1>1, Live, LenProperties, AppendProperties DEF Activation
<1>6. TypeOK'
  BY <1>1, <1>3, <1>4, <1>5, Live DEF IInv, TypeOK, ProcRec, CodeRec, Activation
<1>7. /\ \A x : Cardinality(RunBy(x)') = Cardinality(RunBy(x)) + (IF p = x THEN 1 ELSE 0)
      /\ \A x : Cardinality(RunsOf(x)') = Cardinality(RunsOf(x)) + (IF k = x THEN 1 ELSE 0)
  <2>1. /\ \A x : RunBy(x)' = Places(stack', OfProc(x))
        /\ \A x : RunsOf(x)' = Places(stack', OfCode(x))
    BY <1>5, Counts DEF RunBy, RunsOf
  <2>2. /\ \A x : RunBy(x) = Places(stack, OfProc(x))
        /\ \A x : RunsOf(x) = Places(stack, OfCode(x))
    BY <1>5, Counts DEF RunBy, RunsOf
  <2>3. \A T : Cardinality(Places(stack', T)) = Cardinality(Places(stack, T)) + (IF a \in T THEN 1 ELSE 0)
    BY <1>1, <1>5, PlacesAppend
  <2>4. \A x : (a \in OfProc(x) <=> p = x) /\ (a \in OfCode(x) <=> k = x)
    BY <1>5 DEF OfProc, OfCode
  <2> QED
    BY <2>1, <2>2, <2>3, <2>4
<1>8. RefCountExact'
  <2> SUFFICES ASSUME NEW x \in Procs
               PROVE  proc'[x].refCount = Cardinality(NamedBy(x)') + Cardinality(RunBy(x)')
    BY DEF RefCountExact
  <2>1. proc[x].refCount = Cardinality(NamedBy(x)) + Cardinality(RunBy(x))
    BY DEF IInv, RefCountExact
  <2>2. NamedBy(x)' = NamedBy(x)
    BY <1>1 DEF NamedBy
  <2>3. Cardinality(NamedBy(x)) \in Nat
    BY FS_Subset, FS_CardinalityType DEF NamedBy
  <2>4. Cardinality(RunBy(x)) \in Nat
    BY Live, CountsFinite
  <2> QED
    BY <1>3, <1>7, <2>1, <2>2, <2>3, <2>4
<1>9. CodeCountExact'
  <2> SUFFICES ASSUME NEW x \in Codes
               PROVE  code'[x].refCount = Body(x)' + Cardinality(RunsOf(x)')
    BY DEF CodeCountExact
  <2>1. code[x].refCount = Body(x) + Cardinality(RunsOf(x))
    BY DEF IInv, CodeCountExact
  <2>2. Body(x)' = Body(x) /\ Body(x) \in Nat
    BY <1>3 DEF Body
  <2>3. Cardinality(RunsOf(x)) \in Nat
    BY Live, CountsFinite
  <2> QED
    BY <1>4, <1>7, <2>1, <2>2, <2>3
<1>10. Owned'
  <2>1. \A x \in Procs : proc[x].refCount \in Nat
    BY Live DEF ProcRec
  <2>2. \A x \in Codes : code[x].refCount \in Nat
    BY Live DEF CodeRec
  <2>3. \A x \in Procs : proc'[x].code # NULL => code'[proc'[x].code].procPtr = x
    BY <1>3, <1>4, Live DEF IInv, Owned
  <2>4. \A x \in Procs : proc'[x].refCount = 0 => proc'[x] = NoProc
    BY <1>3, <2>1 DEF IInv, Owned
  <2>5. \A x \in Codes : /\ code'[x].refCount = 0 => code'[x] = NoCode
                         /\ code'[x].refCount > 0 => code'[x].procPtr # NULL
    BY <1>1, <1>4, <2>2 DEF IInv, Owned
  <2> QED
    BY <2>3, <2>4, <2>5 DEF Owned
<1>11. FrameLive'
  BY <1>1 DEF FrameLive
<1>12. RunsOwn'
  <2> SUFFICES ASSUME NEW i \in DOMAIN stack' PROVE code'[stack'[i].code].procPtr = stack'[i].proc
    BY DEF RunsOwn
  <2>1. CASE i = Len(stack) + 1
    BY <1>1, <1>4, <1>5, <2>1
  <2>2. CASE i # Len(stack) + 1
    <3>1. i \in DOMAIN stack /\ stack'[i] = stack[i]
      BY <1>5, <2>2, LenProperties
    <3>2. stack[i].code \in Codes /\ code[stack[i].code].procPtr = stack[i].proc
      BY <3>1, Live DEF IInv, RunsOwn
    <3> QED
      BY <1>4, <3>1, <3>2
  <2> QED
    BY <2>1, <2>2
<1> QED
  BY <1>6, <1>8, <1>9, <1>10, <1>11, <1>12 DEF IInv

LEMMA NativeKeeps ==
    ASSUME IInv, NEW r, EnterNative(r)
    PROVE  IInv'
<1> USE ProcAssumption
<1> DEFINE p == frame
<1>1. /\ p \in Procs /\ proc[p].refCount > 0 /\ proc[p].code \in Codes
      /\ proc' = [proc EXCEPT ![p].jit = OnResult(Called, r)]
      /\ frame' = NULL /\ UNCHANGED <<cmd, code, stack, epoch, fault>>
  BY Live DEF EnterNative, IInv, TypeOK, FrameLive
<1>2. OnResult(Called, r) \in JIT_Proc
  <2>1. proc[p].jit \in JIT_Proc /\ proc[p].leaf \in BOOLEAN
    BY <1>1, Live DEF ProcRec
  <2> QED
    BY <1>1, <2>1, JitType DEF Called
<1> HIDE DEF p
<1>3. /\ proc' \in [Procs -> ProcRec]
      /\ \A x \in Procs : /\ proc'[x].refCount = proc[x].refCount
                          /\ proc'[x].code = proc[x].code
                          /\ x # p => proc'[x] = proc[x]
  BY <1>1, <1>2, Live, SMTT(40) DEF ProcRec
<1>4. TypeOK'
  BY <1>1, <1>3, Live DEF IInv, TypeOK, ProcRec
<1>5. RefCountExact' /\ CodeCountExact'
  BY <1>1, <1>3 DEF IInv, RefCountExact, CodeCountExact, NamedBy, RunBy, RunsOf, Body
<1>6. Owned' /\ FrameLive' /\ RunsOwn'
  BY <1>1, <1>3 DEF IInv, Owned, FrameLive, RunsOwn
<1> QED
  BY <1>4, <1>5, <1>6 DEF IInv

\* Leaving drops the activation's two references; the last one to a deleted or
\* replaced Proc takes its body along.
LEMMA LeaveKeeps ==
    ASSUME IInv, NEW r, Leave(r)
    PROVE  IInv'
<1> USE ProcAssumption
<1> DEFINE p  == Top.proc
           k  == Top.code
           pr == [proc EXCEPT ![p].jit = OnResult(@, r)]
           cd == DropCode(code, k)
           gone(x) == proc[p].refCount = 1 /\ proc[p].code = x
<1>1. stack # <<>> /\ stack \in Seq(Activation) /\ Len(stack) \in DOMAIN stack
  BY Live, EmptySeq, LenProperties DEF Leave
<1>2. /\ p \in Procs /\ k \in Codes /\ proc[p].refCount > 0 /\ code[k].refCount > 0
      /\ proc' = DropProc(pr, p) /\ code' = DropBody(cd, p)
      /\ stack' = SubSeq(stack, 1, Len(stack) - 1)
      /\ frame = NULL /\ UNCHANGED <<cmd, frame, epoch, fault>>
      /\ p = stack[Len(stack)].proc /\ k = stack[Len(stack)].code
  BY <1>1, Live DEF Leave, Top
<1> HIDE DEF p, k
<1>3. /\ stack' \in Seq(Activation)
      /\ \A i \in DOMAIN stack' : i \in DOMAIN stack /\ stack'[i] = stack[i]
      /\ \A T : Cardinality(Places(stack', T))
                  = Cardinality(Places(stack, T)) - (IF stack[Len(stack)] \in T THEN 1 ELSE 0)
  BY <1>1, <1>2, PlacesFront
<1>4. /\ \A x : Cardinality(RunBy(x)') = Cardinality(RunBy(x)) - (IF p = x THEN 1 ELSE 0)
      /\ \A x : Cardinality(RunsOf(x)') = Cardinality(RunsOf(x)) - (IF k = x THEN 1 ELSE 0)
      /\ \A x, i : i \in RunsOf(x)' => Cardinality(RunsOf(x)') > 0
  <2>1. /\ \A x : RunBy(x)' = Places(stack', OfProc(x))
        /\ \A x : RunsOf(x)' = Places(stack', OfCode(x))
    BY <1>3, Counts DEF RunBy, RunsOf
  <2>2. /\ \A x : RunBy(x) = Places(stack, OfProc(x))
        /\ \A x : RunsOf(x) = Places(stack, OfCode(x))
    BY <1>1, Counts DEF RunBy, RunsOf
  <2>3. \A x : /\ stack[Len(stack)] \in OfProc(x) <=> p = x
               /\ stack[Len(stack)] \in OfCode(x) <=> k = x
    BY <1>1, <1>2 DEF OfProc, OfCode
  <2>4. ASSUME NEW x, NEW i \in RunsOf(x)' PROVE Cardinality(RunsOf(x)') > 0
    <3>1. IsFiniteSet(RunsOf(x)') /\ Cardinality(RunsOf(x)') \in Nat
      BY <1>3, <2>1, PlacesFinite
    <3>2. Cardinality(RunsOf(x)') # 0
      BY <2>4, <3>1, FS_EmptySet
    <3> QED
      BY <3>1, <3>2
  <2> QED
    BY <1>3, <2>1, <2>2, <2>3, <2>4
<1>5. /\ \A x \in Codes : /\ code[x].refCount \in Nat
                          /\ code[x].refCount = Body(x) + Cardinality(RunsOf(x))
                          /\ code[x].refCount = 0 => code[x] = NoCode
      /\ \A x : Cardinality(RunsOf(x)) \in Nat /\ Body(x) \in {0, 1}
      /\ Cardinality(RunsOf(k)) > 0
  <2>1. Cardinality(RunsOf(k)) > 0
    <3>1. IsFiniteSet(RunsOf(k)) /\ Cardinality(RunsOf(k)) \in Nat /\ Len(stack) \in RunsOf(k)
      BY <1>1, <1>2, CountsFinite DEF RunsOf
    <3>2. Cardinality(RunsOf(k)) # 0
      BY <3>1, FS_EmptySet
    <3> QED
      BY <3>1, <3>2
  <2>2. \A x \in Codes : code[x].refCount \in Nat
    BY Live DEF CodeRec
  <2> QED
    BY <1>1, <2>1, <2>2, CountsFinite DEF Body, IInv, CodeCountExact, Owned
<1>6. /\ proc' \in [Procs -> ProcRec]
      /\ \A y \in Procs : /\ proc'[y].refCount = proc[y].refCount - (IF y = p THEN 1 ELSE 0)
                          /\ y # p => proc'[y] = proc[y]
      /\ proc[p].refCount = 1 => proc'[p] = NoProc
      /\ proc[p].refCount # 1 => proc'[p].code = proc[p].code
  <2>1. proc \in [Procs -> ProcRec] /\ proc[p] \in ProcRec
    BY <1>2, Live
  <2>2. [proc[p] EXCEPT !.jit = OnResult(@, r)] \in ProcRec
    BY <2>1, JitType DEF ProcRec
  <2>3. pr \in [Procs -> ProcRec] /\ pr[p] = [proc[p] EXCEPT !.jit = OnResult(@, r)]
        /\ \A y \in Procs : y # p => pr[y] = proc[y]
    BY <1>2, <2>1, <2>2
  <2>4. pr[p].refCount = proc[p].refCount /\ pr[p].code = proc[p].code
    BY <2>1, <2>3 DEF ProcRec
  <2>5. \A y \in Procs : proc[y].refCount \in Nat
    BY <2>1 DEF ProcRec
  <2> HIDE DEF pr
  <2>6. /\ DropProc(pr, p) \in [Procs -> ProcRec]
        /\ \A y \in Procs : y # p => DropProc(pr, p)[y] = pr[y]
        /\ DropProc(pr, p)[p].refCount = pr[p].refCount - 1
        /\ pr[p].refCount = 1 => DropProc(pr, p)[p] = NoProc
        /\ pr[p].refCount # 1 => DropProc(pr, p)[p].code = pr[p].code
    <3>1. p \in Procs /\ pr[p].refCount > 0
      BY <1>2, <2>4
    <3> QED
      BY <2>3, <3>1, DropProcEffect
  <2> QED
    BY <1>2, <2>3, <2>4, <2>5, <2>6
<1>7. /\ cd \in [Codes -> CodeRec]
      /\ \A x \in Codes : /\ cd[x].refCount = code[x].refCount - (IF x = k THEN 1 ELSE 0)
                          /\ cd[x].refCount = 0 => cd[x] = NoCode
                          /\ cd[x].refCount # 0 => cd[x].procPtr = code[x].procPtr
  <2>1. code \in [Codes -> CodeRec] /\ k \in Codes /\ code[k].refCount > 0
    BY <1>2, Live
  <2>2. /\ cd \in [Codes -> CodeRec]
        /\ \A x \in Codes : x # k => cd[x] = code[x]
        /\ cd[k].refCount = code[k].refCount - 1
        /\ code[k].refCount = 1 => cd[k] = NoCode
        /\ code[k].refCount # 1 => cd[k].procPtr = code[k].procPtr
    BY <2>1, DropCodeEffect
  <2> HIDE DEF cd
  <2> QED
    BY <1>2, <1>5, <2>2, SMTT(40)
<1> HIDE DEF cd
<1>8. proc[p].code # NULL => cd[proc[p].code].refCount > 0
  <2> SUFFICES ASSUME proc[p].code # NULL PROVE cd[proc[p].code].refCount > 0
    OBVIOUS
  <2>1. proc[p].code \in Codes /\ Body(proc[p].code) = 1
    BY <1>2, Live DEF Body
  <2> QED
    BY <1>5, <1>7, <2>1
<1>9. /\ code' \in [Codes -> CodeRec]
      /\ \A x \in Codes :
           /\ code'[x].refCount = code[x].refCount - (IF x = k THEN 1 ELSE 0) - (IF gone(x) THEN 1 ELSE 0)
           /\ code'[x].refCount = 0 => code'[x] = NoCode
           /\ code'[x].refCount # 0 => code'[x].procPtr = code[x].procPtr
  <2>1. \A x \in Codes : cd[x].refCount \in Nat
    BY <1>7 DEF CodeRec
  <2>2. /\ code' \in [Codes -> CodeRec]
        /\ \A x \in Codes :
             /\ ~gone(x) => code'[x] = cd[x]
             /\ gone(x) => code'[x].refCount = cd[x].refCount - 1
             /\ gone(x) /\ cd[x].refCount = 1 => code'[x] = NoCode
             /\ gone(x) /\ cd[x].refCount # 1 => code'[x].procPtr = cd[x].procPtr
    BY <1>2, <1>7, <1>8, Live, DropBodyEffect, SMTT(40)
  <2>3. \A x \in Codes : gone(x) => cd[x].refCount > 0
    BY <1>8
  <2> HIDE DEF gone
  <2>4. ASSUME NEW x \in Codes
        PROVE  /\ code'[x].refCount = code[x].refCount - (IF x = k THEN 1 ELSE 0) - (IF gone(x) THEN 1 ELSE 0)
               /\ code'[x].refCount = 0 => code'[x] = NoCode
               /\ code'[x].refCount # 0 => code'[x].procPtr = code[x].procPtr
    <3>1. CASE gone(x)
      BY <1>5, <1>7, <2>1, <2>2, <2>3, <3>1 DEF NoCode
    <3>2. CASE ~gone(x)
      BY <1>5, <1>7, <2>1, <2>2, <3>2
    <3> QED
      BY <3>1, <3>2
  <2> QED
    BY <2>2, <2>4
<1>10. \A x \in Codes : Body(x)' = Body(x) - (IF gone(x) THEN 1 ELSE 0)
  <2> TAKE x \in Codes
  <2>1. \A y \in Procs : proc[y].code = x /\ y # p => proc[p].code # x
    BY <1>2 DEF IInv, Owned
  <2>2. CASE gone(x)
    <3>1. Body(x) = 1
      BY <1>2, <2>2 DEF Body
    <3>2. ~\E y \in Procs : proc'[y].code = x
      <4>1. proc'[p].code = NULL /\ proc[p].code = x /\ x # NULL
        BY <1>6, <2>2 DEF NoProc
      <4>2. ASSUME NEW y \in Procs, y # p PROVE proc'[y].code # x
        BY <1>6, <2>1, <4>1, <4>2
      <4> QED
        BY <4>1, <4>2
    <3> QED
      BY <2>2, <3>1, <3>2 DEF Body
  <2>3. CASE ~gone(x)
    <3>1. (\E y \in Procs : proc'[y].code = x) <=> (\E y \in Procs : proc[y].code = x)
      <4>1. \A y \in Procs : y # p => proc'[y].code = proc[y].code
        BY <1>6
      <4>2. proc'[p].code = x <=> proc[p].code = x
        <5>1. CASE proc[p].refCount = 1
          <6>1. proc'[p].code = NULL /\ x # NULL
            BY <1>6, <5>1 DEF NoProc
          <6> QED
            BY <2>3, <5>1, <6>1
        <5>2. CASE proc[p].refCount # 1
          BY <1>6, <5>2
        <5> QED
          BY <5>1, <5>2
      <4> QED
        BY <4>1, <4>2
    <3>2. Body(x)' = Body(x)
      BY <3>1 DEF Body
    <3> QED
      BY <1>5, <2>3, <3>2
  <2> QED
    BY <2>2, <2>3
<1>11. CodeCountExact'
  BY <1>4, <1>5, <1>9, <1>10 DEF CodeCountExact
<1>12. RefCountExact'
  <2> SUFFICES ASSUME NEW x \in Procs
               PROVE  proc'[x].refCount = Cardinality(NamedBy(x)') + Cardinality(RunBy(x)')
    BY DEF RefCountExact
  <2>1. proc[x].refCount = Cardinality(NamedBy(x)) + Cardinality(RunBy(x))
    BY DEF IInv, RefCountExact
  <2>2. NamedBy(x)' = NamedBy(x)
    BY <1>2 DEF NamedBy
  <2>3. Cardinality(NamedBy(x)) \in Nat
    BY FS_Subset, FS_CardinalityType DEF NamedBy
  <2>4. Cardinality(RunBy(x)) \in Nat
    BY Live, CountsFinite
  <2> QED
    BY <1>4, <1>6, <2>1, <2>2, <2>3, <2>4
<1>13. TypeOK'
  BY <1>2, <1>3, <1>6, <1>9, Live DEF IInv, TypeOK, ProcRec, CodeRec, Activation
<1>14. Owned'
  <2>1. ASSUME NEW y \in Procs, proc'[y].code # NULL PROVE code'[proc'[y].code].procPtr = y
    <3>1. proc'[y].code = proc[y].code /\ proc[y].code \in Codes
      BY <1>6, <2>1, Live DEF NoProc
    <3>2. ASSUME NEW x \in Codes, x = proc[y].code PROVE code'[x].refCount # 0
      <4>1. code'[x].refCount = Body(x)' + Cardinality(RunsOf(x)') /\ Body(x)' = 1
        BY <1>11, <3>1, <3>2 DEF CodeCountExact, Body
      <4>2. Cardinality(RunsOf(x)') \in Nat
        <5>1. RunsOf(x)' = Places(stack', OfCode(x))
          BY <1>3, Counts DEF RunsOf
        <5> QED
          BY <1>3, <5>1, PlacesFinite
      <4> QED
        BY <4>1, <4>2
    <3>3. code'[proc[y].code].refCount # 0
      BY <3>1, <3>2
    <3> QED
      BY <1>9, <3>1, <3>3 DEF IInv, Owned
  <2>2. \A y \in Procs : proc'[y].refCount = 0 => proc'[y] = NoProc
    <3>1. \A y \in Procs : proc[y].refCount \in Nat
      BY Live DEF ProcRec
    <3>2. \A y \in Procs : proc[y].refCount = 0 => proc[y] = NoProc
      BY DEF IInv, Owned
    <3> SUFFICES ASSUME NEW y \in Procs, proc'[y].refCount = 0 PROVE proc'[y] = NoProc
      OBVIOUS
    <3>3. CASE y = p
      <4>1. proc[p].refCount = 1
        <5>1. proc'[p].refCount = proc[p].refCount - 1
          BY <1>2, <1>6
        <5>2. proc'[p].refCount = 0
          BY <3>3
        <5> QED
          BY <1>2, <3>1, <5>1, <5>2
      <4> QED
        BY <1>6, <3>3, <4>1
    <3>4. CASE y # p
      BY <1>6, <3>2, <3>4
    <3> QED
      BY <3>3, <3>4
  <2>3. \A x \in Codes : code'[x].refCount > 0 => code'[x].procPtr # NULL
    <3> SUFFICES ASSUME NEW x \in Codes, code'[x].refCount > 0 PROVE code'[x].procPtr # NULL
      OBVIOUS
    <3>1. code'[x].procPtr = code[x].procPtr
      BY <1>9
    <3>2. code[x].refCount > 0
      BY <1>5, <1>9
    <3> QED
      BY <3>1, <3>2 DEF IInv, Owned
  <2> QED
    BY <1>9, <2>1, <2>2, <2>3 DEF Owned
<1>15. FrameLive'
  BY <1>2 DEF FrameLive
<1>16. RunsOwn'
  <2> SUFFICES ASSUME NEW i \in DOMAIN stack' PROVE code'[stack'[i].code].procPtr = stack'[i].proc
    BY DEF RunsOwn
  <2>1. i \in DOMAIN stack /\ stack'[i] = stack[i] /\ stack[i].code \in Codes
    BY <1>3, Live
  <2>2. ASSUME NEW x \in Codes, x = stack[i].code PROVE code'[x].refCount # 0
    <3>1. code'[x].refCount = Body(x)' + Cardinality(RunsOf(x)') /\ Body(x)' \in {0, 1}
      BY <1>11 DEF CodeCountExact, Body
    <3>2. i \in RunsOf(x)'
      BY <2>1, <2>2 DEF RunsOf
    <3>3. Cardinality(RunsOf(x)') > 0
      BY <1>4, <3>2
    <3>4. Cardinality(RunsOf(x)') \in Nat
      BY <1>4, <1>5, <3>3
    <3> QED
      BY <3>1, <3>3, <3>4
  <2>3. code'[stack[i].code].refCount # 0
    BY <2>1, <2>2
  <2> QED
    BY <1>9, <2>1, <2>3 DEF IInv, RunsOwn
<1> QED
  BY <1>11, <1>12, <1>13, <1>14, <1>15, <1>16 DEF IInv

------------------------------------------------------------------------------
(* The theorems.                                                            *)

\* The invariant holds of every reachable state.
THEOREM Invariant == Spec => []IInv
<1> USE ProcAssumption
<1>1. Init => IInv
  <2> SUFFICES ASSUME Init PROVE IInv
    OBVIOUS
  <2>1. TypeOK
    <3>1. proc \in [Procs -> ProcRec]
      BY JitType DEF Init, NoProc, ProcRec
    <3> QED
      BY <3>1, EmptySeq DEF Init, TypeOK, ProcRec, NoCode
  <2>2. /\ \A x : RunBy(x) = {} /\ RunsOf(x) = {}
        /\ \A p \in Procs : NamedBy(p) = {}
        /\ \A k \in Codes : Body(k) = 0
    BY EmptySeq DEF Init, RunBy, RunsOf, NamedBy, Body, NoProc
  <2>3. RefCountExact /\ CodeCountExact
    <3>1. Cardinality({}) = 0
      BY FS_EmptySet
    <3>2. \A p \in Procs : Cardinality(NamedBy(p)) = 0 /\ Cardinality(RunBy(p)) = 0
      BY <2>2, <3>1
    <3>3. \A k \in Codes : Cardinality(RunsOf(k)) = 0
      BY <2>2, <3>1
    <3>4. /\ \A p \in Procs : proc[p].refCount = 0
          /\ \A k \in Codes : code[k].refCount = 0
      BY DEF Init, NoProc, NoCode
    <3> QED
      BY <2>2, <3>2, <3>3, <3>4 DEF RefCountExact, CodeCountExact
  <2>4. Owned /\ FrameLive /\ RunsOwn
    BY EmptySeq DEF Init, Owned, FrameLive, RunsOwn, NoProc, NoCode
  <2> QED
    BY <2>1, <2>3, <2>4 DEF IInv
<1>2. IInv /\ [Next]_vars => IInv'
  <2> SUFFICES ASSUME IInv, [Next]_vars PROVE IInv'
    OBVIOUS
  <2>q. TypeOK /\ FrameLive
    BY DEF IInv
  <2>1. ASSUME NEW c \in Cmds, NEW p \in Procs, NEW leaf \in BOOLEAN, CreateProc(c, p, leaf)
        PROVE IInv'
    BY <2>1, CreateKeeps
  <2>2. ASSUME NEW c \in Cmds, DeleteProc(c) PROVE IInv'
    BY <2>2, DeleteKeeps
  <2>3. CASE BumpEpoch
    <3>1. epoch' \in Nat /\ frame' = NULL
      BY <2>3, <2>q DEF BumpEpoch, Running, TypeOK
    <3> QED
      BY <2>3, <2>q, <3>1, QuietKeeps DEF BumpEpoch, TypeOK
  <2>4. ASSUME NEW c \in Cmds, PushFresh(c) PROVE IInv'
    <3>1. frame' \in Procs /\ proc[frame'].refCount > 0 /\ proc[frame'].code # NULL
      BY <2>4, Live DEF PushFresh, Fresh
    <3> QED
      BY <2>4, <2>q, <3>1, QuietKeeps DEF PushFresh, TypeOK
  <2>5. ASSUME NEW c \in Cmds, NEW k \in Codes, PushRecompile(c, k) PROVE IInv'
    BY <2>5, RecompileKeeps
  <2>6. ASSUME NEW c \in Cmds, NEW k \in Codes, NEW p2 \in Procs, NEW garbage \in JIT_Proc,
               PushReplace(c, k, p2, garbage)
        PROVE IInv'
    BY <2>6, ReplaceKeeps
  <2>7. CASE CallRejected
    BY <2>7, <2>q, QuietKeeps DEF CallRejected, TypeOK
  <2>8. CASE EnterInterpreted
    BY <2>8, EnterKeeps
  <2>9. ASSUME NEW r, EnterNative(r) PROVE IInv'
    BY <2>9, NativeKeeps
  <2>10. CASE EnterWild
    BY <2>10, <2>q, QuietKeeps DEF EnterWild, TypeOK, FrameLive
  <2>11. CASE Collect
    BY <2>11, <2>q, QuietKeeps DEF Collect, TypeOK
  <2>12. ASSUME NEW r, Leave(r) PROVE IInv'
    BY <2>12, LeaveKeeps
  <2>13. CASE UNCHANGED vars
    BY <2>13, <2>q, QuietKeeps DEF vars, TypeOK, FrameLive
  <2>14. \A g \in [eligible: BOOLEAN, callCount: 0..MaxCount, ncode: {NULL, WILD},
                   collecting: BOOLEAN, types: {NULL, WILD}] : g \in JIT_Proc
    BY DEF JIT_Proc
  <2> QED
    BY <2>1, <2>2, <2>3, <2>4, <2>5, <2>6, <2>7, <2>8, <2>9, <2>10, <2>11, <2>12, <2>13, <2>14
       DEF Next
<1> QED
  BY <1>1, <1>2, PTL DEF Spec

\* Every variable keeps its type.
THEOREM TypeCorrect == Spec => []TypeOK
<1>1. IInv => TypeOK
  BY DEF IInv
<1> QED
  BY <1>1, Invariant, PTL

\* The reference count of a Proc is the number of its command and activations.
THEOREM RefCounts == Spec => []RefCountExact
<1>1. IInv => RefCountExact
  BY DEF IInv
<1> QED
  BY <1>1, Invariant, PTL

\* No activation outlives its Proc or its bytecode, even if the procedure is
\* deleted, redefined or recompiled while it runs.
THEOREM NothingDangles == Spec => []ActivationsLive
<1>1. IInv => ActivationsLive
  BY Live DEF IInv, RunsOwn, ActivationsLive
<1> QED
  BY <1>1, Invariant, PTL

------------------------------------------------------------------------------
(* Bodies that are never recompiled while they run.                         *)

LEMMA LiveActivations == IInv => ActivationsLive
BY Live DEF IInv, RunsOwn, ActivationsLive

\* A call leaves the fields made from the body it runs.
LEMMA CallFits ==
    ASSUME NEW r \in ProcRec, r.code \in Codes, JitFits(r), NEW res
    PROVE  LET j == OnCall(r.jit, r.code, r.leaf) IN
           /\ j.ncode \in {NULL, r.code} /\ j.types = r.code /\ j.collecting
           /\ OnResult(j, res).ncode = j.ncode /\ OnResult(j, res).types = j.types
           /\ OnResult(j, res).collecting = j.collecting
           /\ ~CompileFaults(r.jit, r.code)
<1> USE ProcAssumption
<1> DEFINE a == AllocTypes(r.jit, r.code)
           b == IF WantsCompile(a) THEN JIT_Compile(a, r.code, r.leaf) ELSE a
<1>1. r.jit \in JIT_Proc
  BY DEF ProcRec
<1>2. /\ a \in JIT_Proc /\ a.collecting /\ a.types = r.code /\ a.ncode = r.jit.ncode
      /\ a.ncode \in {NULL, r.code}
  BY <1>1 DEF AllocTypes, JIT_Proc, JitFits
<1> HIDE DEF a
<1>3. b \in JIT_Proc /\ b.collecting /\ b.types = r.code /\ b.ncode \in {NULL, r.code}
  BY <1>2 DEF JIT_Compile, JIT_Proc
<1> HIDE DEF b
<1>4. \A j \in JIT_Proc : /\ JIT_UPDATEPROCCOUNT(j).collecting = j.collecting
                          /\ JIT_UPDATEPROCCOUNT(j).types = j.types
                          /\ JIT_UPDATEPROCCOUNT(j).ncode = j.ncode
                          /\ OnResult(j, res).collecting = j.collecting
                          /\ OnResult(j, res).types = j.types
                          /\ OnResult(j, res).ncode = j.ncode
  BY DEF JIT_UPDATEPROCCOUNT, OnResult, JIT_Proc
<1>5. OnCall(r.jit, r.code, r.leaf) = JIT_UPDATEPROCCOUNT(b)
  BY DEF OnCall, a, b
<1>6. OnCall(r.jit, r.code, r.leaf) \in JIT_Proc
  BY <1>1, JitType DEF ProcRec
<1>7. ~CompileFaults(r.jit, r.code)
  BY <1>2 DEF CompileFaults, a
<1> QED
  BY <1>3, <1>4, <1>5, <1>6, <1>7

\* Dropping a reference keeps the fields, or frees them.
LEMMA DropFits ==
    ASSUME NEW pr \in [Procs -> ProcRec], NEW q \in Procs, pr[q].refCount > 0,
           \A p \in Procs : JitFits(pr[p])
    PROVE  \A p \in Procs : JitFits(DropProc(pr, q)[p])
<1>1. JitFits(NoProc)
  BY DEF JitFits, NoProc, JIT_PROCSETUP
<1> QED
  BY <1>1, DropProcEffect DEF JitFits

LEMMA SoundStep ==
    ASSUME Reentrant = FALSE, IInv, IInv', JitSound, [Next]_vars
    PROVE  JitSound'
<1> USE ProcAssumption
<1>1. ActivationsLive'
  BY LiveActivations, PTL
<1>2. fault = "none" /\ \A p \in Procs : JitFits(proc[p])
  BY DEF JitSound
<1>3. \A i \in DOMAIN stack : /\ stack[i].proc \in Procs /\ proc[stack[i].proc].refCount > 0
                              /\ proc[stack[i].proc].code = stack[i].code
                              /\ proc[stack[i].proc].jit.collecting
  BY Live DEF JitSound
\* Structures no activation uses may change; those in use keep code and type table.
<1>4. ASSUME fault' = "none", \A p \in Procs : JitFits(proc'[p]), UNCHANGED stack,
             \A p \in Procs : \/ proc'[p].refCount = 0
                              \/ proc'[p].code = proc[p].code /\ proc'[p].jit = proc[p].jit
                              \/ \A i \in DOMAIN stack : stack[i].proc # p
      PROVE  JitSound'
  BY <1>1, <1>3, <1>4 DEF JitSound, ActivationsLive
<1>5. ASSUME NEW c \in Cmds, NEW p \in Procs, NEW leaf \in BOOLEAN, CreateProc(c, p, leaf)
      PROVE  JitSound'
  <2> DEFINE q   == cmd[c]
             pr  == IF q = NULL THEN proc ELSE DropProc(proc, q)
             new == [refCount |-> 1, code |-> NULL, leaf |-> leaf, jit |-> JIT_PROCSETUP]
  <2>1. /\ q # NULL => q \in Procs /\ proc[q].refCount > 0
        /\ proc[p].refCount = 0 /\ proc' = [pr EXCEPT ![p] = new] /\ UNCHANGED <<stack, fault>>
    BY <1>5, Live DEF CreateProc
  <2>2. /\ pr \in [Procs -> ProcRec]
        /\ \A x \in Procs : JitFits(pr[x])
        /\ \A x \in Procs : \/ pr[x].refCount = 0
                            \/ pr[x].code = proc[x].code /\ pr[x].jit = proc[x].jit
    <3>1. CASE q = NULL
      BY <1>2, <3>1, Live
    <3>2. CASE q # NULL
      <4>1. proc \in [Procs -> ProcRec] /\ q \in Procs /\ proc[q].refCount > 0 /\ pr = DropProc(proc, q)
        BY <2>1, <3>2, Live
      <4> HIDE DEF q, pr
      <4> QED
        BY <1>2, <4>1, DropFits, DropProcEffect DEF NoProc
    <3> QED
      BY <3>1, <3>2
  <2> HIDE DEF q, pr
  <2>3. proc'[p] = new /\ \A x \in Procs : x # p => proc'[x] = pr[x]
    BY <2>1, <2>2
  <2>4. JitFits(new) /\ \A i \in DOMAIN stack : stack[i].proc # p
    BY <1>3, <2>1 DEF JitFits, JIT_PROCSETUP
  <2> HIDE DEF new
  <2>5. \A x \in Procs : JitFits(proc'[x])
    BY <2>2, <2>3, <2>4
  <2> QED
    BY <1>2, <1>4, <2>1, <2>2, <2>3, <2>4, <2>5
<1>6. ASSUME NEW c \in Cmds, DeleteProc(c) PROVE JitSound'
  <2>1. /\ cmd[c] \in Procs /\ proc[cmd[c]].refCount > 0 /\ proc \in [Procs -> ProcRec]
        /\ proc' = DropProc(proc, cmd[c]) /\ UNCHANGED <<stack, fault>>
    BY <1>6, Live DEF DeleteProc
  <2>2. \A x \in Procs : JitFits(proc'[x])
    BY <1>2, <2>1, DropFits
  <2>3. \A x \in Procs : \/ proc'[x].refCount = 0
                         \/ proc'[x].code = proc[x].code /\ proc'[x].jit = proc[x].jit
    BY <2>1, DropProcEffect DEF NoProc
  <2> QED
    BY <1>2, <1>4, <2>1, <2>2, <2>3
<1>7. ASSUME NEW c \in Cmds, NEW k \in Codes, PushRecompile(c, k) PROVE JitSound'
  <2> DEFINE p == cmd[c]
  <2>1. /\ p \in Procs /\ proc[p].refCount = 1 /\ proc[p] \in ProcRec /\ UNCHANGED stack
        /\ proc' = [proc EXCEPT ![p].code = k, ![p].jit = ResetJit(p)] /\ fault' = ResetFault(p)
        /\ \A i \in DOMAIN stack : stack[i].proc # p
    BY <1>7, Live DEF PushRecompile
  <2> HIDE DEF p
  <2>2. /\ \A x \in Procs : x # p => proc'[x] = proc[x]
        /\ proc'[p].code = k /\ proc'[p].jit = ResetJit(p)
    BY <2>1, Live DEF ProcRec
  <2>3. JitFits(proc[p]) /\ proc[p].jit \in JIT_Proc /\ proc[p].code \in Codes \cup {NULL}
    BY <1>2, <2>1 DEF ProcRec
  <2>4. JitFits(proc'[p])
    BY <2>2, <2>3 DEF JitFits, ResetJit, JIT_PROCRESET, JIT_PROCSETUP, JIT_Proc
  <2>5. fault' = "none"
    BY <2>1, <2>3 DEF JitFits, ResetFault, FreesWild
  <2>6. \A x \in Procs : JitFits(proc'[x])
    BY <1>2, <2>2, <2>4
  <2> QED
    BY <1>4, <2>1, <2>2, <2>5, <2>6
<1>8. ASSUME NEW c \in Cmds, NEW k \in Codes, NEW p2 \in Procs, NEW g, PushReplace(c, k, p2, g)
      PROVE JitSound'
  BY <1>8 DEF PushReplace
<1>9. CASE EnterInterpreted
  <2> DEFINE p == frame
             k == proc[frame].code
             a == [proc |-> p, code |-> k]
  <2>1. /\ p \in Procs /\ k \in Codes /\ proc[p] \in ProcRec /\ stack \in Seq(Activation)
        /\ proc' = [proc EXCEPT ![p].refCount = @ + 1, ![p].jit = Called]
        /\ stack' = Append(stack, a) /\ fault' = "none"
        /\ Called = OnCall(proc[p].jit, proc[p].code, proc[p].leaf)
    BY <1>2, <1>9, Live DEF EnterInterpreted, IInv, TypeOK, FrameLive, Called
  <2>2. Called.ncode \in {NULL, k} /\ Called.types = k /\ Called.collecting
    BY <1>2, <2>1, CallFits
  <2> HIDE DEF p, k
  <2>3. /\ \A x \in Procs : x # p => proc'[x] = proc[x]
        /\ proc'[p].code = k /\ proc'[p].jit = Called
    BY <2>1, Live DEF ProcRec, k, p
  <2>4. \A x \in Procs : JitFits(proc'[x])
    <3>1. JitFits(proc'[p])
      BY <2>1, <2>2, <2>3 DEF JitFits, k, p
    <3> QED
      BY <1>2, <2>3, <3>1
  <2>5. /\ DOMAIN stack' = 1..Len(stack) + 1 /\ DOMAIN stack = 1..Len(stack)
        /\ stack'[Len(stack) + 1] = a /\ \A i \in 1..Len(stack) : stack'[i] = stack[i]
    BY <2>1, LenProperties, AppendProperties DEF Activation
  <2>6. ASSUME NEW i \in DOMAIN stack'
        PROVE  proc'[stack'[i].proc].code = stack'[i].code /\ proc'[stack'[i].proc].jit.collecting
    <3>1. CASE i = Len(stack) + 1
      BY <2>2, <2>3, <2>5, <3>1
    <3>2. CASE i # Len(stack) + 1
      <4>1. i \in DOMAIN stack /\ stack'[i] = stack[i]
        BY <2>1, <2>5, <3>2, LenProperties
      <4>2. proc[p].code = k
        BY DEF p, k
      <4> QED
        BY <1>3, <2>2, <2>3, <4>1, <4>2
    <3> QED
      BY <3>1, <3>2
  <2> QED
    BY <2>1, <2>4, <2>6 DEF JitSound
<1>10. ASSUME NEW r, EnterNative(r) PROVE JitSound'
  <2> DEFINE p == frame
  <2>1. /\ p \in Procs /\ proc[p].code \in Codes /\ proc[p] \in ProcRec
        /\ proc' = [proc EXCEPT ![p].jit = OnResult(Called, r)] /\ UNCHANGED <<stack, fault>>
        /\ Called = OnCall(proc[p].jit, proc[p].code, proc[p].leaf)
    BY <1>10, Live DEF EnterNative, IInv, TypeOK, FrameLive, Called
  <2> DEFINE j == OnResult(Called, r)
  <2>2. j.ncode \in {NULL, proc[p].code} /\ j.types = proc[p].code /\ j.collecting
    BY <1>2, <2>1, CallFits
  <2> HIDE DEF p, j
  <2>3. /\ \A x \in Procs : x # p => proc'[x] = proc[x]
        /\ proc'[p].code = proc[p].code /\ proc'[p].jit = j
    BY <2>1, Live DEF ProcRec, j
  <2>4. \A x \in Procs : JitFits(proc'[x])
    BY <1>2, <2>1, <2>2, <2>3 DEF JitFits
  <2>5. \A i \in DOMAIN stack : /\ proc'[stack[i].proc].code = stack[i].code
                                /\ proc'[stack[i].proc].jit.collecting
    BY <1>3, <2>2, <2>3
  <2> QED
    BY <1>2, <2>1, <2>4, <2>5 DEF JitSound
<1>11. CASE EnterWild
  <2>1. frame \in Procs /\ proc[frame].code \in Codes /\ proc[frame] \in ProcRec
    BY <1>11, Live DEF EnterWild, IInv, TypeOK, FrameLive
  <2>2. Called.ncode \in {NULL, proc[frame].code} /\ ~CompileFaults(proc[frame].jit, proc[frame].code)
    BY <1>2, <2>1, CallFits DEF Called
  <2> QED
    BY <1>11, <2>1, <2>2 DEF EnterWild
<1>12. CASE Collect
  <2>1. Len(stack) \in DOMAIN stack
    BY <1>12, Live, EmptySeq, LenProperties DEF Collect
  <2>2. Top.proc \in Procs /\ Top.code \in Codes /\ code[Top.code].procPtr = Top.proc
        /\ proc[Top.proc].code = Top.code /\ proc[Top.proc].jit.collecting
    BY <1>3, <2>1, Live DEF IInv, RunsOwn, Top
  <2>3. proc[Top.proc].jit.types = Top.code
    BY <1>2, <2>2 DEF JitFits
  <2>4. fault' = "none" /\ UNCHANGED <<proc, stack>>
    BY <1>12, <2>2, <2>3 DEF Collect
  <2> QED
    BY <1>2, <1>4, <2>4
<1>13. ASSUME NEW r, Leave(r) PROVE JitSound'
  <2> DEFINE p  == Top.proc
             pr == [proc EXCEPT ![p].jit = OnResult(@, r)]
  <2>1. /\ stack # <<>> /\ stack \in Seq(Activation) /\ Len(stack) \in DOMAIN stack
        /\ stack' = SubSeq(stack, 1, Len(stack) - 1) /\ proc' = DropProc(pr, p) /\ UNCHANGED fault
    BY <1>13, Live, EmptySeq, LenProperties DEF Leave
  <2>2. p \in Procs /\ proc[p] \in ProcRec /\ proc[p].refCount > 0 /\ proc \in [Procs -> ProcRec]
    BY <1>3, <2>1, Live DEF Top
  <2> HIDE DEF p
  <2>3. \A i \in DOMAIN stack' : i \in DOMAIN stack /\ stack'[i] = stack[i]
    BY <2>1, PlacesFront
  <2>4. [proc[p] EXCEPT !.jit = OnResult(@, r)] \in ProcRec
    BY <2>2, JitType DEF ProcRec
  <2>5. pr \in [Procs -> ProcRec] /\ pr[p] = [proc[p] EXCEPT !.jit = OnResult(@, r)]
        /\ \A x \in Procs : x # p => pr[x] = proc[x]
    BY <2>2, <2>4
  <2>6. /\ pr[p].refCount = proc[p].refCount /\ pr[p].code = proc[p].code
        /\ pr[p].jit.ncode = proc[p].jit.ncode /\ pr[p].jit.types = proc[p].jit.types
        /\ pr[p].jit.collecting = proc[p].jit.collecting
    <3>1. pr[p].refCount = proc[p].refCount /\ pr[p].code = proc[p].code
          /\ pr[p].jit = OnResult(proc[p].jit, r) /\ proc[p].jit \in JIT_Proc
      BY <2>2, <2>5 DEF ProcRec
    <3> QED
      BY <3>1 DEF OnResult, JIT_Proc
  <2> HIDE DEF pr
  <2>7. \A x \in Procs : JitFits(pr[x])
    <3>a. proc[p].code # NULL
      BY <1>3, <2>1, Live DEF p, Top
    <3>1. JitFits(pr[p])
      BY <1>2, <2>2, <2>6, <3>a DEF JitFits
    <3> QED
      BY <1>2, <2>5, <3>1
  <2>8. \A x \in Procs : JitFits(proc'[x])
    BY <2>1, <2>2, <2>5, <2>6, <2>7, DropFits
  <2>9. \A x \in Procs : \/ proc'[x].refCount = 0
                         \/ proc'[x].code = proc[x].code /\ proc'[x].jit.collecting = proc[x].jit.collecting
    <3>1. /\ \A x \in Procs : x # p => proc'[x] = pr[x]
          /\ pr[p].refCount = 1 => proc'[p] = NoProc
          /\ pr[p].refCount # 1 => proc'[p].code = pr[p].code /\ proc'[p].jit = pr[p].jit
      <4>1. pr \in [Procs -> ProcRec] /\ p \in Procs /\ pr[p].refCount > 0
        BY <2>2, <2>5, <2>6
      <4>2. /\ \A x \in Procs : x # p => DropProc(pr, p)[x] = pr[x]
            /\ pr[p].refCount = 1 => DropProc(pr, p)[p] = NoProc
            /\ pr[p].refCount # 1 => /\ DropProc(pr, p)[p].code = pr[p].code
                                     /\ DropProc(pr, p)[p].jit = pr[p].jit
        BY <4>1, DropProcEffect
      <4> QED
        BY <2>1, <4>2
    <3> QED
      BY <2>5, <2>6, <3>1 DEF NoProc
  <2>10. \A i \in DOMAIN stack' : proc'[stack'[i].proc].code = stack'[i].code
                                  /\ proc'[stack'[i].proc].jit.collecting
    BY <1>1, <1>3, <2>3, <2>9 DEF ActivationsLive
  <2> QED
    BY <1>2, <2>1, <2>8, <2>10 DEF JitSound
<1>14. CASE UNCHANGED <<proc, stack, fault>>
  BY <1>2, <1>4, <1>14
<1> QED
  BY <1>5, <1>6, <1>7, <1>8, <1>9, <1>10, <1>11, <1>12, <1>13, <1>14
     DEF Next, vars, BumpEpoch, PushFresh, CallRejected

\* With no recompilation under a running body, the JIT fields stay sound.
THEOREM Sound ==
    ASSUME Reentrant = FALSE
    PROVE  Spec => [](IInv /\ JitSound)
<1>1. Init => JitSound
  <2>1. JitFits(NoProc)
    BY DEF JitFits, NoProc, JIT_PROCSETUP
  <2> QED
    BY <2>1, EmptySeq DEF Init, JitSound
<1>2. IInv /\ IInv' /\ JitSound /\ [Next]_vars => JitSound'
  BY SoundStep
<1> QED
  BY <1>1, <1>2, Invariant, PTL DEF Spec

\* Every body in progress has the type table made for its bytecode.
THEOREM TablesFit ==
    ASSUME Reentrant = FALSE
    PROVE  Spec => []TypeTableFits
<1>1. IInv /\ JitSound => TypeTableFits
  <2> SUFFICES ASSUME IInv, JitSound, NEW i \in DOMAIN stack
               PROVE  proc[code[stack[i].code].procPtr].jit.types = stack[i].code
    BY DEF TypeTableFits
  <2>1. stack[i].proc \in Procs /\ code[stack[i].code].procPtr = stack[i].proc
    BY Live DEF IInv, RunsOwn
  <2> QED
    BY <2>1 DEF JitSound, JitFits
<1> QED
  BY <1>1, Sound, PTL

\* Native code that a call can reach was made from the current bytecode.
THEOREM NativeCurrent ==
    ASSUME Reentrant = FALSE
    PROVE  Spec => []NativeIsCurrent
<1>1. JitSound => NativeIsCurrent
  BY DEF JitSound, JitFits, NativeIsCurrent
<1> QED
  BY <1>1, Sound, PTL

\* The JIT's bookkeeping never makes a memory error.
THEOREM NeverFaults ==
    ASSUME Reentrant = FALSE
    PROVE  Spec => []NoFault
<1>1. JitSound => NoFault
  BY DEF JitSound, NoFault
<1> QED
  BY <1>1, Sound, PTL

------------------------------------------------------------------------------
(* The implementation of JitTier.                                           *)

\* One call moves the stage by at most one rung, also when it ends in res.
LEMMA StageMoves ==
    ASSUME NEW j \in JIT_Proc, NEW k \in Codes, NEW leaf \in BOOLEAN, NEW res
    PROVE  LET o == OnCall(j, k, leaf) IN
           /\ <<Stage(j), Stage(o)>> \in Promise!Moves
           /\ o.ncode # NULL => <<Stage(j), Stage(OnResult(o, res))>> \in Promise!Moves
           /\ <<Stage(j), Stage(OnResult(j, res))>> \in Promise!Moves
<1> USE ProcAssumption
<1> DEFINE a == AllocTypes(j, k)
           b == IF WantsCompile(a) THEN JIT_Compile(a, k, leaf) ELSE a
           o == JIT_UPDATEPROCCOUNT(b)
<1>1. a \in JIT_Proc /\ a.eligible = j.eligible /\ a.callCount = j.callCount /\ a.ncode = j.ncode
  BY DEF AllocTypes, JIT_Proc
<1> HIDE DEF a
<1>2. /\ b \in JIT_Proc /\ b.callCount = j.callCount
      /\ \/ b.eligible = j.eligible /\ b.ncode = j.ncode /\ ~WantsCompile(j)
         \/ WantsCompile(j) /\ (b.ncode = k \/ (b.ncode = NULL /\ ~b.eligible))
  BY <1>1 DEF JIT_Compile, JIT_Proc, WantsCompile
<1> HIDE DEF b
<1>3. /\ o \in JIT_Proc /\ o.eligible = b.eligible /\ o.ncode = b.ncode
      /\ o.callCount \in {b.callCount, b.callCount - 1}
      /\ b.callCount \in Nat /\ j.callCount \in Nat /\ o.callCount \in Nat
      /\ b.callCount = 0 => o.callCount = 0
  <2>1. JIT_PROCSETUP \in JIT_Proc /\ MaxCount \in Nat
    BY JitType DEF MaxCount
  <2> QED
    BY <1>2, <2>1 DEF JIT_UPDATEPROCCOUNT, JIT_Proc
<1> HIDE DEF o
<1>4. OnCall(j, k, leaf) = o
  BY DEF OnCall, o, b, a
<1>5. \A x \in JIT_Proc : /\ OnResult(x, res).ncode = x.ncode
                          /\ OnResult(x, res).callCount = x.callCount
                          /\ OnResult(x, res).eligible => x.eligible
  BY DEF OnResult, JIT_Proc
<1>6. j.ncode \in Codes \cup {NULL, WILD} /\ k # NULL
  BY DEF JIT_Proc
<1>7. <<Stage(j), Stage(o)>> \in Promise!Moves
  BY <1>2, <1>3, <1>6 DEF Stage, WantsCompile, Promise!Moves, Promise!Climb, Promise!Tiers
<1>8. o.ncode # NULL => <<Stage(j), Stage(OnResult(o, res))>> \in Promise!Moves
  BY <1>2, <1>3, <1>5, <1>6 DEF Stage, WantsCompile, Promise!Moves, Promise!Climb, Promise!Tiers
<1>9. <<Stage(j), Stage(OnResult(j, res))>> \in Promise!Moves
  BY <1>3, <1>5 DEF Stage, Promise!Moves, Promise!Climb, Promise!Tiers
<1> QED
  BY <1>4, <1>7, <1>8, <1>9

\* Steps after which every body is gone, given up, or one rung on.
LEMMA TierMoves ==
    ASSUME IInv,
           \A k \in Codes : \/ code'[k].refCount = 0
                            \/ code[k].refCount # 0 /\ code'[k].procPtr = code[k].procPtr,
           \A p \in Procs : \/ proc'[p].code = NULL
                            \/ /\ proc'[p].code = proc[p].code
                               /\ <<Stage(proc[p].jit), Stage(proc'[p].jit)>> \in Promise!Moves
    PROVE  \A k \in Codes : <<Tier(k), Tier(k)'>> \in Promise!Moves
<1> USE ProcAssumption
<1> TAKE k \in Codes
<1>1. Tier(k) \in Promise!Tiers
  BY DEF Tier, Stage, Promise!Tiers
<1>2. CASE Tier(k)' = "none"
  BY <1>1, <1>2 DEF Promise!Moves
<1>3. CASE Tier(k)' # "none"
  <2>1. code'[k].refCount # 0 /\ proc'[code'[k].procPtr].code = k
        /\ Tier(k)' = Stage(proc'[code'[k].procPtr].jit)
    BY <1>3 DEF Tier, Stage
  <2>2. code[k].refCount # 0 /\ code'[k].procPtr = code[k].procPtr /\ code[k].procPtr \in Procs
    BY <2>1, Live DEF IInv, Owned, CodeRec
  <2>3. proc[code[k].procPtr].code = k
        /\ <<Stage(proc[code[k].procPtr].jit), Tier(k)'>> \in Promise!Moves
    BY <2>1, <2>2
  <2> QED
    BY <2>2, <2>3 DEF Tier
<1> QED
  BY <1>2, <1>3

LEMMA StepMoves ==
    ASSUME Reentrant = FALSE, IInv, IInv', JitSound, [Next]_vars
    PROVE  \A k \in Codes : <<Tier(k), Tier(k)'>> \in Promise!Moves
<1> USE ProcAssumption
<1>1. \A j : <<Stage(j), Stage(j)>> \in Promise!Moves
  BY DEF Stage, Promise!Moves, Promise!Tiers
<1>2. ASSUME \A k \in Codes : \/ code'[k].refCount = 0
                              \/ code[k].refCount # 0 /\ code'[k].procPtr = code[k].procPtr,
             \A p \in Procs : \/ proc'[p].code = NULL
                              \/ proc'[p].code = proc[p].code /\ proc'[p].jit = proc[p].jit
      PROVE  \A k \in Codes : <<Tier(k), Tier(k)'>> \in Promise!Moves
  BY <1>1, <1>2, TierMoves
\* Dropping a reference to Proc q.
<1>3. ASSUME NEW q \in Procs, proc[q].refCount > 0
      PROVE  /\ \A k \in Codes :
                  \/ DropBody(code, q)[k].refCount = 0
                  \/ /\ code[k].refCount # 0
                     /\ DropBody(code, q)[k].procPtr = code[k].procPtr
             /\ \A p \in Procs :
                  \/ DropProc(proc, q)[p].code = NULL
                  \/ /\ DropProc(proc, q)[p].code = proc[p].code
                     /\ DropProc(proc, q)[p].jit = proc[p].jit
             /\ DropProc(proc, q) \in [Procs -> ProcRec]
  <2>1. /\ DropProc(proc, q) \in [Procs -> ProcRec]
        /\ \A x \in Procs : x # q => DropProc(proc, q)[x] = proc[x]
        /\ proc[q].refCount = 1 => DropProc(proc, q)[q] = NoProc
        /\ proc[q].refCount # 1 => /\ DropProc(proc, q)[q].code = proc[q].code
                                   /\ DropProc(proc, q)[q].jit = proc[q].jit
    BY <1>3, Live, DropProcEffect
  <2> DEFINE gone(k) == proc[q].refCount = 1 /\ proc[q].code = k
             cd == DropBody(code, q)
  <2>2. \A k \in Codes :
          /\ ~gone(k) => cd[k] = code[k]
          /\ gone(k) => cd[k].refCount = code[k].refCount - 1
          /\ gone(k) /\ code[k].refCount = 1 => cd[k] = NoCode
          /\ gone(k) /\ code[k].refCount # 1 => cd[k].procPtr = code[k].procPtr
    BY <1>3, Live, DropBodyEffect
  <2>3. \A k \in Codes : gone(k) => code[k].refCount # 0
    BY <1>3, Live
  <2> HIDE DEF gone, cd
  <2>4. \A k \in Codes : \/ cd[k].refCount = 0
                         \/ code[k].refCount # 0 /\ cd[k].procPtr = code[k].procPtr
    BY <2>2, <2>3 DEF NoCode
  <2> QED
    BY <2>1, <2>4 DEF NoProc, cd
<1>4. ASSUME NEW c \in Cmds, NEW p \in Procs, NEW leaf \in BOOLEAN, CreateProc(c, p, leaf)
      PROVE  \A k \in Codes : <<Tier(k), Tier(k)'>> \in Promise!Moves
  <2> DEFINE q   == cmd[c]
             pr  == IF q = NULL THEN proc ELSE DropProc(proc, q)
  <2>1. /\ q # NULL => q \in Procs /\ proc[q].refCount > 0
        /\ code' = IF q = NULL THEN code ELSE DropBody(code, q)
        /\ proc' = [pr EXCEPT ![p] = [refCount |-> 1, code |-> NULL, leaf |-> leaf,
                                      jit |-> JIT_PROCSETUP]]
    BY <1>4, Live DEF CreateProc
  <2> HIDE DEF q
  <2>2. /\ pr \in [Procs -> ProcRec]
        /\ \A x \in Procs : \/ pr[x].code = NULL
                            \/ pr[x].code = proc[x].code /\ pr[x].jit = proc[x].jit
        /\ \A k \in Codes : \/ code'[k].refCount = 0
                            \/ code[k].refCount # 0 /\ code'[k].procPtr = code[k].procPtr
    BY <1>3, <2>1, Live
  <2> HIDE DEF pr
  <2>3. proc'[p].code = NULL /\ \A x \in Procs : x # p => proc'[x] = pr[x]
    BY <2>1, <2>2
  <2> QED
    BY <1>2, <2>2, <2>3
<1>5. ASSUME NEW c \in Cmds, DeleteProc(c)
      PROVE  \A k \in Codes : <<Tier(k), Tier(k)'>> \in Promise!Moves
  <2>1. /\ cmd[c] \in Procs /\ proc[cmd[c]].refCount > 0
        /\ proc' = DropProc(proc, cmd[c]) /\ code' = DropBody(code, cmd[c])
    BY <1>5, Live DEF DeleteProc
  <2> QED
    BY <1>2, <1>3, <2>1
<1>6. ASSUME NEW c \in Cmds, NEW k \in Codes, PushRecompile(c, k)
      PROVE  \A x \in Codes : <<Tier(x), Tier(x)'>> \in Promise!Moves
  <2> DEFINE p == cmd[c]
  <2>1. /\ p \in Procs /\ k \in FreeCodes /\ code' = Recompiled(p, k, p)
        /\ proc' = [proc EXCEPT ![p].code = k, ![p].jit = ResetJit(p)]
    BY <1>6, Live DEF PushRecompile
  <2> HIDE DEF p
  <2>2. /\ \A x \in Procs : x # p => proc'[x] = proc[x]
        /\ proc'[p].code = k /\ proc'[p].jit = ResetJit(p)
    BY <2>1, Live DEF ProcRec
  <2>3. JitFits(proc[p])
    BY <2>1 DEF JitSound
  <2>4. proc'[p].jit = JIT_PROCSETUP
    BY <2>2, <2>3 DEF ResetJit, JIT_PROCRESET, JitFits
  <2>5. code'[k].refCount = 1 /\ code'[k].procPtr = p
    BY <2>1, RecompiledEffect
  <2>6. code[k].refCount = 0 /\ Tier(k) = "none"
    BY <2>1 DEF FreeCodes, Tier
  <2>7. Tier(k)' = "cold"
    <3>1. Stage(JIT_PROCSETUP) = "cold"
      BY DEF Stage, JIT_PROCSETUP, MaxCount
    <3> QED
      BY <2>2, <2>4, <2>5, <3>1 DEF Tier
  <2>8. ASSUME NEW x \in Codes, x # k PROVE <<Tier(x), Tier(x)'>> \in Promise!Moves
    <3>1. \/ Tier(x)' = "none"
          \/ code'[x].refCount # 0 /\ proc'[code'[x].procPtr].code = x
      BY DEF Tier
    <3>2. CASE Tier(x)' = "none"
      <4>1. Tier(x) \in Promise!Tiers
        BY DEF Tier, Stage, Promise!Tiers
      <4> QED
        BY <3>2, <4>1 DEF Promise!Moves
    <3>3. CASE code'[x].refCount # 0 /\ proc'[code'[x].procPtr].code = x
      <4>1. code'[x].procPtr \in Procs /\ code'[x].procPtr # p
        BY <2>2, <2>8, <3>3 DEF IInv, TypeOK, Owned
      <4>2. proc[code'[x].procPtr].code = x
        BY <2>2, <3>3, <4>1
      <4>3. code[x].procPtr = code'[x].procPtr /\ code[x].refCount # 0
        BY <4>1, <4>2, Live DEF IInv, Owned
      <4> QED
        BY <1>1, <2>2, <3>3, <4>1, <4>2, <4>3 DEF Tier
    <3> QED
      BY <3>1, <3>2, <3>3
  <2>9. <<Tier(k), Tier(k)'>> \in Promise!Moves
    BY <2>6, <2>7 DEF Promise!Moves, Promise!Climb
  <2> QED
    BY <2>8, <2>9
<1>7. ASSUME NEW c \in Cmds, NEW k \in Codes, NEW p2 \in Procs, NEW g, PushReplace(c, k, p2, g)
      PROVE  \A x \in Codes : <<Tier(x), Tier(x)'>> \in Promise!Moves
  BY <1>7 DEF PushReplace
\* A call changes the fields of one Proc, as StageMoves says.
<1>8. ASSUME NEW p \in Procs, NEW j,
             \A x \in Procs : x # p => proc'[x] = proc[x],
             proc'[p].code = proc[p].code, proc'[p].jit = j,
             <<Stage(proc[p].jit), Stage(j)>> \in Promise!Moves,
             \A k \in Codes : \/ code'[k].refCount = 0
                              \/ code[k].refCount # 0 /\ code'[k].procPtr = code[k].procPtr
      PROVE  \A k \in Codes : <<Tier(k), Tier(k)'>> \in Promise!Moves
  BY <1>1, <1>8, TierMoves
<1>9. CASE EnterInterpreted
  <2> DEFINE p == frame
             k == proc[frame].code
  <2>1. /\ p \in Procs /\ k \in Codes /\ proc[p] \in ProcRec /\ code[k].refCount > 0
        /\ proc' = [proc EXCEPT ![p].refCount = @ + 1, ![p].jit = Called]
        /\ code' = [code EXCEPT ![k].refCount = @ + 1]
        /\ Called = OnCall(proc[p].jit, proc[p].code, proc[p].leaf)
    BY <1>9, Live DEF EnterInterpreted, IInv, TypeOK, FrameLive, Called
  <2> HIDE DEF p, k
  <2>2. /\ \A x \in Procs : x # p => proc'[x] = proc[x]
        /\ proc'[p].code = proc[p].code /\ proc'[p].jit = Called
    BY <2>1, Live DEF ProcRec
  <2>3. \A x \in Codes : \/ code'[x].refCount = 0
                         \/ code[x].refCount # 0 /\ code'[x].procPtr = code[x].procPtr
    BY <2>1, Live DEF CodeRec
  <2>4. <<Stage(proc[p].jit), Stage(Called)>> \in Promise!Moves
    <3>1. proc[p].jit \in JIT_Proc /\ proc[p].leaf \in BOOLEAN /\ proc[p].code = k
      BY <2>1 DEF ProcRec, k, p
    <3> QED
      BY <2>1, <3>1, StageMoves
  <2> QED
    BY <1>8, <2>1, <2>2, <2>3, <2>4
<1>10. ASSUME NEW r, EnterNative(r)
       PROVE  \A k \in Codes : <<Tier(k), Tier(k)'>> \in Promise!Moves
  <2> DEFINE p == frame
             j == OnResult(Called, r)
  <2>1. /\ p \in Procs /\ proc[p].code \in Codes /\ proc[p] \in ProcRec
        /\ proc' = [proc EXCEPT ![p].jit = j] /\ UNCHANGED code
        /\ Called = OnCall(proc[p].jit, proc[p].code, proc[p].leaf) /\ Called.ncode # NULL
    BY <1>10, Live DEF EnterNative, IInv, TypeOK, FrameLive, Called
  <2> HIDE DEF p, j
  <2>2. /\ \A x \in Procs : x # p => proc'[x] = proc[x]
        /\ proc'[p].code = proc[p].code /\ proc'[p].jit = j
    BY <2>1, Live DEF ProcRec
  <2>3. <<Stage(proc[p].jit), Stage(j)>> \in Promise!Moves
    <3>1. proc[p].jit \in JIT_Proc /\ proc[p].leaf \in BOOLEAN
      BY <2>1 DEF ProcRec
    <3> QED
      BY <2>1, <3>1, StageMoves DEF j
  <2>4. \A x \in Codes : \/ code'[x].refCount = 0
                         \/ code[x].refCount # 0 /\ code'[x].procPtr = code[x].procPtr
    BY <2>1
  <2> QED
    BY <1>8, <2>1, <2>2, <2>3, <2>4
<1>11. ASSUME NEW r, Leave(r)
       PROVE  \A k \in Codes : <<Tier(k), Tier(k)'>> \in Promise!Moves
  <2> DEFINE p  == Top.proc
             k  == Top.code
             pr == [proc EXCEPT ![p].jit = OnResult(@, r)]
             cd == DropCode(code, k)
  <2>1. /\ stack # <<>> /\ stack \in Seq(Activation) /\ Len(stack) \in DOMAIN stack
        /\ proc' = DropProc(pr, p) /\ code' = DropBody(cd, p)
    BY <1>11, Live, EmptySeq, LenProperties DEF Leave
  <2>2. /\ p \in Procs /\ k \in Codes /\ proc[p] \in ProcRec /\ proc \in [Procs -> ProcRec]
        /\ proc[p].refCount > 0 /\ code \in [Codes -> CodeRec] /\ code[k].refCount > 0
    BY <2>1, Live DEF Top
  <2> HIDE DEF p, k
  <2>3. /\ [proc[p] EXCEPT !.jit = OnResult(@, r)] \in ProcRec
        /\ <<Stage(proc[p].jit), Stage(OnResult(proc[p].jit, r))>> \in Promise!Moves
    <3>1. proc[p].jit \in JIT_Proc /\ TRUE \in BOOLEAN
      BY <2>2 DEF ProcRec
    <3> QED
      BY <2>2, <3>1, JitType, StageMoves DEF ProcRec
  <2>4. /\ pr \in [Procs -> ProcRec] /\ \A x \in Procs : x # p => pr[x] = proc[x]
        /\ pr[p].refCount > 0 /\ pr[p].code = proc[p].code /\ pr[p].jit = OnResult(proc[p].jit, r)
    BY <2>2, <2>3 DEF ProcRec
  <2> HIDE DEF pr
  <2>5. \A x \in Procs : \/ proc'[x].code = NULL
                         \/ /\ proc'[x].code = proc[x].code
                            /\ <<Stage(proc[x].jit), Stage(proc'[x].jit)>> \in Promise!Moves
    <3>1. /\ \A x \in Procs : x # p => proc'[x] = pr[x]
          /\ pr[p].refCount = 1 => proc'[p] = NoProc
          /\ pr[p].refCount # 1 => proc'[p].code = pr[p].code /\ proc'[p].jit = pr[p].jit
      BY <2>1, <2>2, <2>4, DropProcEffect
    <3> QED
      BY <1>1, <2>3, <2>4, <3>1 DEF NoProc
  <2>6. \A x \in Codes : \/ code'[x].refCount = 0
                         \/ code[x].refCount # 0 /\ code'[x].procPtr = code[x].procPtr
    <3>1. /\ cd \in [Codes -> CodeRec]
          /\ \A x \in Codes : x # k => cd[x] = code[x]
          /\ cd[k].refCount = code[k].refCount - 1
          /\ code[k].refCount = 1 => cd[k] = NoCode
          /\ code[k].refCount # 1 => cd[k].procPtr = code[k].procPtr
      BY <2>2, DropCodeEffect
    <3>2. proc[p].code # NULL => proc[p].code \in Codes /\ cd[proc[p].code].refCount > 0
      <4> SUFFICES ASSUME proc[p].code # NULL
                   PROVE  proc[p].code \in Codes /\ cd[proc[p].code].refCount > 0
        OBVIOUS
      <4>1. /\ proc[p].code \in Codes /\ code[proc[p].code].refCount > 0
            /\ code[proc[p].code].refCount = 1 =>
                 \A i \in DOMAIN stack : stack[i].code # proc[p].code
            /\ code[proc[p].code].refCount \in Nat
        BY <2>2, Live DEF CodeRec
      <4>2. code[k].refCount = 1 => proc[p].code # k
        BY <2>1, <4>1 DEF k, Top
      <4> HIDE DEF cd
      <4> QED
        BY <3>1, <4>1, <4>2
    <3> HIDE DEF cd
    <3>3. \A x \in Codes : LET gone == proc[p].refCount = 1 /\ proc[p].code = x IN
            /\ ~gone => code'[x] = cd[x]
            /\ gone => code'[x].refCount = cd[x].refCount - 1
            /\ gone /\ cd[x].refCount = 1 => code'[x] = NoCode
            /\ gone /\ cd[x].refCount # 1 => code'[x].procPtr = cd[x].procPtr
      BY <2>1, <2>2, <3>1, <3>2, DropBodyEffect
    <3>4. \A x \in Codes : \/ cd[x].refCount = 0
                           \/ code[x].refCount # 0 /\ cd[x].procPtr = code[x].procPtr
      BY <2>2, <3>1 DEF NoCode
    <3> SUFFICES ASSUME NEW x \in Codes, code'[x].refCount # 0
                 PROVE  code[x].refCount # 0 /\ code'[x].procPtr = code[x].procPtr
      OBVIOUS
    <3>5. cd[x].refCount # 0 /\ code'[x].procPtr = cd[x].procPtr
      BY <3>2, <3>3 DEF NoCode
    <3> QED
      BY <3>4, <3>5
  <2> QED
    BY <2>5, <2>6, TierMoves
<1>12. CASE UNCHANGED <<proc, code>>
  <2>1. \A k \in Codes : \/ code'[k].refCount = 0
                         \/ code[k].refCount # 0 /\ code'[k].procPtr = code[k].procPtr
    BY <1>12
  <2> QED
    BY <1>2, <1>12, <2>1
<1> QED
  BY <1>4, <1>5, <1>6, <1>7, <1>9, <1>10, <1>11, <1>12
     DEF Next, vars, BumpEpoch, PushFresh, CallRejected, EnterWild, Collect

\* Every body climbs to native code or rejection once, in the order of JitTier.
THEOREM Implements ==
    ASSUME Reentrant = FALSE
    PROVE  Spec => TierSpec
<1> DEFINE tier == [k \in Codes |-> Tier(k)]
<1>1. Init => tier = [k \in Codes |-> "none"]
  BY DEF Init, NoCode, Tier
<1>2. IInv /\ IInv' /\ JitSound /\ [Next]_vars => [Promise!Next]_tier
  <2> SUFFICES ASSUME IInv, IInv', JitSound, [Next]_vars PROVE Promise!Next
    OBVIOUS
  <2>1. \A k \in Codes : <<Tier(k), Tier(k)'>> \in Promise!Moves
    BY StepMoves
  <2>2. \A k \in Codes : Tier(k)' \in Promise!Tiers
    BY DEF Tier, Stage, Promise!Tiers
  <2> QED
    BY <2>1, <2>2 DEF Promise!Next
<1> QED
  BY <1>1, <1>2, Sound, PTL DEF Spec, TierSpec, Promise!Spec, Promise!Init

\* A body compiled anew starts with the fields of a new procedure.
THEOREM StartsFresh ==
    ASSUME Reentrant = FALSE
    PROVE  Spec => FreshStart
<1> USE ProcAssumption
<1> DEFINE Ok == \A p \in Procs : proc'[p].code # NULL /\ proc'[p].code # proc[p].code =>
                                  proc'[p].jit = JIT_PROCSETUP
<1>1. IInv /\ IInv' /\ JitSound /\ [Next]_vars => [Ok]_vars
  <2> SUFFICES ASSUME IInv, JitSound, Next PROVE Ok
    OBVIOUS
  <2> HIDE DEF Ok
  <2>1. ASSUME \A p \in Procs : proc'[p].code \in {NULL, proc[p].code} PROVE Ok
    BY <2>1 DEF Ok
  \* Only the compiler gives a Proc new bytecode.
  <2>2. \A q \in Procs, pr \in [Procs -> ProcRec] : pr[q].refCount > 0 =>
          \A p \in Procs : DropProc(pr, q)[p].code \in {NULL, pr[p].code}
    BY DropProcEffect DEF NoProc
  <2>3. ASSUME NEW c \in Cmds, NEW p \in Procs, NEW leaf \in BOOLEAN, CreateProc(c, p, leaf)
        PROVE  Ok
    <3> DEFINE q   == cmd[c]
               pr  == IF q = NULL THEN proc ELSE DropProc(proc, q)
               new == [refCount |-> 1, code |-> NULL, leaf |-> leaf, jit |-> JIT_PROCSETUP]
    <3>1. (q # NULL => q \in Procs /\ proc[q].refCount > 0) /\ proc' = [pr EXCEPT ![p] = new]
          /\ proc \in [Procs -> ProcRec]
      BY <2>3, Live DEF CreateProc
    <3> HIDE DEF q
    <3>2. pr \in [Procs -> ProcRec] /\ \A x \in Procs : pr[x].code \in {NULL, proc[x].code}
      BY <2>2, <3>1, DropProcEffect
    <3> HIDE DEF pr
    <3>3. proc'[p].code = NULL /\ \A x \in Procs : x # p => proc'[x] = pr[x]
      BY <3>1, <3>2
    <3> QED
      BY <2>1, <3>2, <3>3
  <2>4. ASSUME NEW c \in Cmds, DeleteProc(c) PROVE Ok
    <3>1. cmd[c] \in Procs /\ proc[cmd[c]].refCount > 0 /\ proc' = DropProc(proc, cmd[c])
          /\ proc \in [Procs -> ProcRec]
      BY <2>4, Live DEF DeleteProc
    <3> QED
      BY <2>1, <2>2, <3>1
  <2>5. ASSUME NEW c \in Cmds, NEW k \in Codes, PushRecompile(c, k) PROVE Ok
    <3> DEFINE p == cmd[c]
    <3>1. p \in Procs /\ proc' = [proc EXCEPT ![p].code = k, ![p].jit = ResetJit(p)]
      BY <2>5, Live DEF PushRecompile
    <3> HIDE DEF p
    <3>2. proc'[p].jit = ResetJit(p) /\ \A x \in Procs : x # p => proc'[x] = proc[x]
      BY <3>1, Live DEF ProcRec
    <3>3. ResetJit(p) = JIT_PROCSETUP
      BY <3>1 DEF ResetJit, JIT_PROCRESET, JitSound, JitFits
    <3> QED
      BY <3>2, <3>3 DEF Ok
  <2>6. ASSUME NEW c \in Cmds, NEW k \in Codes, NEW p2 \in Procs, NEW g, PushReplace(c, k, p2, g)
        PROVE Ok
    BY <2>6 DEF PushReplace
  <2>7. CASE EnterInterpreted \/ \E r : EnterNative(r)
    <3>1. frame \in Procs
      BY <2>7 DEF EnterInterpreted, EnterNative, IInv, TypeOK
    <3>2. \E rec : /\ proc' = [proc EXCEPT ![frame] = rec]
                   /\ rec.code = proc[frame].code
      <4>1. CASE EnterInterpreted
        <5>1. proc' = [proc EXCEPT ![frame] = [proc[frame] EXCEPT !.refCount = @ + 1, !.jit = Called]]
          BY <3>1, <4>1, Live DEF EnterInterpreted
        <5>2. [proc[frame] EXCEPT !.refCount = @ + 1, !.jit = Called].code = proc[frame].code
          BY <3>1, Live DEF ProcRec
        <5> QED
          BY <5>1, <5>2
      <4>2. ASSUME NEW r, EnterNative(r)
            PROVE  /\ proc' = [proc EXCEPT ![frame] = [proc[frame] EXCEPT !.jit = OnResult(Called, r)]]
                   /\ [proc[frame] EXCEPT !.jit = OnResult(Called, r)].code = proc[frame].code
        BY <3>1, <4>2, Live DEF EnterNative, ProcRec
      <4> QED
        BY <2>7, <4>1, <4>2
    <3>3. \A x \in Procs : proc'[x].code = proc[x].code
      BY <3>1, <3>2, Live
    <3> QED
      BY <2>1, <3>3
  <2>8. ASSUME NEW r, Leave(r) PROVE Ok
    <3> DEFINE p  == Top.proc
               pr == [proc EXCEPT ![p].jit = OnResult(@, r)]
    <3>1. /\ Len(stack) \in DOMAIN stack /\ proc' = DropProc(pr, p)
      BY <2>8, Live, EmptySeq, LenProperties DEF Leave
    <3>2. p \in Procs /\ proc[p] \in ProcRec /\ proc[p].refCount > 0 /\ proc \in [Procs -> ProcRec]
      BY <3>1, Live DEF Top
    <3> HIDE DEF p
    <3>3. [proc[p] EXCEPT !.jit = OnResult(@, r)] \in ProcRec
      BY <3>2, JitType DEF ProcRec
    <3>4. pr \in [Procs -> ProcRec] /\ pr[p].refCount > 0
          /\ \A x \in Procs : pr[x].code = proc[x].code
      BY <3>2, <3>3 DEF ProcRec
    <3> HIDE DEF pr
    <3> QED
      BY <2>1, <2>2, <3>1, <3>2, <3>4
  <2>9. CASE UNCHANGED proc
    BY <2>1, <2>9
  <2> QED
    BY <2>3, <2>4, <2>5, <2>6, <2>7, <2>8, <2>9
       DEF Next, BumpEpoch, PushFresh, CallRejected, EnterWild, Collect
<1> QED
  BY <1>1, Sound, PTL DEF Spec, FreshStart

=============================================================================
