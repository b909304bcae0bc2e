------------------------------- MODULE JitProc -------------------------------
(***************************************************************************)
(* The life of a procedure under the JIT: the JIT_Proc fields that         *)
(* generic/jit/tclJitConf.h adds to every Proc, and the code of            *)
(* generic/tclProc.c that keeps them: creation (TclCreateProc), the push   *)
(* of a call frame with the recompilation of stale bytecode                *)
(* (PushProcCallFrame, ProcCompileProc), the call itself                   *)
(* (TclObjInterpProcCore) and deletion (TclProcDeleteProc).                *)
(*                                                                         *)
(* One interpreter in one thread: calls nest, so the activations in        *)
(* progress form a stack and only the top one acts.  Addresses of Proc and *)
(* ByteCode structures are the members of Procs and Codes; a structure     *)
(* whose refCount is 0 is free.                                            *)
(***************************************************************************)
EXTENDS Naturals, Sequences, FiniteSets

CONSTANTS
    Cmds,          \* names of procedure commands
    Procs,         \* addresses of Proc structures
    Codes,         \* addresses of ByteCode structures
    NULL,          \* the null pointer
    WILD,          \* a pointer read from memory nobody initialised
    JIT_REQINVOKE, \* calls required before the JIT compiler is tried
    MaxDepth,      \* bound on nested activations
    MaxEpoch,      \* bound on compileEpoch
    Reentrant      \* TRUE: a body may run after its own bytecode went stale

ASSUME ProcAssumption ==
    /\ IsFiniteSet(Cmds)
    /\ NULL \notin Procs \cup Codes
    /\ WILD \notin Codes \cup {NULL}
    /\ JIT_REQINVOKE \in Nat
    /\ MaxDepth \in Nat /\ MaxEpoch \in Nat
    /\ Reentrant \in BOOLEAN

VARIABLES
    cmd,    \* the Proc each command runs (objClientData), or NULL
    proc,   \* the Proc structures
    code,   \* the ByteCode structures
    stack,  \* activations in progress, the running one last
    frame,  \* the Proc whose call frame is pushed but not yet entered
    epoch,  \* the interpreter's compileEpoch
    fault   \* "none", or the memory error that stopped the process

vars == <<cmd, proc, code, stack, frame, epoch, fault>>

------------------------------------------------------------------------------
(* The JIT_Proc structure and its macros.                                   *)

MaxCount == IF JIT_REQINVOKE > 0 THEN JIT_REQINVOKE ELSE 1

JIT_Proc == [eligible: BOOLEAN, callCount: 0..MaxCount, ncode: Codes \cup {NULL, WILD},
             collecting: BOOLEAN, types: Codes \cup {NULL, WILD}]

\* The fields ncode and types are named after the bytecode they were made
\* from: the bytecode compiled, and the bytecode whose length was allocated.
JIT_PROCSETUP == [eligible |-> TRUE, callCount |-> MaxCount, ncode |-> NULL,
                  collecting |-> FALSE, types |-> NULL]

\* Mutant: the count goes on below 0.
CountsOn(j) == IF j.eligible THEN [j EXCEPT !.callCount = @ - 1] ELSE j

JIT_UPDATEPROCCOUNT(j) ==
    IF j.callCount > 0 /\ j.eligible THEN [j EXCEPT !.callCount = @ - 1] ELSE j

\* Mutants: a field outlives the bytecode it was made for.
ResetKeepsTypes(j) == [JIT_PROCSETUP EXCEPT !.collecting = j.collecting, !.types = j.types]
ResetKeepsFlag(j) == [JIT_PROCSETUP EXCEPT !.collecting = j.collecting]
ResetKeepsNative(j) == [JIT_PROCSETUP EXCEPT !.ncode = j.ncode]
ResetKeepsEligible(j) == [JIT_PROCSETUP EXCEPT !.eligible = j.eligible]

\* The native code and the type table are dropped with the old bytecode.
JIT_PROCRESET(j) == JIT_PROCSETUP

\* JIT_PROCRESET frees whatever bytecodeTypes holds when collectingTypes says so.
FreesWild(j) == j.collecting /\ j.types = WILD

\* The type table is allocated on the first call.
AllocTypes(j, k) == IF j.collecting THEN j ELSE [j EXCEPT !.collecting = TRUE, !.types = k]

WantsCompile(j) == j.eligible /\ j.ncode = NULL /\ j.callCount = 0

\* JIT_Compile succeeds exactly on bodies made of supported instructions.
JIT_Compile(j, k, leaf) ==
    IF leaf THEN [j EXCEPT !.eligible = TRUE, !.ncode = k] ELSE [j EXCEPT !.eligible = FALSE]

\* The fields as they stand when TclObjInterpProcCore picks native or interpreted.
OnCall(j, k, leaf) ==
    LET a == AllocTypes(j, k)
    IN  JIT_UPDATEPROCCOUNT(IF WantsCompile(a) THEN JIT_Compile(a, k, leaf) ELSE a)

\* JIT_Compile reads the type table at the arithmetic it meets.
CompileFaults(j, k) == LET a == AllocTypes(j, k) IN WantsCompile(a) /\ a.types \notin Codes

\* Mutant: native code that failed once is thrown away.
DiscardsOnError(j, r) == IF r = "ERROR" THEN [j EXCEPT !.eligible = FALSE, !.ncode = NULL] ELSE j

\* A failed call makes the procedure ineligible; native code stays installed.
OnResult(j, r) == IF r \in {"ERROR", "CONTINUE", "BREAK"} THEN [j EXCEPT !.eligible = FALSE] ELSE j

------------------------------------------------------------------------------
(* Reference counts.  TclProcCleanupProc frees the Proc and its body, and   *)
(* with the body the reference to its bytecode.                             *)

FreeProcs == {p \in Procs : proc[p].refCount = 0}
FreeCodes == {k \in Codes : code[k].refCount = 0}

NoProc == [refCount |-> 0, code |-> NULL, leaf |-> FALSE, jit |-> JIT_PROCSETUP]
NoCode == [refCount |-> 0, procPtr |-> NULL, epoch |-> 0]

\* Mutants: freed whoever else holds a reference.
FreesProc(pr, p) == [pr EXCEPT ![p] = NoProc]
FreesCode(cd, k) == [cd EXCEPT ![k] = NoCode]

\* The structures pr (cd) after one reference to p (k) is dropped.
DropProc(pr, p) ==
    IF pr[p].refCount = 1 THEN [pr EXCEPT ![p] = NoProc] ELSE [pr EXCEPT ![p].refCount = @ - 1]
DropCode(cd, k) ==
    IF cd[k].refCount = 1 THEN [cd EXCEPT ![k] = NoCode] ELSE [cd EXCEPT ![k].refCount = @ - 1]

\* The bytecodes cd after one reference to p is dropped: the body goes with p.
DropBody(cd, p) ==
    IF proc[p].refCount = 1 /\ proc[p].code # NULL THEN DropCode(cd, proc[p].code) ELSE cd

------------------------------------------------------------------------------
Top == stack[Len(stack)]

\* Scripts run commands: at the top level, or from the running body unless it
\* is a leaf body, whose instructions call nothing.
Running == /\ fault = "none" /\ frame = NULL
           /\ stack # <<>> => ~proc[Top.proc].leaf

Init ==
    /\ cmd = [c \in Cmds |-> NULL]
    /\ proc = [p \in Procs |-> NoProc]
    /\ code = [k \in Codes |-> NoCode]
    /\ stack = <<>> /\ frame = NULL /\ epoch = 0 /\ fault = "none"

\* [proc name args body]: a fresh Proc replaces the command's old one.
CreateProc(c, p, leaf) ==
    /\ Running /\ proc[p].refCount = 0
    /\ LET q  == cmd[c]
           pr == IF q = NULL THEN proc ELSE DropProc(proc, q)
       IN  /\ proc' = [pr EXCEPT ![p] = [refCount |-> 1, code |-> NULL, leaf |-> leaf,
                                         jit |-> JIT_PROCSETUP]]
           /\ code' = IF q = NULL THEN code ELSE DropBody(code, q)
    /\ cmd' = [cmd EXCEPT ![c] = p]
    /\ UNCHANGED <<stack, frame, epoch, fault>>

\* [rename name ""]: TclProcDeleteProc.
DeleteProc(c) ==
    /\ Running /\ cmd[c] # NULL
    /\ proc' = DropProc(proc, cmd[c]) /\ code' = DropBody(code, cmd[c])
    /\ cmd' = [cmd EXCEPT ![c] = NULL]
    /\ UNCHANGED <<stack, frame, epoch, fault>>

\* A command with a compile procedure is renamed, hidden, replaced or traced:
\* all bytecode goes stale.
BumpEpoch ==
    /\ Running /\ epoch < MaxEpoch
    /\ epoch' = epoch + 1
    /\ UNCHANGED <<cmd, proc, code, stack, frame, fault>>

Fresh(p) == proc[p].code # NULL /\ code[proc[p].code].epoch = epoch

\* PushProcCallFrame with bytecode that is still valid.
PushFresh(c) ==
    /\ Running /\ Len(stack) < MaxDepth /\ cmd[c] # NULL /\ Fresh(cmd[c])
    /\ frame' = cmd[c]
    /\ UNCHANGED <<cmd, proc, code, stack, epoch, fault>>

\* Mutant: the stale bytecode is freed although an activation runs it.
RecompiledOver(p, k, procPtr) ==
    [code EXCEPT ![IF proc[p].code = NULL THEN k ELSE proc[p].code] = NoCode,
                 ![k] = [refCount |-> 1, procPtr |-> procPtr, epoch |-> epoch]]

\* The bytecodes once p's stale one is freed and k is compiled for procPtr.
Recompiled(p, k, procPtr) ==
    LET freed == IF proc[p].code = NULL THEN code ELSE DropCode(code, proc[p].code)
    IN  [freed EXCEPT ![k] = [refCount |-> 1, procPtr |-> procPtr, epoch |-> epoch]]

\* Only a body that had bytecode is reset.
ResetJit(p) == IF proc[p].code = NULL THEN proc[p].jit ELSE JIT_PROCRESET(proc[p].jit)
ResetFault(p) == IF proc[p].code # NULL /\ FreesWild(proc[p].jit) THEN "free" ELSE "none"

\* ProcCompileProc on a Proc that no activation uses: compiled in place.
PushRecompile(c, k) ==
    /\ Running /\ Len(stack) < MaxDepth /\ cmd[c] # NULL /\ ~Fresh(cmd[c])
    /\ k \in FreeCodes
    /\ LET p == cmd[c]
       IN  /\ proc[p].refCount = 1
           /\ code' = Recompiled(p, k, p)
           /\ proc' = [proc EXCEPT ![p].code = k, ![p].jit = ResetJit(p)]
           /\ fault' = ResetFault(p)
           /\ frame' = p
    /\ UNCHANGED <<cmd, stack, epoch>>

\* ProcCompileProc on a Proc in use: the bytecode is compiled for a copy, whose
\* JIT_Proc fields hold whatever the allocator returned, and the command is
\* redirected to the copy.
PushReplace(c, k, p2, garbage) ==
    /\ Running /\ Len(stack) < MaxDepth /\ cmd[c] # NULL /\ ~Fresh(cmd[c])
    /\ Reentrant
    /\ k \in FreeCodes /\ p2 \in FreeProcs
    /\ LET p == cmd[c]
       IN  /\ proc[p].refCount > 1
           /\ code' = Recompiled(p, k, p2)
           /\ proc' = [proc EXCEPT ![p].refCount = @ - 1, ![p].code = NULL, ![p].jit = ResetJit(p),
                         ![p2] = [refCount |-> 1, code |-> k, leaf |-> proc[p].leaf, jit |-> garbage]]
           /\ fault' = ResetFault(p)
    /\ cmd' = [cmd EXCEPT ![c] = p2] /\ frame' = p2
    /\ UNCHANGED <<stack, epoch>>

\* The call ends before the body: wrong arguments (InitArgsAndLocals) or an
\* interpreter that is not ready (TclInterpReady).
CallRejected ==
    /\ fault = "none" /\ frame # NULL
    /\ frame' = NULL
    /\ UNCHANGED <<cmd, proc, code, stack, epoch, fault>>

Called == OnCall(proc[frame].jit, proc[frame].code, proc[frame].leaf)

\* TclObjInterpProcCore, interpreting: the activation starts.
EnterInterpreted ==
    /\ fault = "none" /\ frame # NULL /\ Called.ncode = NULL
    /\ proc' = [proc EXCEPT ![frame].refCount = @ + 1, ![frame].jit = Called]
    /\ code' = [code EXCEPT ![proc[frame].code].refCount = @ + 1]
    /\ stack' = Append(stack, [proc |-> frame, code |-> proc[frame].code])
    /\ frame' = NULL
    /\ UNCHANGED <<cmd, epoch, fault>>

\* TclObjInterpProcCore, native: the call runs to its end, since native code
\* calls no script.  JIT_RESULT_INTERPRET has become "ERROR".
EnterNative(r) ==
    /\ fault = "none" /\ frame # NULL /\ Called.ncode \in Codes
    /\ r \in {"OK", "ERROR"}
    /\ proc' = [proc EXCEPT ![frame].jit = OnResult(Called, r)]
    /\ frame' = NULL
    /\ UNCHANGED <<cmd, code, stack, epoch, fault>>

\* The call, or the compiler it starts, follows a pointer never initialised.
EnterWild ==
    /\ fault = "none" /\ frame # NULL
    /\ Called.ncode = WILD \/ CompileFaults(proc[frame].jit, proc[frame].code)
    /\ fault' = "jump"
    /\ UNCHANGED <<cmd, proc, code, stack, frame, epoch>>

\* The running body executes arithmetic: the hooks of TclExecuteByteCode index
\* the type table of the Proc the bytecode belongs to.
Collect ==
    /\ fault = "none" /\ frame = NULL /\ stack # <<>>
    /\ fault' = IF proc[code[Top.code].procPtr].jit.types \in Codes THEN "none" ELSE "types"
    /\ UNCHANGED <<cmd, proc, code, stack, frame, epoch>>

\* The running body returns r: the rest of TclObjInterpProcCore.
Leave(r) ==
    /\ fault = "none" /\ frame = NULL /\ stack # <<>>
    /\ LET p == Top.proc
       IN  /\ proc' = DropProc([proc EXCEPT ![p].jit = OnResult(@, r)], p)
           /\ code' = DropBody(DropCode(code, Top.code), p)
    /\ stack' = SubSeq(stack, 1, Len(stack) - 1)
    /\ UNCHANGED <<cmd, frame, epoch, fault>>

Results == {"OK", "RETURN", "ERROR", "BREAK", "CONTINUE"}

Next ==
    \/ \E c \in Cmds, p \in Procs, leaf \in BOOLEAN : CreateProc(c, p, leaf)
    \/ \E c \in Cmds : DeleteProc(c)
    \/ BumpEpoch
    \/ \E c \in Cmds : PushFresh(c)
    \/ \E c \in Cmds, k \in Codes : PushRecompile(c, k)
    \/ \E c \in Cmds, k \in Codes, p2 \in Procs :
         \E garbage \in [eligible: BOOLEAN, callCount: 0..MaxCount, ncode: {NULL, WILD},
                         collecting: BOOLEAN, types: {NULL, WILD}] :
           PushReplace(c, k, p2, garbage)
    \/ CallRejected
    \/ EnterInterpreted
    \/ \E r \in {"OK", "ERROR"} : EnterNative(r)
    \/ EnterWild
    \/ Collect
    \/ \E r \in Results : Leave(r)

Spec == Init /\ [][Next]_vars

------------------------------------------------------------------------------
(* What makes the life cycle correct.                                       *)

\* Every variable holds a value of its type.
TypeOK ==
    /\ cmd \in [Cmds -> Procs \cup {NULL}]
    /\ proc \in [Procs -> [refCount: Nat, code: Codes \cup {NULL}, leaf: BOOLEAN, jit: JIT_Proc]]
    /\ code \in [Codes -> [refCount: Nat, procPtr: Procs \cup {NULL}, epoch: Nat]]
    /\ stack \in Seq([proc: Procs, code: Codes])
    /\ frame \in Procs \cup {NULL}
    /\ epoch \in Nat
    /\ fault \in {"none", "free", "jump", "types"}

NamedBy(p) == {c \in Cmds : cmd[c] = p}
RunBy(p)   == {i \in DOMAIN stack : stack[i].proc = p}
RunsOf(k)  == {i \in DOMAIN stack : stack[i].code = k}

\* A Proc is referenced by its command and its activations, and by nothing else
\* (procPtr->refCount in TclObjInterpProcCore and ProcCompileProc).
RefCountExact ==
    \A p \in Procs : proc[p].refCount = Cardinality(NamedBy(p)) + Cardinality(RunBy(p))

\* An activation never outlives the structures it runs on: its Proc and its
\* bytecode are allocated and the bytecode belongs to that Proc, also after the
\* procedure was deleted, redefined or recompiled under it.
ActivationsLive ==
    \A i \in DOMAIN stack : LET a == stack[i] IN
        /\ proc[a.proc].refCount > 0 /\ code[a.code].refCount > 0
        /\ code[a.code].procPtr = a.proc

\* The interpreter's hooks find, for every body in progress, a type table made
\* for the bytecode it is executing (calloc of numCodeBytes in
\* TclObjInterpProcCore, indexed by JIT_TYPE_RESOLVED in TclExecuteByteCode).
TypeTableFits ==
    \A i \in DOMAIN stack : proc[code[stack[i].code].procPtr].jit.types = stack[i].code

\* Native code is run only in place of the bytecode it was compiled from: what
\* a recompilation leaves behind is never called.
NativeIsCurrent ==
    \A p \in Procs : proc[p].refCount > 0 /\ proc[p].jit.ncode # NULL =>
                     proc[p].jit.ncode = proc[p].code

\* The process is not stopped by a memory error of the JIT's bookkeeping.
NoFault == fault = "none"

\* A body compiled anew starts with the fields of a new procedure: nothing of
\* an earlier body decides how it is run (JIT_PROCRESET in ProcCompileProc).
FreshStart ==
    [][\A p \in Procs : proc'[p].code # NULL /\ proc'[p].code # proc[p].code =>
                        proc'[p].jit = JIT_PROCSETUP]_vars

\* The stage the fields j say a body has reached.
Stage(j) == IF j.ncode # NULL THEN "native"
            ELSE IF ~j.eligible THEN "rejected"
            ELSE IF j.callCount = 0 THEN "warm" ELSE "cold"

\* The stage of body k; a body its Proc has given up reaches no call.
Tier(k) ==
    IF code[k].refCount = 0 THEN "none"
    ELSE LET p == proc[code[k].procPtr] IN IF p.code = k THEN Stage(p.jit) ELSE "none"

Promise == INSTANCE JitTier WITH tier <- [k \in Codes |-> Tier(k)]

\* Every body climbs from interpretation to native code or rejection once, in
\* that order, and never comes back (the specification of JitTier).
TierSpec == Promise!Spec

------------------------------------------------------------------------------
(* The inductive invariant behind the properties above.                     *)

Body(k) == IF \E p \in Procs : proc[p].code = k THEN 1 ELSE 0

\* A bytecode is referenced by the body it was compiled from and by activations.
CodeCountExact == \A k \in Codes : code[k].refCount = Body(k) + Cardinality(RunsOf(k))

\* A body's bytecode is its own, and only allocated structures have content.
Owned ==
    /\ \A p \in Procs : proc[p].code # NULL => code[proc[p].code].procPtr = p
    /\ \A p \in Procs : proc[p].refCount = 0 => proc[p] = NoProc
    /\ \A k \in Codes : code[k].refCount = 0 => code[k] = NoCode
    /\ \A k \in Codes : code[k].refCount > 0 => code[k].procPtr # NULL

\* A pushed frame is about to run an allocated Proc that has bytecode.
FrameLive == frame # NULL => proc[frame].refCount > 0 /\ proc[frame].code # NULL

\* The bytecode an activation executes belongs to the activation's Proc.
RunsOwn == \A i \in DOMAIN stack : code[stack[i].code].procPtr = stack[i].proc

IInv == TypeOK /\ RefCountExact /\ CodeCountExact /\ Owned /\ FrameLive /\ RunsOwn

\* Native code and type table of a Proc were made from the bytecode it has.
JitFits(r) ==
    /\ r.jit.ncode # NULL => r.jit.ncode = r.code
    /\ r.jit.types = IF r.jit.collecting THEN r.code ELSE NULL
    /\ r.code = NULL => r.jit = JIT_PROCSETUP

\* What the JIT fields may hold when no body is recompiled while it runs.
JitSound ==
    /\ \A p \in Procs : JitFits(proc[p])
    /\ \A i \in DOMAIN stack : LET p == proc[stack[i].proc] IN
         p.code = stack[i].code /\ p.jit.collecting
    /\ fault = "none"
==============================================================================
