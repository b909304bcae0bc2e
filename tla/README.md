# tcljit: a specification

tcljit is Tcl 8.5 with a just-in-time compiler for procedure bodies that work on
integers (`trunk/generic/jit`, hooked into `trunk/generic/tclProc.c` and
`tclExecute.c`; the design is the thesis under `branches/tcc`). These modules
specify the JIT and the concurrent side of the runtime it is built into: the event
queue, timers and idle handlers, the Unix notifier, preserved blocks of memory, and
channels whose handlers live in another thread. Paths below are relative to
`trunk/generic` unless they start with `trunk` or `branches`; `unix/` is
`trunk/unix`.

## 1. The system

| part | state | operations | who calls it |
|---|---|---|---|
| procedure life cycle (`tclProc.c`, `jit/tclJitConf.h`) | `Proc` (`refCount`, body, `jitproc`), `ByteCode` (`refCount`, `procPtr`, `compileEpoch`), the stack of call frames, `iPtr->compileEpoch` | `proc`, `rename`, a call, recompilation of stale bytecode, return | scripts |
| JIT front end (`jit/tclJitCompile.c`) | leaders, the map from bytecode to blocks, a simulated stack, registers, blocks of quadruples (the stack, its index and the register counter are static variables) | `JIT_Compile` | `TclObjInterpProcCore`, on the call after `JIT_REQINVOKE` |
| type collection (`jit/tclJitTypeCollect.c`, hooks in `tclExecute.c`) | `jitproc.bytecodeTypes`, one entry for each byte of the bytecode | `JIT_ResolveType`, `JIT_TYPE_COLLECT` | the interpreter at arithmetic; the front end reads it |
| code generator (`jit/tclJitCodeGen.c`) | one page of machine code, the blocks visited | `JIT_CodeGen`, `dfs`, `codegen` | the front end |
| assembler (`jit/arch/x86`) | `codeEnd`, the tables `labels` and `toPatch` (static variables) | instruction macros, `jumpEqual`, `jumpNotEqual`, `jumpTo`, `makeLabel` | the code generator |
| native code | machine registers, the stack slots of the locals | runs to its end, or returns `JIT_RESULT_INTERPRET` | `TclObjInterpProcCore` |
| event queue (`tclNotify.c`) | per thread: a linked list with `firstEventPtr`, `lastEventPtr`, `markerEventPtr`, under `queueMutex` | `QueueEvent` at three positions, `Tcl_ServiceEvent`, `Tcl_DeleteEvents` | any thread queues; its own thread serves |
| timers, idle handlers, the loop (`tclTimer.c`, `tclNotify.c`) | per thread: the list of timers, `timerPending`, the list of idle handlers and its generation | `Tcl_CreateTimerHandler`, `Tcl_DoWhenIdle`, their deletion, `Tcl_DoOneEvent`, `Tcl_ServiceAll` and the passes `TimerHandlerEventProc`, `TclServiceIdle` | scripts (`after`, `update`, `vwait`) and C code; handlers, recursively |
| Unix notifier (`unix/tclUnixNotfy.c`) | per thread: file handlers and masks, `eventReady`, `pollState`, a condition variable; for the process: `waitingListPtr`, the trigger pipe, `notifierCount`, a notifier thread | `Tcl_InitNotifier`, `Tcl_FinalizeNotifier`, file handlers, `Tcl_WaitForEvent`, `Tcl_AlertNotifier`, `NotifierThreadProc` | the event loop of each thread |
| preserved blocks (`tclPreserve.c`) | `refArray`, `spaceAvl`, `inUse`, one table for the process under `preserveMutex` | `Tcl_Preserve`, `Tcl_Release`, `Tcl_EventuallyFree` | whoever must outlive a callback; every thread |
| reflected channels (`tclIORChan.c`) | `ReflectedChannel` in a map of its interpreter and one of its thread; `ForwardingEvent`, `ForwardingResult` and `forwardList` under `rcForwardMutex` | `ForwardOpToOwnerThread`, `ForwardProc`, the deletion of both maps | the thread a channel was moved to; the event queue of the handler's thread; `interp delete`, `thread exit` |
| the rest of Tcl (bytecode compiler and interpreter, commands, variables, channels, encodings, regular expressions, numbers, platforms, libraries) | everything else | | |

They meet in a few places. A call of a procedure goes through the life cycle to the
front end, the code generator and the assembler, in one thread and without a break.
An operation on a channel of another thread becomes an event in that thread's queue
(`tclIORChan.c` on `tclNotify.c`), the queue's thread is woken by the notifier
(`Tcl_ThreadAlert` on `Tcl_AlertNotifier`), the event's handler runs a script, which
may run an event loop of its own, delete interpreters (kept by `Tcl_Preserve` until
the script has ended) or exit the thread.

### What is hard

One interpreter belongs to one thread, and inside it there is no preemption: what
makes the JIT, the event queue and the timers hard is *reentrancy*. A body in
progress may redefine, delete, rename or call the very procedure it belongs to and
make all bytecode stale; a handler may run an event loop that serves, deletes and
queues events of the list its caller is walking. The second difficulty is *order*:
machine code is written in one pass over a cyclic graph, so jumps are written before
their destinations exist; events are linked in at three positions with three rules.
The third are *limits*: a page, a patch list, a byte of displacement, a pipe that
does not block. Between threads it is *what may happen while the mutex is free*: a
result is answered while its owner exits, an event is queued between the last look
into the queue and the wait, a procedure that frees a block runs after the table
was unlocked. Nothing is persisted and there is no recovery; messages are not lost,
but those who should answer them may go away. The static variables of the front end
and the assembler are shared by all threads without a lock.

What makes each part correct:

* life cycle: no activation outlives its `Proc` or its bytecode; native code and
  type table always belong to the current bytecode; each body gets one attempt at
  native code and keeps the outcome; recompilation starts from fresh fields.
* code generator and assembler: the code of every block is present, blocks that
  do not end in a jump are followed by their successor, every jump reaches its
  label, no jump is left unpatched, code and patch lists fit, the walk ends.
* front end: blocks partition the bytecode at the real leaders, destinations map
  to the block that starts there, quadruples compute what the bytecode does.
* types: a type, once resolved, only moves up; a position never stops the process.
* event queue: the list stays linked and in the documented order; each event is
  handled once and freed after that.
* timers and idle handlers: a pass calls what was due when it began, all of it and
  nothing else, and what is due is called in the end.
* notifier: nobody sleeps through an event, a ready file or a poll it asked for; what
  is documented as protected by a mutex is; starting and stopping ends.
* preserved blocks: a block that is given up ends when its last use is over, once.
* reflected channels: every operation comes back to the thread that started it, told
  truthfully what became of it; nothing is leaked, freed twice or used when free.

## 2. Modules

| module | role |
|---|---|
| `JitTier` | what the JIT promises about one body: none, cold, warm, then native or rejected, and nothing else |
| `JitProc` | the life cycle of procedures, bytecodes and activations; implements `JitTier` |
| `MCJitProc` | symmetry for TLC |
| `JitProc_proofs` | theorems about `JitProc` |
| `JitBlocks` | one call of `JIT_Compile`: from bytecode to blocks with exits |
| `MCJitBlocks` | bodies for TLC |
| `JitBlocks_proofs` | theorems about `JitBlocks` |
| `JitMCode` | the assembler as operators on a record: `Emit`, `Jump`, `makeLabel` |
| `JitCodeGen` | `JIT_CodeGen`: the walk over the blocks, on top of `JitMCode` |
| `MCJitCodeGen` | graphs for TLC |
| `JitCodeGen_proofs` | theorems about `JitMCode` and `JitCodeGen` |
| `Lists` | linked lists as sequences: what unlinking leaves, and the order |
| `EventQueue` | the queue of one thread, and the activations of `Tcl_ServiceEvent` |
| `MCEventQueue` | symmetry for TLC |
| `EventQueue_proofs` | theorems about `EventQueue` |
| `Timers` | timers, idle handlers and the loop of one thread, over a queue of kinds of events |
| `Timers_proofs` | theorems about `Timers` |
| `Notifier` | the threads of a process, the notifier thread and the pipe |
| `MCNotifier` | who has which file, for TLC |
| `Notifier_proofs` | theorems about `Notifier` |
| `Lifetime` | what `Tcl_Preserve` and its kin promise for a block |
| `Preserve` | the table that keeps the promise; implements `Lifetime` |
| `MCPreserve` | who may hold what, for TLC |
| `Preserve_proofs` | theorems about `Preserve` |
| `ChanForward` | users and owners of reflected channels in different threads |
| `MCChanForward` | threads, interpreters and channels for TLC |
| `ChanForward_proofs` | theorems about `ChanForward` |

Every module keeps one mutex's critical section one step: what the code does while it
holds the lock without waiting cannot be observed half done by the others. Structures
that are allocated have addresses, and an address that was freed may be handed out
again; a pointer somebody kept is then *stale*, and using it is recorded in `fault`.

### JitProc

`proc` and `code` map addresses to the structures; a structure with `refCount`
0 is free. `cmd` is `objClientData` of each command, `stack` the activations of
`TclObjInterpProcCore`, `frame` the procedure whose frame `PushProcCallFrame`
has pushed and that has not been entered. The fields `ncode` and `types` hold
the name of the bytecode they were made from, which is what every property about
them needs; `callCount` and `eligible` are as in the code.

| action | code |
|---|---|
| `CreateProc`, `DeleteProc` | `TclCreateProc` with the command it replaces; `TclProcDeleteProc` |
| `BumpEpoch` | every `iPtr->compileEpoch++` |
| `PushFresh` | `PushProcCallFrame`, the bytecode is valid |
| `PushRecompile` | `ProcCompileProc` on a procedure not in use: the old bytecode is freed, the fields reset, the body compiled in place |
| `PushReplace` | `ProcCompileProc` on a procedure in use: a copy gets the bytecode and the command; the copy's `jitproc` is whatever the allocator returned |
| `CallRejected` | `InitArgsAndLocals` or `TclInterpReady` fails |
| `EnterInterpreted`, `EnterNative`, `EnterWild` | `TclObjInterpProcCore` from the type table to the choice of native or interpreted; native code calls no script, so its call is one step |
| `Collect` | a hook of `TclExecuteByteCode` |
| `Leave` | the end of `TclObjInterpProcCore` |

`leaf` says that a body consists of supported instructions only: such a body
calls no command and `JIT_Compile` succeeds on it. A pointer that nobody
initialised is `WILD`; memory returned by the allocator may hold any garbage.
Following such a pointer sets `fault`.

`Reentrant` selects whether a body may find its *own* bytecode stale and be
called again while it runs (`PushReplace`). With `FALSE` every property holds;
with `TRUE` the reference counting still holds and the JIT's fields do not.

### JitBlocks

The front end reads *bytes*: its scan for leaders knows the operands of jumps and
of `INST_START_CMD` only, and reads short offsets without sign. A body is
therefore a sequence of bytes, and the properties compare what comes out with
the instructions read one after the other (`Starts`, `Target`).

| action | code (`jit/tclJitCompile.c`) |
|---|---|
| `ScanJump1`, `ScanJumpTrue4`, `ScanOther`, `ScanEnd` | one round of the scan, by what the byte looks like (224-245) |
| `Compress`, `CompressEnd` | the marks become a sorted list at the end of the same array (253-262) |
| `MapBlock`, `MapEnd` | `bc_to_bb` is filled for one block (264-274) |
| `BuildQuad`, `Unsupported`, `NextBlock` | `build_quad` on one instruction, or `goto err`; the next block (283-327) |
| `Flow` | the exits (330-372) |

`leaders` and `bc_to_bb` are arrays on the C stack, the first above the second
(the compiler allocates them in the order of their declaration, downwards).
Filling `bc_to_bb` runs past its end; `gap` is the number of words in between
(0 to 3, for alignment), and what lands in `leaders` is written there. Elements
nobody wrote are `UNSET`; behind the last byte anything of `After` may be read.
`marks` is not in the code: it keeps every position the scan marked. A quadruple
is its instruction's position and opcode and, for a jump, the block it names;
other operands and the simulated stack are left out.

Preconditions say where the front end can be trusted. For the scan (`ScanExact`),
`NoLookAlike`: no operand it looks at is the opcode of a jump or of
`INST_START_CMD`; and `Whole`: no instruction is cut off by the end of the body. For
what follows the scan (`CutExact`, `TargetsExact`), `Aligned`: the body is whole and
every leader is the start of an instruction, whether or not an operand was taken for
a jump on the way; and `Intact`: the list of leaders was neither marked at its end nor
overwritten. A loop's head is not a leader (a jump back marks a position 256 bytes
further, as the comment at line 246 knows), so `TargetsExact` speaks of jumps to
leaders; of those it excludes the ones to a `ShortBlock`, where the lookup one byte
behind the target (line 556) meets the next block: a block of one byte, and a first
block of two, whose last byte the map leaves out.

### JitMCode and JitCodeGen

An assembler is a record `[codeEnd, labels, toPatch, jumps]`. `jumps` keeps what
the machine code says about every jump: where its displacement is, what it holds.
Instructions other than jumps are their length. `JitCodeGen` runs `JIT_CodeGen`
over graphs of blocks: `calls` is the C stack of `dfs`, one round of `codegen`'s
loop is `Generate`, the loop over exits is `Descend` and `Return`, the two labels
at the end are `Finish`. A quadruple is its kind, for what it emits, and the block
it jumps to. `blockEnd` is not in the code: it remembers where the code of each
block ended, for `FallsThrough`. `visited[bbcount]`, which `dfs` writes one past
the end of the array, is a member of the set `visited`: no exit is ever that
block, so its value decides nothing.

### EventQueue

`queue` is the list that `firstEventPtr` leads to; `last` and `marker` are pointers
into it, and each way of queueing links the event where *the pointer* says, so that a
wrong pointer loses events in the model as in the code. `stack` has one entry for
each activation of `Tcl_ServiceEvent`, with the event whose handler runs; `stale`
marks the ones whose event was freed meanwhile. `posted` is not in the code: it
remembers the order of queueing for `Ordered`. The handler's outcome is free: it wants
the event (`Handle`), it does not (`Refuse`), and before that it, or another thread,
queues and deletes whatever it likes.

| action | code (`tclNotify.c`) |
|---|---|
| `QueueTail`, `QueueHead`, `QueueMark` | `QueueEvent` at its three positions |
| `Service` | `Tcl_ServiceEvent` to the call of the handler; an event whose `proc` is NULL is being handled and passed over |
| `Refuse`, `Handle` | the handler returns 0 or 1; the event is looked up by address again and freed |
| `Delete` | `Tcl_DeleteEvents` with any choice of events |

`whole` is chosen at the start: with it `Tcl_DeleteEvents` may free an event whose
handler is running. Then an event queued later at the same address is freed without
having been handled (`FoundAgain`, section 4); `NothingLost` says that this is the
only way.

### Timers

The queue is abstracted to the kinds of its events (what `EventQueue` shows about it
is assumed here), the C stack to `stack`: loops at a step, passes between two
handlers or in one, other handlers. While the top is in a handler, or nothing runs,
any operation of the application may happen, calls of the loop included.

| action | code |
|---|---|
| `TclCreateAbsoluteTimerHandler`, `Tcl_DeleteTimerHandler`, `Tcl_DoWhenIdle`, `Tcl_CancelIdleCall` | the functions of that name (`tclTimer.c`) |
| `Tcl_DoOneEvent(flags)`, `UpdateIdletasks`, `Tcl_ServiceAll` | the call of a loop (`tclNotify.c`) |
| `TimerHandlerEventProc`, `OtherEventProc`, `Nothing` | the loop looks into the queue |
| `Wait`, `Check` | `Tcl_WaitForEvent` returns (`TimerSetupProc` has set its limit), `TimerCheckProc` runs |
| `TclServiceIdle`, `NothingIdle`, `Done` | the end of `Tcl_DoOneEvent` |
| `CallTimer`, `CallIdle` | one round of a pass: the next handler, or the end of the pass |
| `Return` | a handler returns |
| `Tick`, `Other` | the clock; events of other sources |

`due` in a pass, `left` and `extra` are not in the code: they remember what was due
when the pass began, what of it the pass left and what it called besides. The
wrap-around of the generation is left out.

### Notifier

One `state` for each thread: off, `starting` (waits for the pipe), `running` (code of
its own), `idle` (has found its queue empty), `asleep` on `waitCV`, `emptied` and
`stopping` at the end. A step is what runs under `notifierMutex`. The notifier thread
is `pc`. `inbox` stands for events other threads have queued, `events[f]` counts the
file events in the queue; `hot` is the set of files with data.

| action | code |
|---|---|
| `TclInitNotifier`, `Started` | `TclInitNotifier` (`tclNotify.c`) with `Tcl_InitNotifier`: `listLock` is held while the pipe is awaited |
| `Empty`, `TclFinalizeNotifier`, `Joined` | `TclFinalizeNotifier`: the queue; the list of notifiers; the end of the notifier thread |
| `Tcl_CreateFileHandler`, `Tcl_DeleteFileHandler`, `FileHandlerEventProc`, `Receive` | what a thread does between waits |
| `Tcl_ThreadQueueEvent`, `Tcl_ThreadAlert` | two critical sections, between which anything may happen |
| `Tcl_DoOneEvent`, `WaitForEvent`, `Woken`, `TimedOut` | the queue is empty; `Tcl_WaitForEvent` up to the wait and after it |
| `NotifierStart`, `ComputeMasks`, `Select`, `SelectFails`, `Report`, `ReadPipe`, `NotifierExit` | `NotifierThreadProc` |
| `Arrive` | data arrive |

### Preserve and Lifetime

`ref` is `refArray`, `space` its room; a *use* is a place of the program that
preserves a block for a while, so that `Tcl_Release` is called once for every
`Tcl_Preserve`, as its contract asks. `run` is, for each thread, the stack of freeProcs that
run: they run without the mutex, and may preserve and release the block they end, or
give up others. `Lifetime` has no table: a block is live, given up, ending, free.
`Preserve` implements it (`Promised`).

### ChanForward

A channel has a handler (an interpreter, in its *owner*) and a *user*, the thread it
was moved to. `event` and `result` are the two allocated structures, `list` is
`forwardList`, `queue` the owner's event queue (in the order of queueing: forwarded
events go to the tail), `stack` the activations of `ForwardProc`, each with the copy
of the result's pointer that it made before the handler's script.

| action | code (`tclIORChan.c`) |
|---|---|
| `RefuseDead`, `CheckAlive`, `Send`, `Wake`, `Collect` | `ForwardOpToOwnerThread`: the check, the queueing, the wait, and what follows it without the mutex |
| `Ignore`, `Begin`, `EndMethod`, `Reply` | `Tcl_ServiceEvent` and `ForwardProc`, before and after the handler's script |
| `DeleteInterp`, `MarkDead`, `CancelInterp` | `Tcl_DeleteInterp` (which waits for running scripts), `DeleteReflectedChannelMap` before and under the mutex |
| `ExitThread`, `Finalize` | `DeleteThreadReflectedChannelMap`, then the end of the thread's channels and queue |

`lock` is `rcForwardMutex` where it is held over a step: between the check of
`rcPtr->interp` and the wait, where the interpreter is read a second time while
`MarkDead` runs without the mutex. What goes wrong in the code goes wrong here and
is recorded in `fault`; all properties speak of the time before. `careful` is chosen
at the start: *careful* owners exit when the answers they gave have been collected
and no closed channel is on their books, and delete an interpreter when, besides, it
has no channel left (`Settled`). `CarefulIsSafe` says that for them nothing goes
wrong, also when they exit in the middle of a handler's script.

## 3. Runs

| run | question | bounds |
|---|---|---|
| `jitproc` | all properties, when no body is recompiled while it runs | 2 commands, 3 `Proc`s, 3 bytecodes, 3 nested calls, 2 epoch changes |
| `jitproc_reentrant` | do activations keep their structures when it is? | 2 nested calls, 1 epoch change |
| `jitblocks` | are leaders, map, blocks and destinations what the bytecode says? | every program of 3 instructions out of 4 ordinary ones and all jumps between them, then `DONE`; 4 compiled procedures; `gap` 0 and 2 |
| `jitcodegen` | is the machine code complete, ordered and linked, for each graph? | every graph of 1 to 3 blocks, each with every ending the Tcl compiler writes, with and without hoisted loads |
| `jitcodegen_backward` | do unconditional jumps back land? No. | `while 1 {incr n}` |
| `eventqueue` | is the list linked, in order, and nothing freed unhandled? | 4 addresses, 3 nested activations |
| `timers` | do passes call exactly what was due, and is everything due called? | 3 timers, 2 idle handlers, times 0 and 1, 1 other event, 4 nested activations |
| `notifier` | is any wakeup lost, anything shared without its mutex, anybody stuck? | 2 threads, one with a file; 2 events for a file; a pipe of 2 bytes |
| `notifier_first` | are all threads with ready files alerted? No. | 2 threads with a file each |
| `preserve` | is the table exact, and does it keep its promise? | 2 threads with 2 uses each, 3 blocks |
| `chanforward` | is every operation answered, told truthfully, and nothing leaked? | 3 threads, 3 interpreters, 2 of 3 channels, one operation on each and closes, 2 nested scripts |
| `chanforward_late` | does a handler answer only users that wait? No. | the same |

Why the bounds are enough. *jitproc*: three `Proc`s and bytecodes allow a procedure
in use, its replacement and a second command; three nested calls allow a body, a call
of another procedure and a call back; two epoch changes make a bytecode stale,
recompile it and make it stale again, which is what the reset of the fields is
about; `JIT_REQINVOKE` is the code's. *jitblocks*: three instructions put a jump
before, after and between others, onto itself and over them in both directions, next
to a command header and next to an operand that looks like a jump; the compiled
procedures have loops, 13 blocks, two `DONE`s and an unsupported call. *jitcodegen*:
three blocks contain every shape of edge (to the next block, over one, to itself,
back over one) and the special block before them. *eventqueue*: four events are two
on either side of the marker, or a marked one between others; addresses come back
after they were freed; three activations are a handler, a nested one and the search of
the outer one after both. *timers*: a timer that is called, one created by it and one
already behind it; a pass in a loop in a handler of a pass. *notifier*: one thread
that waits for a file and one without, each alerting the other; two events of a file
are the one queued before a handler was deleted and the one queued after; a pipe
of two bytes fills up. *preserve*: a slot moved over another needs two blocks, a third
one makes the table grow a second time; two uses in one thread nest. *chanforward*:
a cycle is cut short of a deadlock: while a handler in `b` waits for `a`, `u` waits
for `b`; or two users wait for one owner, one of whose interpreters may end. A second
operation on the same address of event and result shows what a stale pointer hits.
For the safety properties the proofs below lift the bounds.

Deadlock is checked in `jitproc`, `jitcodegen` and `preserve`. It is not in
`jitblocks`, whose behaviours end when `JIT_Compile` returns, in `jitproc_reentrant`,
in the runs that look for a violation, where a fault stops the process, and in those
where the process may come to its end or the bounds be used up: `chanforward` (all
threads exit), `notifier` (all stop), `eventqueue` and `timers` (a handler that calls
nothing at the deepest level and does not return).
`MaxDepth`, `MaxEpoch`, `MaxOps`, `MaxEvents`, `MaxTimers`, `MaxIdle`, `MaxTime` and
`MaxOther` cap counters in the guards of the actions that count.

### Fairness

* `JitCodeGen!FairSpec`: weak fairness of `Step`, the steps of one compilation:
  `JIT_CodeGen` is straight C code that waits for nothing. That a compilation begins
  at all is not assumed.
* `ChanForward!Spec`: weak fairness for a thread in `ForwardOpToOwnerThread`
  (`Deliver`; condition variables are notified for good, the mutex is free again and
  again), for an owner's steps through its queue and handlers (`Serve`: scripts of
  handlers end and the owner comes back to its event loop, unless it exits), and for
  the deletion of an interpreter once begun (`Retire`). Nobody is assumed to start an
  operation, to delete or to exit. `Returns` holds under it; two handlers that use
  each other's channels would wait for ever, which is a deadlock of the code (hazard
  at `tclIORChan.c:2703`) that no fairness resolves and the instances avoid.
* `Notifier!Spec`: weak fairness of the notifier thread and strong fairness of
  `Select` (it does not fail for ever), weak fairness of each thread inside starting,
  stopping, alerting and being woken, and of handling what it has received. `Wakes`
  for files and polls has a premise, `OthersQuiet`: because `Report` stops at the first
  thread it finds, another one may be found first for ever.
* `Timers!Spec`: weak fairness of the loop, strong fairness of `Return` (a handler
  returns, whatever loops it runs before) and of the application's call of
  `Tcl_DoOneEvent` (it comes back to the loop, as `vwait` does). Other events are
  finitely many, so they do not starve timers.
* `JitProc`, `JitBlocks`, `EventQueue` and `Preserve` state safety only: scripts may
  stop calling, and who holds a block may hold it for ever.

## 4. Where code and documents disagree

Three are runs that find the counterexample; PROJECT.json quotes the lines.

* `AllJumpsLand` (`jitcodegen_backward`): `jumpTo` is documented `jmp rel32` and
  writes an address for a label that exists (`mcode.c:133`).
* `NoLateAnswer` (`chanforward_late`): `ForwardProc` tests a copy of the result's
  pointer that it made before the handler's script (`tclIORChan.c:2750`). A script that
  deletes its own interpreter has the result cancelled and freed by the user, and
  the answer is then written to freed memory.
* `AlertsAll` (`notifier_first`): the walk that should alert *any* threads whose
  files are ready ends with the first one, whose `nextPtr` it has cleared
  (`unix/tclUnixNotfy.c:1037`).

The others are properties of the modules that TLC finds violated when they are put in
the place of the properties of a configuration:

| property | configuration | what it finds |
|---|---|---|
| `FreshStart` | `JitProc.cfg` with `Reentrant = TRUE`, one command, `MaxDepth = 2`, `MaxEpoch = 1`, no check for deadlock | the thesis says the fields are initialised again on recompilation; the copy made of a procedure in use is not (`tclProc.c:2033`) |
| `TypeTableFits` | the same | "bytecodeTypes is never being freed" (`tclProc.c:1776`); `JIT_PROCRESET` frees it, under a running body |
| `LeadersKept` | `JitBlocks.cfg` with `Bodies <- NestedOnly` | "Map bytecode position to block number" (`jit/tclJitCompile.c:264`) overwrites the list of block starts: four nested `if`s print 13 blocks, the first 7 empty |
| `InBounds` | `JitBlocks.cfg` with `Bodies <- ReturnsLastOnly` | the scan "might be bugged" (`jit/tclJitCompile.c:222`): a procedure that returns its 35th variable makes `build_quad` read on behind the bytecode |
| `PatchListFits` | `JitCodeGenBackward.cfg` with `CFGs <- ManyLoads`, `Loads = 33` | the size thought large enough holds 32 jumps (`mcode.c:62`) |
| `PageFits` | the same with `CFGs <- ManyAdds`, `Adds = 300` | the thesis doubles the limit when it is reached; nothing looks at it |
| `NoAbort` | the same with `CFGs <- Power` | `JIT_Compile` "returns 1 on success, 0 otherwise"; here it does not return |
| `MapsForget` | `ChanForward.cfg` | "remove all which were handled by this interpreter" (`tclIORChan.c:2464`): the loop compares with `rcPtr->interp`, which `MarkDead` has set to NULL, so none of them is removed |
| `FoundAgain` | `EventQueue.cfg` | the event is searched by address, which may be another event's by now (`tclNotify.c:656`) |
| `GenerationsSorted` | `Timers.cfg` with `Past = TRUE` | a timer created for a time that is over goes in front of older ones and ends the pass (`tclTimer.c:548`) |

Read, not run: `after` carries microseconds over when they are *more* than a million
(`tclTimer.c:864`); exactly a million stays.

## 5. Proofs

All proofs are checked for arbitrary constants that satisfy the named
assumptions (`ProcAssumption`, `BlocksAssumption`, `PatchAssumption`, `CodeGenAssumption`,
`EventQueueAssumption`, `TimersAssumption`, `PreserveAssumption`,
`NotifierAssumption`, `ForwardAssumption`): any number of commands and procedures
(finite sets of commands), any depth, any epoch, any `JIT_REQINVOKE`; any sequence of
bytes as a body; any graph, any instruction lengths, any page; any addresses of
events and any nesting of handlers, loops and passes; any times, those in the past
included; any threads, blocks and files, finitely many uses of blocks; any
interpreters and channels, cycles of owners and users included.

`JitProc_proofs`. `IInv` strengthens the reference counts of procedures with
those of bytecodes (`CodeCountExact`), ownership (`Owned`: a body's bytecode
names it as `procPtr`, free structures are empty), the pushed frame
(`FrameLive`) and `RunsOwn`. It is needed because dropping the last reference to
a procedure drops its bytecode too: that no activation loses it follows only
from counting both. `IInv` is inductive for *every* value of `Reentrant`
(`Invariant`), hence `TypeCorrect`, `RefCounts`, `NothingDangles`. `JitSound`
adds that the JIT's fields fit the bytecode and that every running body is the
current one of its procedure; it is inductive with `Reentrant = FALSE` (`Sound`)
and gives `TablesFit`, `NativeCurrent`, `NeverFaults`, `StartsFresh` and
`Implements`, the refinement of `JitTier`.

`JitBlocks_proofs`, for any bytecode, look-alikes included, and any `gap`. `IInv`
has the positions of the loop variables (`Counters`); for the compression,
`Listed` (behind `j` the list has exactly the marks behind `i`, no entry before
the position it holds) and `Unlisted` (the marks up to `i` are untouched): the
list cannot overtake the marks because `i <= j`. For the map, `Maps` says that
*some* fixed list `L` of the leaders agrees with `leaders` from the current block
on; the writes that run past `bc_to_bb` stay below it because each entry is at
most its index. That `bc_to_bb` counts leaders needs the cardinality theorems of
the library (`ListCounts`). Theorems: `TypeCorrect`, `ListExact`, `Mapping`.

The rest compares with the instructions read one after the other, which `Starts`
defines by a recursive function on positions. No induction theorem is needed: what is
reached from a position is the least set closed under going to the next instruction
(`Reach`); it satisfies the function's equation (`Reaching`), and so does nothing else
(`FromReaches`), because a position where two solutions differ would have a next one
further on where they differ too, and the last such position, which well-foundedness
gives, has none. On top of that, `Scanned` says that the scan has marked what the
instructions so far mark and stands in the last of them, behind the operands it knows
(it begins at byte 1, so that a jump at byte 0 is lost). `ListStays` says
that the list of leaders is where the builder reads it, after the writes that run
past `bc_to_bb`. `Reads` says that the builder stands at an instruction of its block
and knows whether the one before was a `DONE`, `Built` that the blocks so far hold the
instructions before it, each once, in order, in its block, with its destination
(`Aims`). `BInv` puts them together. The theorems showed the preconditions to be the
wrong ones before: an instruction cut off by the end of the body is marked in full,
and a leader inside an instruction moves the cut even when no operand looks like a
jump. Theorems: `ScanRight`, `CutsRight`, `TargetsRight`.

`JitCodeGen_proofs`. The lemmas `FreshSound`, `EmitSound`, `JumpSound` and
`LabelSound` say that each operation of the assembler keeps `SoundAsm`, with no
reference to who calls it. On top of it `IInv` says what the depth-first walk
is, whatever the jumps: since the first exit of every block but the last is its
successor, `dfs` goes down block by block (`Path`, `Descending`) to the last
one, and on the way back (`Returning`) everything is visited and nothing is
written. `FallsThrough` and `Complete` depend on that and could not be proved
from the labels alone. Theorems: `Invariant`, `TypeCorrect`, `Landing`, `Waits`,
`Order`, `Finishes`.

`EventQueue_proofs`. First what `Lists` does: removing a set of elements leaves the
others in their order (`InOrder` is a choice, whose existence needs the least
counterexample). `IInv` then has, besides the type, `Lists` (nothing is linked twice,
and the list holds what was queued and not taken out), `Ends` and `Marks` (where the
pointers lead, and that no event queued at the marker is behind it, nor the marker
behind the tail), `Active` (a running handler has an event of its own in the list,
unless that was deleted), `Careful` (without deletions of events being handled there
are no stale activations) and `Ordered`. `Ordered` is not inductive without the
pointers, because events are linked where they lead: behind the marker is in order
only if the marker is the last of its kind. Theorems: `Inductive`, `TypeCorrect`,
`PointersLead`, `ServedInOrder`, `NoEventLost`.

`Timers_proofs`. `IInv` has `OneTimer` (`timerPending` and the queue agree, with one
timer event at most), `TimerList` and `IdleQueue` (timers are in the order of time and
token, idle handlers in that of generations, tokens are not used again), `Passes` and
`PassExact`. `Passes` says, for each pass on the stack, that of what is still listed
exactly what is old enough (and has expired) was due when the pass began, and that
what is too new is not earlier. The pass of an outer loop goes on over a list that the
inner ones have changed: since `Passes` speaks of each frame by itself and only of
what is still listed, an operation of a handler keeps it for all frames at once
(`PassesAfter`). Theorems: `Inductive`, `OnePending`, `PassesExact`.

`Preserve_proofs`. `IInv` is `TypeOK`, `Books` (one slot for each block in use, with
the right count), `EndsOnce` and `Rules`, which says of each state of a block who may
have a use for it: none when it is free, only the thread that runs its freeProc when
it is ending. `Books` alone is not inductive: that `Tcl_EventuallyFree` finds no slot
of a block that was ended before depends on `Rules`, and that a freeProc's own uses
do not end the block again depends on `must` being in the slot and not in the block.
Theorems: `TypeCorrect`, `BooksKept`, `EndingOnce`, `Implements` (every step maps to
a step of `Lifetime` or to a stutter).

`Notifier_proofs`. Besides the three properties of the run, `IInv` has `Masks` (a
`readyMask` goes with its handler), `Told` (an event in a queue that was found empty
is announced or somebody is about to: the case between the last look into the queue
and the wait), `Counted` (`notifierCount` is the number of threads that have begun and
not ended), `Locks` (who waits for the notifier thread holds `listLock`), `Phase` (the
life of the notifier thread: absent, beginning, serving, ending, with the pipe open
and the threads' states that belong to each) and `Sent`. That a thread never writes to
a closed pipe needs all of the last four: the pipe is closed when the count says so,
and the count is changed under `listLock`. Theorems: `Invariant`, `TypeCorrect`,
`WakeupsKept`, `NotRaced`, `EventsThere`.

`ChanForward_proofs`. As long as nothing has gone wrong `Sane` holds. Its centre is
`Pairs`: a result nobody has answered and its event name each other, and the thread
they are meant for runs. A cancellation that goes well therefore hits nothing but
operations nobody has answered (`CancelFacts`), and one that goes wrong hits one that
was answered (`CancelFault`). `Calls`, `Locked` and `Owned` say who holds the mutex and
whose a result is: no two calls share one, so that a reply reaches the call it was
for. `Queues` and `Activations` say which event is in which queue and which activation
of `ForwardProc` works on it, with a result that is there or marked stale; `Mapped`
when a channel is on the books of interpreter and owner. With careful owners `Prudent`
(no activation is cancelled, interpreters end without channels) excludes every fault,
and `Frank` (what an exit cancels has not been run: the handlers that have are the
newest activation of a thread, and a thread does not exit there) makes *lost* the
truth. Theorems: `TypeCorrect`, `NoneOrphaned`, `AllAccounted`, `AllTruthful`,
`DeadStayDead`, `CarefulOwnersAreSafe`.

Only model-checked: liveness (`Terminates`, `Returns`, `Wakes`, `Settles`, `Fires`),
which is out of the prover's reach, and that the runs in section 4 are violated. Every
safety property of a run is stated by a theorem. Each `IInv` was checked with TLC before it was
proved; for `JitBlocks` also over every sequence of up to five bytes out of ten
opcodes.

## 6. What is not modelled

* In `JitProc`: lambdas and `apply`, precompiled bodies, the namespace and
  resolver epochs (a change of either makes bytecode stale exactly as the compile
  epoch does), the memory that is never freed (native pages, most type tables).
* In `JitCodeGen`: what an instruction computes, the bytes of an instruction,
  the 8-bit stack displacement.
* In `JitBlocks`: marks outside `leaders`, which change the memory above it; the
  simulated stack, registers, the hoisting of loads (`rearrange_blocks`).
* In `EventQueue` and `Timers`: event sources other than timers and files, the
  service mode, `after` commands, exit handlers (`tclEvent.c`), asynchronous handlers
  (`tclAsync.c`), the wrap-around of the idle generation.
* In `Notifier`: conditions other than readable; what a callback does with a file
  that is no longer ready (`select`'s answer is used after the mutex was free, hazard
  at `unix/tclUnixNotfy.c:1002`); processes that fork.
* In `Preserve`: `TclHandle`, of the same file, and `Tcl_Finalize` while blocks are in
  use. `Tcl_EventuallyFree` is called once for a block, as `Tcl_DeleteInterp` does.
* In `ChanForward`: the methods of a handler and their results, channels used by their
  own thread, the exit of a user while it waits (the code asks whether it can happen,
  `tclIORChan.c:2694`: it cannot, the thread sleeps), channels that are moved again.
  The instances have no cycle of owners and users.
* The collected types and the semantics of native code against the interpreter: they
  need the meaning of the instructions. Two compilations at once over the static
  variables: every access would be a step.
* The rest of Tcl: the bytecode compiler and interpreter, the object types, the
  command implementations, encodings, regular expressions, numbers, buffers of
  channels and platform files. They are most of the lines of the repository and are
  sequential functions over data; a specification of them that is shorter than they
  are would say little. The modules cover the parts whose correctness depends on the
  order of steps.

## 7. What could come next

1. `JitCompile`, on top of `JitBlocks`: the simulated stack and the registers of
   `build_quad`, and `rearrange_blocks`; then the exits of `JitBlocks` as the input of
   `JitCodeGen`.
2. Two threads that compile at once over the static stack, register counter and label
   tables.
3. `JitExec`: quadruples and machine registers against the interpreter on small
   integers, with overflow at the word's width and the exit to `LINTERP`.
4. `tclAsync.c` over `Notifier`, and `ChanForward` over `EventQueue` instead of a
   sequence of its own.
5. That `NoLookAlike`, with jumps that go to instructions, implies `Aligned`; the
   refinement of `Timers`' queue of kinds by `EventQueue`.
