----------------------------- MODULE ChanForward -----------------------------
(***************************************************************************)
(* Driver operations of reflected channels, forwarded to the thread that   *)
(* owns the handler command (generic/tclIORChan.c).  A channel created by  *)
(* an interpreter may be moved to another thread; whatever that thread     *)
(* does with it is run by the owner: the user queues an event for the      *)
(* owner and sleeps until the owner answers or goes away.                  *)
(*                                                                         *)
(* Events and results are malloc'ed structures: Events and Results are the *)
(* addresses, and an address that was freed may be handed out again.       *)
(***************************************************************************)
EXTENDS Integers, Sequences, FiniteSets, SequencesExt

CONSTANTS Threads, Interps, Chans, Events, Results,
          Home,      \* the thread each interpreter lives in
          Handler,   \* the interpreter each channel was created by
          User,      \* the thread each channel was moved to
          Moved,     \* which sets of channels there are to begin with
          NULL,
          MaxOps,    \* operations tried on each channel, a bound of the model
          MaxDepth   \* nested event loops in one thread, a bound of the model

Owner(c) == Home[Handler[c]]

\* The structures of tclIORChan.c, an activation of ForwardProc and one of
\* ForwardOpToOwnerThread.
Ops == {"use", "close"}
EventRec == [res : Results \cup {NULL}, chan : Chans, op : Ops]
ResultRec == [dst : Threads, dsti : Interps \cup {NULL}, val : {"pending", "ok", "error"},
              ev : Events \cup {NULL}, notified : BOOLEAN]
Frame == [ev : Events, res : Results, ok : BOOLEAN, stale : BOOLEAN,
          at : {"method", "reply"}]
Call == [chan : Chans, op : Ops, res : Results \cup {NULL}, at : {"send", "wait", "free"}]

ASSUME ForwardAssumption ==
  /\ Home \in [Interps -> Threads] /\ Handler \in [Chans -> Interps]
  /\ User \in [Chans -> Threads] /\ Moved \subseteq SUBSET Chans
  /\ \A c \in Chans : User[c] # Owner(c)
  /\ NULL \notin UNION {Threads, Interps, Chans, Events, Results, EventRec, ResultRec, Call}
  /\ MaxOps \in [Chans -> Nat] /\ MaxDepth \in Nat \ {0}

VARIABLES
  interp,     \* rcPtr->interp, NULL once the channel is dead
  chan,       \* the Channel: "open", "closed" by its user
  interpMap,  \* the channels each interpreter records
  threadMap,  \* the channels each thread records
  life,       \* of an interpreter: "live", "doomed", "marking", "cancelling", "gone"
  phase,      \* of a thread: "running", "exiting", "gone"
  event,      \* ForwardingEvent: NULL when free
  result,     \* ForwardingResult: NULL when free
  list,       \* forwardList
  queue,      \* the event queue of each thread
  stack,      \* activations of ForwardProc in each thread, the newest last
  call,       \* ForwardOpToOwnerThread as far as the thread is in it, or NULL
  answer,     \* ForwardParam: what the user of the channel is told
  lock,       \* rcForwardMutex: its holder between steps, or NULL
  ops,        \* operations left on each channel
  ran,        \* the last operation on the channel was run by the handler
  careful,    \* how owners end their interpreters and threads, see Settled
  fault       \* the first use of memory that is no longer what it was

vars == <<interp, chan, interpMap, threadMap, life, phase, event, result, list,
          queue, stack, call, answer, lock, ops, ran, careful, fault>>

Answers == {"none", "ok", "failed", "lost"}
Faults == {"none", "event freed", "cancelled twice", "late answer", "dead close",
           "channel freed"}

\* Some channels have been created and moved to their users; other channels, and
\* interpreters that have none, are left out.
Init == /\ \E M \in Moved :
             /\ chan = [c \in Chans |-> IF c \in M THEN "open" ELSE "closed"]
             /\ interpMap = [i \in Interps |-> {c \in M : Handler[c] = i}]
             /\ threadMap = [t \in Threads |-> {c \in M : Owner(c) = t}]
        /\ interp = Handler
        /\ life = [i \in Interps |-> IF interpMap[i] = {} THEN "gone" ELSE "live"]
        /\ phase = [t \in Threads |-> "running"]
        /\ event = [e \in Events |-> NULL]
        /\ result = [r \in Results |-> NULL]
        /\ list = {}
        /\ queue = [t \in Threads |-> <<>>]
        /\ stack = [t \in Threads |-> <<>>]
        /\ call = [t \in Threads |-> NULL]
        /\ answer = [c \in Chans |-> "none"]
        /\ lock = NULL
        /\ ops = MaxOps
        /\ ran = [c \in Chans |-> FALSE]
        /\ careful \in BOOLEAN
        /\ fault = "none"
-------------------------------------------------------------------------------
Top(t) == Last(stack[t])
Ending(t) == \E i \in Interps : Home[i] = t /\ life[i] \in {"marking", "cancelling"}

\* The thread is in a script: the top level's, or a handler's.
InScript(t) == /\ fault = "none" /\ phase[t] = "running" /\ call[t] = NULL
               /\ ~Ending(t)
               /\ stack[t] # <<>> => Top(t).at = "method"

Idle == {e \in Events : event[e] = NULL}
Spare == {r \in Results : result[r] = NULL}

(* The user of a channel *)

\* A driver procedure (ReflectInput, ReflectOutput, ReflectClose...) is called by
\* a script, or closes what is open when the I/O system of an exiting thread is
\* finalized.
Driver(t, c, op) ==
  /\ User[c] = t /\ chan[c] = "open" /\ lock = NULL
  /\ \/ InScript(t) /\ ops[c] > 0
     \/ fault = "none" /\ phase[t] = "exiting" /\ call[t] = NULL /\ op = "close"

\* It takes the mutex and finds the channel dead...
RefuseDead(t, c, op) ==
  /\ Driver(t, c, op)
  /\ interp[c] = NULL
  /\ answer' = [answer EXCEPT ![c] = "lost"]
  /\ chan' = IF op = "close" THEN [chan EXCEPT ![c] = "closed"] ELSE chan
  /\ ops' = [ops EXCEPT ![c] = IF @ = 0 THEN 0 ELSE @ - 1]
  /\ ran' = [ran EXCEPT ![c] = FALSE]
  /\ UNCHANGED <<interp, interpMap, threadMap, life, phase, event, result, list,
                 queue, stack, call, lock, careful, fault>>

\* ...or alive, and keeps the mutex.
CheckAlive(t, c, op) ==
  /\ Driver(t, c, op)
  /\ interp[c] # NULL
  /\ lock' = t
  /\ call' = [call EXCEPT ![t] = [chan |-> c, op |-> op, res |-> NULL, at |-> "send"]]
  /\ answer' = [answer EXCEPT ![c] = "none"]
  /\ ops' = [ops EXCEPT ![c] = IF @ = 0 THEN 0 ELSE @ - 1]
  /\ ran' = [ran EXCEPT ![c] = FALSE]
  /\ UNCHANGED <<interp, chan, interpMap, threadMap, life, phase, event, result,
                 list, queue, stack, careful, fault>>

\* It links event and result, queues the event, alerts the owner and sleeps,
\* which gives the mutex back.  The interpreter is read a second time here.
\* Tcl_ThreadQueueEvent frees the event if the owner has no notifier any more.
Send(t) ==
  /\ fault = "none" /\ call[t] # NULL /\ call[t].at = "send"
  /\ LET c == call[t].chan IN \E e \in Idle, r \in Spare :
       LET queued == phase[Owner(c)] # "gone" IN
       /\ event' = IF queued
                     THEN [event EXCEPT ![e] = [res |-> r, chan |-> c, op |-> call[t].op]]
                     ELSE event
       /\ queue' = IF queued THEN [queue EXCEPT ![Owner(c)] = Append(@, e)] ELSE queue
       /\ result' = [result EXCEPT ![r] =
            [dst |-> Owner(c), dsti |-> interp[c], val |-> "pending", ev |-> e,
             notified |-> FALSE]]
       /\ list' = list \cup {r}
       /\ call' = [call EXCEPT ![t].res = r, ![t].at = "wait"]
  /\ lock' = NULL
  /\ UNCHANGED <<interp, chan, interpMap, threadMap, life, phase, stack, answer,
                 ops, ran, careful, fault>>

\* Woken, with the mutex, and answered: the result is taken off the list.
Wake(t) ==
  /\ fault = "none" /\ lock = NULL /\ call[t] # NULL /\ call[t].at = "wait"
  /\ LET r == call[t].res IN
     /\ result[r].notified /\ result[r].val # "pending"
     /\ list' = list \ {r}
     /\ call' = [call EXCEPT ![t].at = "free"]
  /\ UNCHANGED <<interp, chan, interpMap, threadMap, life, phase, event, result,
                 queue, stack, answer, lock, ops, ran, careful, fault>>

\* Without the mutex: the result is freed and the driver procedure returns.
\* After a close the generic layer frees the Channel, whatever the answer was.
Collect(t) ==
  /\ fault = "none" /\ call[t] # NULL /\ call[t].at = "free"
  /\ result' = [result EXCEPT ![call[t].res] = NULL]
  /\ chan' = IF call[t].op = "close" THEN [chan EXCEPT ![call[t].chan] = "closed"]
                                     ELSE chan
  /\ stack' = [u \in Threads |-> [k \in DOMAIN stack[u] |->
                 [stack[u][k] EXCEPT !.stale = @ \/ stack[u][k].res = call[t].res]]]
  /\ call' = [call EXCEPT ![t] = NULL]
  /\ UNCHANGED <<interp, interpMap, threadMap, life, phase, event, list, queue,
                 answer, lock, ops, ran, careful, fault>>

(* The owner *)

InService(t) == {stack[t][k].ev : k \in DOMAIN stack[t]}

\* The first event in the queue whose handler does not run already.
Waiting(t, e) == \E i \in DOMAIN queue[t] :
                   /\ queue[t][i] = e /\ e \notin InService(t)
                   /\ \A j \in 1..(i - 1) : queue[t][j] \in InService(t)

\* Nobody waits for the result of the event any more.
NeverAbandoned(e) == FALSE
Abandoned(e) == event[e].res = NULL

\* The queue of the thread without the event.
StillLinked(t, e) == queue[t]
Unlinked(t, e) == RemoveAt(queue[t], CHOOSE i \in DOMAIN queue[t] : queue[t][i] = e)

\* Tcl_ServiceEvent on an event nobody waits for any more: ForwardProc returns.
Ignore(t) ==
  /\ InScript(t)
  /\ \E e \in Events :
     /\ Waiting(t, e) /\ Abandoned(e)
     /\ event' = [event EXCEPT ![e] = NULL]
     /\ queue' = [queue EXCEPT ![t] = Unlinked(t, e)]
  /\ UNCHANGED <<interp, chan, interpMap, threadMap, life, phase, result, list,
                 stack, call, answer, lock, ops, ran, careful, fault>>

\* ForwardProc as far as the handler's script.  It copies the pointer to the
\* result; InvokeTclMethod refuses a dead channel or interpreter.
Begin(t) ==
  /\ InScript(t) /\ Len(stack[t]) < MaxDepth
  /\ \E e \in Events :
     LET c == event[e].chan
         runs == interp[c] # NULL /\ life[Handler[c]] = "live"
     IN /\ Waiting(t, e) /\ ~Abandoned(e)
        /\ answer' = [answer EXCEPT ![c] = "ok"]
        /\ stack' = [stack EXCEPT ![t] = Append(@,
             [ev |-> e, res |-> event[e].res, ok |-> FALSE, stale |-> FALSE,
              at |-> IF runs THEN "method" ELSE "reply"])]
  /\ UNCHANGED <<interp, chan, interpMap, threadMap, life, phase, event, result,
                 list, queue, call, lock, ops, ran, careful, fault>>

\* The handler's script ends.  If it was the last to keep its interpreter alive,
\* the Tcl_Release in InvokeTclMethod deletes the interpreter now.
EndMethod(t) ==
  /\ InScript(t) /\ stack[t] # <<>>
  /\ LET c == event[Top(t).ev].chan
         i == Handler[c]
         last == \A k \in 1..(Len(stack[t]) - 1) :
                   Handler[event[stack[t][k].ev].chan] # i
     IN /\ ran' = [ran EXCEPT ![c] = TRUE]
        /\ life' = IF last /\ life[i] = "doomed" THEN [life EXCEPT ![i] = "marking"]
                                                ELSE life
  /\ \E ok \in BOOLEAN :
       stack' = [stack EXCEPT ![t][Len(stack[t])].at = "reply",
                              ![t][Len(stack[t])].ok = ok]
  /\ UNCHANGED <<interp, chan, interpMap, threadMap, phase, event, result, list,
                 queue, call, answer, lock, ops, careful, fault>>

\* The rest of ForwardProc, to the end of Tcl_ServiceEvent.  A close takes the
\* channel out of both maps and frees it.
Reply(t) ==
  /\ fault = "none" /\ phase[t] = "running" /\ call[t] = NULL /\ ~Ending(t)
  /\ stack[t] # <<>> /\ Top(t).at = "reply" /\ lock = NULL
  /\ LET e == Top(t).ev
         r == Top(t).res
         c == event[e].chan
         close == event[e].op = "close"
         bad == IF close /\ interp[c] = NULL THEN "dead close"
                ELSE IF Top(t).stale THEN "late answer" ELSE "none"
     IN \/ /\ bad # "none"
           /\ fault' = bad
           /\ UNCHANGED <<interpMap, threadMap, event, result, queue, stack, answer>>
        \/ /\ bad = "none"
           /\ answer' = [answer EXCEPT ![c] = IF Top(t).ok THEN @ ELSE "failed"]
           /\ interpMap' = [interpMap EXCEPT ![Handler[c]] = IF close THEN @ \ {c} ELSE @]
           /\ threadMap' = [threadMap EXCEPT ![t] = IF close THEN @ \ {c} ELSE @]
           /\ result' = [result EXCEPT ![r].val = "ok", ![r].notified = TRUE]
           /\ event' = [event EXCEPT ![e] = NULL]
           /\ queue' = [queue EXCEPT ![t] = Unlinked(t, e)]
           /\ stack' = [stack EXCEPT ![t] = Front(@)]
           /\ UNCHANGED fault
  /\ UNCHANGED <<interp, chan, life, phase, list, call, lock, ops, ran, careful>>

(* The end of an interpreter, and of a thread *)

\* A careful owner exits when every answer it gave has been collected and no
\* channel on its books has been closed, and deletes an interpreter when, besides,
\* the interpreter has no channel left.
Settled(t) == /\ \A r \in list : result[r].dst = t => result[r].val = "pending"
              /\ \A c \in threadMap[t] : chan[c] = "open"

Silently(rec) == [rec EXCEPT !.ev = NULL, !.val = "error"]
Cancelled(rec) == [rec EXCEPT !.ev = NULL, !.val = "error", !.notified = TRUE]

\* ForwardSetStaticError for the events E.
NotTold(E) == answer
Told(E) == [c \in Chans |-> IF \E e \in E : event[e].chan = c THEN "lost" ELSE answer[c]]

\* Each result of S is detached from its event and its user woken.
Cancel(S) ==
  LET bad == IF \E r \in S : result[r].ev = NULL THEN "cancelled twice"
             ELSE IF \E r \in S : \/ event[result[r].ev] = NULL
                                  \/ event[result[r].ev].res # r THEN "event freed"
             ELSE "none"
      hit == {result[r].ev : r \in S}
  IN \/ /\ bad # "none"
        /\ fault' = bad
        /\ UNCHANGED <<event, result, answer>>
     \/ /\ bad = "none"
        /\ answer' = Told(hit)
        /\ event' = [e \in Events |-> IF e \in hit THEN [event[e] EXCEPT !.res = NULL]
                                      ELSE event[e]]
        /\ result' = [r \in Results |-> IF r \in S THEN Cancelled(result[r])
                                                ELSE result[r]]
        /\ UNCHANGED fault

\* Tcl_DeleteInterp.  While a handler runs in the interpreter its deletion waits.
DeleteInterp(t, i) ==
  /\ InScript(t) /\ Home[i] = t /\ life[i] = "live"
  /\ LET used == \E k \in DOMAIN stack[t] : Handler[event[stack[t][k].ev].chan] = i
     IN /\ life' = [life EXCEPT ![i] = IF used THEN "doomed" ELSE "marking"]
        /\ careful => Settled(t) /\ interpMap[i] = {}
  /\ UNCHANGED <<interp, chan, interpMap, threadMap, phase, event, result, list,
                 queue, stack, call, answer, lock, ops, ran, careful, fault>>

\* DeleteReflectedChannelMap before it takes the mutex...
MarkDead(i) ==
  /\ fault = "none" /\ life[i] = "marking"
  /\ interp' = [c \in Chans |-> IF c \in interpMap[i] THEN NULL ELSE interp[c]]
  /\ interpMap' = [interpMap EXCEPT ![i] = {}]
  /\ life' = [life EXCEPT ![i] = "cancelling"]
  /\ UNCHANGED <<chan, threadMap, phase, event, result, list, queue, stack, call,
                 answer, lock, ops, ran, careful, fault>>

\* ...and with it.
CancelInterp(i) ==
  /\ fault = "none" /\ life[i] = "cancelling" /\ lock = NULL
  /\ Cancel({r \in list : result[r].dsti = i})
  /\ threadMap' = [threadMap EXCEPT ![Home[i]] = {c \in @ : interp[c] # i}]
  /\ life' = [life EXCEPT ![i] = "gone"]
  /\ UNCHANGED <<interp, chan, interpMap, phase, list, queue, stack, call, lock,
                 ops, ran, careful>>

\* What an exiting thread cancels, and which channels it marks dead.
EverythingPending(t) == list
NothingPending(t) == {}
Destined(t) == {r \in list : result[r].dst = t}

LeftAlive(t) == interp
MarkedDead(t) == [c \in Chans |-> IF c \in threadMap[t] THEN NULL ELSE interp[c]]

\* The exit handlers of Tcl_FinalizeThread, DeleteThreadReflectedChannelMap among
\* them, at the end of the thread or in the middle of a handler's script.
ExitThread(t) ==
  /\ InScript(t) /\ lock = NULL
  /\ careful => Settled(t)
  /\ phase' = [phase EXCEPT ![t] = "exiting"]
  /\ \/ /\ \E c \in threadMap[t] : chan[c] # "open"
        /\ fault' = "channel freed"
        /\ UNCHANGED <<interp, threadMap, event, result, stack, answer>>
     \/ /\ \A c \in threadMap[t] : chan[c] = "open"
        /\ Cancel(Destined(t))
        /\ interp' = MarkedDead(t)
        /\ threadMap' = [threadMap EXCEPT ![t] = {}]
        /\ stack' = [stack EXCEPT ![t] = <<>>]
  /\ UNCHANGED <<chan, interpMap, life, list, queue, call, lock, ops, ran, careful>>

\* TclFinalizeNotifier, once the thread's own channels are closed.
Finalize(t) ==
  /\ fault = "none" /\ phase[t] = "exiting" /\ call[t] = NULL
  /\ \A c \in Chans : User[c] = t => chan[c] # "open"
  /\ phase' = [phase EXCEPT ![t] = "gone"]
  /\ event' = [e \in Events |-> IF Contains(queue[t], e) THEN NULL ELSE event[e]]
  /\ queue' = [queue EXCEPT ![t] = <<>>]
  /\ UNCHANGED <<interp, chan, interpMap, threadMap, life, result, list, stack,
                 call, answer, lock, ops, ran, careful, fault>>
-------------------------------------------------------------------------------
Deliver(t) == Send(t) \/ Wake(t) \/ Collect(t)
Serve(t) == Ignore(t) \/ Begin(t) \/ EndMethod(t) \/ Reply(t)
Retire(i) == MarkDead(i) \/ CancelInterp(i)

Next == \/ \E t \in Threads : Deliver(t) \/ Serve(t) \/ ExitThread(t) \/ Finalize(t)
        \/ \E t \in Threads, c \in Chans, op \in {"use", "close"} :
             RefuseDead(t, c, op) \/ CheckAlive(t, c, op)
        \/ \E t \in Threads, i \in Interps : DeleteInterp(t, i)
        \/ \E i \in Interps : Retire(i)

\* Threads are scheduled, scripts of handlers end, and an owner serves its events
\* or exits.
Fairness == /\ \A t \in Threads : WF_vars(Deliver(t)) /\ WF_vars(Serve(t))
            /\ \A i \in Interps : WF_vars(Retire(i))

Spec == Init /\ [][Next]_vars /\ Fairness
-------------------------------------------------------------------------------
\* The types of all the structures and lists of tclIORChan.c.
TypeOK ==
  /\ interp \in [Chans -> Interps \cup {NULL}]
  /\ chan \in [Chans -> {"open", "closed"}]
  /\ interpMap \in [Interps -> SUBSET Chans] /\ threadMap \in [Threads -> SUBSET Chans]
  /\ life \in [Interps -> {"live", "doomed", "marking", "cancelling", "gone"}]
  /\ phase \in [Threads -> {"running", "exiting", "gone"}]
  /\ event \in [Events -> EventRec \cup {NULL}]
  /\ result \in [Results -> ResultRec \cup {NULL}]
  /\ list \subseteq Results
  /\ queue \in [Threads -> Seq(Events)] /\ stack \in [Threads -> Seq(Frame)]
  /\ \A t \in Threads : Len(stack[t]) <= MaxDepth
  /\ call \in [Threads -> Call \cup {NULL}]
  /\ answer \in [Chans -> Answers]
  /\ lock \in Threads \cup {NULL}
  /\ ops \in [Chans -> Nat] /\ ran \in [Chans -> BOOLEAN]
  /\ careful \in BOOLEAN /\ fault \in Faults

Sound == fault = "none"

\* Nobody sleeps in vain: an operation nobody has answered yet is in the queue of
\* a thread that has not begun to exit, so it will be served or cancelled; an
\* answered one has woken its user.  (ForwardOpToOwnerThread holds the mutex from
\* the check of rcPtr->interp to the wait, and exit takes it to cancel.)
NoOrphan ==
  Sound => \A t \in Threads : (call[t] # NULL /\ call[t].at = "wait") =>
    LET r == call[t].res IN
    /\ r \in list
    /\ result[r].val # "pending" => result[r].notified
    /\ result[r].val = "pending" =>
         /\ phase[result[r].dst] = "running"
         /\ result[r].ev # NULL
         /\ Contains(queue[result[r].dst], result[r].ev)
         /\ event[result[r].ev] # NULL /\ event[result[r].ev].res = r

\* Nothing leaks and nothing is freed twice: an event is allocated exactly while
\* it is in one queue, a result exactly while its user is in the call that made it.
Accounted ==
  Sound => /\ \A e \in Events : (event[e] # NULL) <=>
                \E t \in Threads : Contains(queue[t], e)
           /\ \A e \in Events, t, v \in Threads :
                Contains(queue[t], e) /\ Contains(queue[v], e) => t = v
           /\ \A r \in Results : (result[r] # NULL) <=>
                \E t \in Threads : call[t] # NULL /\ call[t].res = r

\* What the user is told happened did happen: an operation reported as done has
\* been run to the end by the handler, and one reported as lost has not, as long as
\* owners are careful.
Truthful ==
  Sound => \A c \in Chans : (call[User[c]] = NULL \/ call[User[c]].chan # c) =>
    /\ answer[c] = "ok" => ran[c]
    /\ careful /\ answer[c] = "lost" => ~ran[c]

\* Once an owner is gone every channel it had handlers for says so: no later
\* operation can reach for it.
DeadForGood ==
  Sound => \A c \in Chans :
    (phase[Owner(c)] # "running" \/ life[Handler[c]] \in {"cancelling", "gone"})
      => interp[c] = NULL \/ chan[c] = "closed" \/ call[User[c]] # NULL

\* Careful owners never make anybody touch memory that has been freed, also when
\* they exit in the middle of a handler's script with operations queued and users
\* asleep.
CarefulIsSafe == careful => fault = "none"

\* Every operation a thread starts on a channel comes back to it, whoever exits.
Returns == \A t \in Threads : (call[t] # NULL) ~> (call[t] = NULL \/ ~Sound)

\* "This is wrapped into a conditional because the caller may have exited in the
\* mean time" (tclIORChan.c:3011): ForwardProc never answers a caller that has gone.
NoLateAnswer == fault # "late answer"

\* "Go through the channels and remove all which were handled by this
\* interpreter" (tclIORChan.c:2464): no thread records a channel of an interpreter
\* that is gone.
MapsForget == \A i \in Interps : life[i] = "gone" =>
                 \A c \in threadMap[Home[i]] : Handler[c] # i
==============================================================================
