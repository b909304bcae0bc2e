------------------------------- MODULE Timers -------------------------------
(***************************************************************************)
(* Timer and idle handlers of a thread (generic/tclTimer.c) and the event  *)
(* loop that calls them (Tcl_DoOneEvent, generic/tclNotify.c).  A pass over*)
(* the timers, or over the idle handlers, calls one after the other; each  *)
(* may create and delete handlers and run an event loop of its own, with   *)
(* passes of its own over the same lists.                                  *)
(***************************************************************************)
EXTENDS Integers, Sequences, FiniteSets, SequencesExt, Lists

CONSTANTS MaxTimers, MaxIdle, \* handlers ever created, bounds of the model
          MaxTime,            \* the clock stops there
          MaxOther,           \* other events that ever arrive, a bound of the model
          Past,               \* absolute timers may be set to a time that is over
          MaxDepth            \* nested loops and passes, a bound of the model

ASSUME TimersAssumption ==
  /\ MaxTimers \in Nat /\ MaxIdle \in Nat /\ MaxTime \in Nat
  /\ MaxOther \in Nat /\ MaxDepth \in Nat /\ Past \in BOOLEAN

VARIABLES
  clock,          \* Tcl_GetTime
  timers,         \* firstTimerHandlerPtr: [id, time], earliest first; id is the token
  lastTimerId,
  timerPending,
  events,         \* the queue: "timer" events, and "other" ones whatever the flags
  idleList,       \* [id, gen]
  lastIdleId,     \* idle handlers created
  idleGeneration,
  stack,          \* the loops, passes and handlers that are active, newest last
  others,         \* other events that have arrived
  left,           \* handlers due when a pass began that were there when it ended
  extra           \* handlers a pass called that were not due when it began

timerVars == <<timers, lastTimerId, timerPending, events>>
idleVars == <<idleList, lastIdleId, idleGeneration>>
vars == <<clock, timerVars, idleVars, stack, others, left, extra>>

\* What the loops run with: everything or timers left out, waiting or not.
Flags == {[timer |-> TRUE,  wait |-> TRUE], [timer |-> TRUE, wait |-> FALSE],
          [timer |-> FALSE, wait |-> FALSE]}
All == [timer |-> TRUE, wait |-> TRUE]
Poll == [timer |-> TRUE, wait |-> FALSE]

\* An activation: of a loop at a step ("queue", "wait", "again", "idle", "done", and
\* "check", "drain" for Tcl_ServiceAll), of a pass between two handlers ("next") or
\* in one ("call"), or of another handler.
Frame(proc, at, flags, limit, time, due) ==
  [proc |-> proc, at |-> at, flags |-> flags, limit |-> limit, time |-> time,
   due |-> due]

Init == /\ clock = 0
        /\ timers = <<>> /\ lastTimerId = 0 /\ timerPending = FALSE /\ events = <<>>
        /\ idleList = <<>> /\ lastIdleId = 0 /\ idleGeneration = 0
        /\ stack = <<>>
        /\ others = 0
        /\ left = {} /\ extra = {}

Top == Last(stack)
At(step) == stack # <<>> /\ Top.at = step
Go(step) == [stack EXCEPT ![Len(stack)].at = step]
\* A pass of another kind, or a nested loop, begins; who called goes on at "step".
Push(step, frame) == Append(Go(step), frame)

Ids(list) == {list[i].id : i \in DOMAIN list}

\* Some handler runs, or the code that calls the loop.
Code == stack # <<>> => Top.at = "call"
-------------------------------------------------------------------------------
(* What handlers and the application do *)

\* TclCreateAbsoluteTimerHandler: behind the timers that are not later.
Position(time) == Cardinality({i \in DOMAIN timers : timers[i].time <= time})
TclCreateAbsoluteTimerHandler(time) ==
  /\ Code /\ lastTimerId < MaxTimers
  /\ Past \/ time >= clock
  /\ lastTimerId' = lastTimerId + 1
  /\ timers' = InsertAt(timers, Position(time) + 1,
                        [id |-> lastTimerId + 1, time |-> time])
  /\ UNCHANGED <<clock, timerPending, events, idleVars, stack, others, left, extra>>

Tcl_DeleteTimerHandler(id) ==
  /\ Code /\ id \in Ids(timers)
  /\ timers' = Kept(timers, {h \in ToSet(timers) : h.id = id})
  /\ UNCHANGED <<clock, lastTimerId, timerPending, events, idleVars, stack, others,
                 left, extra>>

Tcl_DoWhenIdle ==
  /\ Code /\ lastIdleId < MaxIdle
  /\ lastIdleId' = lastIdleId + 1
  /\ idleList' = Append(idleList, [id |-> lastIdleId + 1, gen |-> idleGeneration])
  /\ UNCHANGED <<clock, timerVars, idleGeneration, stack, others, left, extra>>

\* All handlers with the same function and argument.
Tcl_CancelIdleCall(S) ==
  /\ Code /\ S # {} /\ S \subseteq Ids(idleList)
  /\ idleList' = Kept(idleList, {h \in ToSet(idleList) : h.id \in S})
  /\ UNCHANGED <<clock, timerVars, lastIdleId, idleGeneration, stack, others, left, extra>>

\* Tcl_DoOneEvent is called; if only idle events are wanted ("update idletasks") it goes
\* straight to them.  Tcl_ServiceAll does nothing inside of another loop.
Call(step, flags) ==
  /\ Code /\ Len(stack) < MaxDepth
  /\ stack' = Append(stack, Frame("loop", step, flags, 0, 0, {}))
  /\ UNCHANGED <<clock, timerVars, idleVars, others, left, extra>>
Tcl_DoOneEvent(flags) == Call("queue", flags)
UpdateIdletasks == Call("idle", [timer |-> FALSE, wait |-> FALSE])
Tcl_ServiceAll == stack = <<>> /\ Call("check", Poll)

\* The handler returns.
Return ==
  /\ At("call")
  /\ stack' = IF Top.proc = "other" THEN Front(stack) ELSE Go("next")
  /\ UNCHANGED <<clock, timerVars, idleVars, others, left, extra>>
-------------------------------------------------------------------------------
(* The loops *)

\* Tcl_ServiceEvent takes the first event that the flags want.
Wanted(e) == e = "other" \/ Top.flags.timer
Found == \E i \in DOMAIN events : Wanted(events[i])
First == CHOOSE i \in DOMAIN events :
           Wanted(events[i]) /\ \A j \in 1..(i - 1) : ~Wanted(events[j])

\* Tcl_ServiceAll goes on until there is none, Tcl_DoOneEvent returns.
After(step) == IF step = "drain" THEN "drain" ELSE "done"

\* The pass over the timers calls no handler created from now on, and looks at the
\* clock only now.
TimerHandlerEventProc(step) ==
  /\ At(step) /\ Found /\ events[First] = "timer"
  /\ events' = RemoveAt(events, First)
  /\ timerPending' = FALSE
  /\ stack' = Push(After(step),
       Frame("timers", "next", All, lastTimerId, clock,
             {h.id : h \in {x \in ToSet(timers) : x.time <= clock}}))
  /\ UNCHANGED <<clock, timers, lastTimerId, idleVars, others, left, extra>>

OtherEventProc(step) ==
  /\ At(step) /\ Found /\ events[First] = "other"
  /\ events' = RemoveAt(events, First)
  /\ stack' = Push(After(step), Frame("other", "call", All, 0, 0, {}))
  /\ UNCHANGED <<clock, timers, lastTimerId, timerPending, idleVars, others, left, extra>>

\* Nothing in the queue that is wanted: wait first, look at idle handlers then.
Nothing(step, next) ==
  /\ At(step) /\ ~Found
  /\ stack' = Go(next)
  /\ UNCHANGED <<clock, timerVars, idleVars, others, left, extra>>

\* TimerSetupProc: the loop does not block longer than until the first timer, and not
\* at all if there is an idle handler or a timer event.
Expired == timers # <<>> /\ timers[1].time <= clock
TimersOnly == ~Top.flags.wait \/ (Top.flags.timer /\ (timerPending \/ Expired))
MayGoOn == \/ ~Top.flags.wait
           \/ idleList # <<>>
           \/ Top.flags.timer /\ (timerPending \/ Expired)

\* TimerCheckProc queues an event if a timer has expired and none is queued.
AlwaysQueue == Top.flags.timer /\ Expired
QueueOne == Top.flags.timer /\ Expired /\ ~timerPending
TimerCheckProc ==
  /\ IF QueueOne THEN timerPending' = TRUE /\ events' = Append(events, "timer")
                 ELSE UNCHANGED <<timerPending, events>>
  /\ UNCHANGED <<clock, timers, lastTimerId, idleVars, others, left, extra>>

\* Tcl_WaitForEvent returns, because of the time or because another event is there.
Wait == /\ At("wait") /\ (MayGoOn \/ Contains(events, "other"))
        /\ stack' = Go("again")
        /\ TimerCheckProc
Check == At("check") /\ stack' = Go("drain") /\ TimerCheckProc

\* TclServiceIdle starts a new generation.
SameGeneration == idleGeneration
Generation == idleGeneration + 1
TclServiceIdle ==
  /\ At("idle") /\ idleList # <<>>
  /\ idleGeneration' = Generation
  /\ stack' = Push("done",
       Frame("idle", "next", All, idleGeneration, 0, Ids(idleList)))
  /\ UNCHANGED <<clock, timerVars, idleList, lastIdleId, others, left, extra>>

NothingIdle ==
  /\ At("idle") /\ idleList = <<>>
  /\ stack' = IF Top.flags.wait THEN Go("queue") ELSE Front(stack)
  /\ UNCHANGED <<clock, timerVars, idleVars, others, left, extra>>

Done ==
  /\ At("done")
  /\ stack' = Front(stack)
  /\ UNCHANGED <<clock, timerVars, idleVars, others, left, extra>>
-------------------------------------------------------------------------------
(* The passes *)

\* The pass goes on with the first timer, if it had expired when the pass began and
\* is not of a newer generation: it is taken off the list and called.
OnlyExpired(h) == h.time <= Top.time
Mine(h) == h.time <= Top.time /\ h.id <= Top.limit
CallTimer ==
  /\ At("next") /\ Top.proc = "timers"
  /\ \/ /\ timers # <<>> /\ Mine(Head(timers))
        /\ timers' = Tail(timers)
        /\ stack' = Go("call")
        /\ extra' = extra \cup ({Head(timers).id} \ Top.due)
        /\ UNCHANGED left
     \/ /\ ~(timers # <<>> /\ Mine(Head(timers)))
        /\ stack' = Front(stack)
        /\ left' = left \cup (Top.due \cap Ids(timers))
        /\ UNCHANGED <<timers, extra>>
  /\ UNCHANGED <<clock, lastTimerId, timerPending, events, idleVars, others>>

CallIdle ==
  /\ At("next") /\ Top.proc = "idle"
  /\ \/ /\ idleList # <<>> /\ Head(idleList).gen <= Top.limit
        /\ idleList' = Tail(idleList)
        /\ stack' = Go("call")
        /\ extra' = extra \cup ({-Head(idleList).id} \ {-i : i \in Top.due})
        /\ UNCHANGED left
     \/ /\ ~(idleList # <<>> /\ Head(idleList).gen <= Top.limit)
        /\ stack' = Front(stack)
        /\ left' = left \cup {-i : i \in Top.due \cap Ids(idleList)}
        /\ UNCHANGED <<idleList, extra>>
  /\ UNCHANGED <<clock, timerVars, lastIdleId, idleGeneration, others>>
-------------------------------------------------------------------------------
Tick == /\ clock < MaxTime
        /\ clock' = clock + 1
        /\ UNCHANGED <<timerVars, idleVars, stack, others, left, extra>>

\* A file is ready, or another thread queues an event.
Other == /\ others < MaxOther /\ others' = others + 1
         /\ events' = Append(events, "other")
         /\ UNCHANGED <<clock, timers, lastTimerId, timerPending, idleVars, stack, left,
                        extra>>

Loop == \/ \E step \in {"queue", "again", "drain"} :
             TimerHandlerEventProc(step) \/ OtherEventProc(step)
        \/ Nothing("queue", "wait") \/ Nothing("again", "idle")
        \/ Nothing("drain", "idle") \/ Check
        \/ Wait \/ TclServiceIdle \/ NothingIdle \/ Done
        \/ CallTimer \/ CallIdle

Next == \/ \E time \in 0..MaxTime : TclCreateAbsoluteTimerHandler(time)
        \/ \E id \in 1..MaxTimers : Tcl_DeleteTimerHandler(id)
        \/ Tcl_DoWhenIdle
        \/ \E S \in SUBSET (1..MaxIdle) : Tcl_CancelIdleCall(S)
        \/ \E flags \in Flags : Tcl_DoOneEvent(flags)
        \/ UpdateIdletasks \/ Tcl_ServiceAll \/ Return \/ Loop \/ Tick \/ Other

\* The loop runs, handlers return whatever they do before, and the application comes
\* back to the loop, as vwait does.
Fairness == /\ WF_vars(Loop) /\ SF_vars(Return)
            /\ SF_vars(stack = <<>> /\ Tcl_DoOneEvent(All))

Spec == Init /\ [][Next]_vars /\ Fairness
-------------------------------------------------------------------------------
\* timerPending says whether a timer event waits in the queue, and there is one at
\* most: a flag set without an event would stop all timers (TimerCheckProc would queue
\* no other).
PendingExact ==
  Cardinality({i \in DOMAIN events : events[i] = "timer"}) = IF timerPending THEN 1 ELSE 0

\* "invoke all idle handlers that are present at the time the call is invoked, but not
\* those added during idle processing" (tclTimer.c:684-686), and the same for timers
\* (531-535), however handlers and nested loops change the lists: nothing is called
\* that was not due when the pass began, and, with timers set for the future, nothing
\* that was due is left.
PassExact == /\ extra = {}
             /\ ~Past => left = {}

\* "we don't have to worry about newer generation timers appearing before later ones"
\* (tclTimer.c:548-549): no pass ends before an expired timer it should have called.
GenerationsSorted == left = {}

\* What is due is called or cancelled: no timer stays on the list for ever when it has
\* expired, no idle handler does.
Fires == []<>~Expired /\ []<>(idleList = <<>>)
==============================================================================
