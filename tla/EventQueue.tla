----------------------------- MODULE EventQueue -----------------------------
(***************************************************************************)
(* The event queue of a thread (generic/tclNotify.c): a linked list with a *)
(* pointer to the last event and one to a marker.  Any thread queues events*)
(* at the tail, at the head or behind the marker; the thread itself runs   *)
(* their handlers, without the mutex, and handlers run event loops of      *)
(* their own, queue events and delete some.                                *)
(*                                                                         *)
(* Events are malloc'ed: Events is the set of addresses, and an address    *)
(* that was freed may be handed out again.                                 *)
(***************************************************************************)
EXTENDS Integers, Sequences, FiniteSets, SequencesExt, Lists

CONSTANTS Events, NULL,
          MaxDepth  \* nested activations of Tcl_ServiceEvent, a bound of the model

ASSUME EventQueueAssumption == NULL \notin Events /\ MaxDepth \in Nat \ {0}

VARIABLES
  queue,   \* firstEventPtr and the events it leads to
  last,    \* lastEventPtr
  marker,  \* markerEventPtr
  kind,    \* where the event was queued: "tail", "head" or "mark"
  posted,  \* the events in the order they were queued
  stack,   \* activations of Tcl_ServiceEvent in which a handler runs, newest last
  whole,   \* Tcl_DeleteEvents may take events whose handler is running
  fault    \* the first use of an event that is no longer what it was

vars == <<queue, last, marker, kind, posted, stack, whole, fault>>

Init == /\ queue = <<>> /\ last = NULL /\ marker = NULL
        /\ kind = [e \in Events |-> "tail"] /\ posted = <<>>
        /\ stack = <<>>
        /\ whole \in BOOLEAN
        /\ fault = "none"
-------------------------------------------------------------------------------
\* The position of an event in the list, and the event before it.
At(e) == CHOOSE i \in DOMAIN queue : queue[i] = e
Before(e) == IF At(e) = 1 THEN NULL ELSE queue[At(e) - 1]

\* The list with e linked behind the event x: what used to follow follows e, if
\* the link was copied, and is lost if it was not.
LinkedBehind(x, e) == InsertAt(queue, At(x) + 1, e)
LinkedLast(x, e) == Append(SubSeq(queue, 1, At(x)), e)

(* Queueing: QueueEvent, by any thread *)

Fresh(e) == fault = "none" /\ ~Contains(queue, e)

\* The address is a new event now, whoever still has a pointer to the old one.
Queued(e, k) == /\ kind' = [kind EXCEPT ![e] = k]
                /\ posted' = Append(posted, e)
                /\ UNCHANGED <<stack, whole, fault>>

QueueTail(e) ==
  /\ Fresh(e)
  /\ queue' = IF queue = <<>> THEN <<e>> ELSE LinkedLast(last, e)
  /\ last' = e
  /\ Queued(e, "tail")
  /\ UNCHANGED marker

QueueHead(e) ==
  /\ Fresh(e)
  /\ queue' = <<e>> \o queue
  /\ last' = IF queue = <<>> THEN e ELSE last
  /\ Queued(e, "head")
  /\ UNCHANGED marker

\* lastEventPtr after an event was linked in front of others or at the end.
LastForgotten(e) == last
LastAfter(e) == IF Last(queue') = e THEN e ELSE last

MarkFront(e) ==
  /\ Fresh(e)
  /\ queue' = <<e>> \o queue
  /\ marker' = e
  /\ last' = LastAfter(e)
  /\ Queued(e, "mark")

QueueMark(e) ==
  /\ Fresh(e)
  /\ queue' = IF marker = NULL THEN <<e>> \o queue ELSE LinkedBehind(marker, e)
  /\ marker' = e
  /\ last' = LastAfter(e)
  /\ Queued(e, "mark")

(* Service: Tcl_ServiceEvent, by the thread of the queue *)

Top == Last(stack)

\* The handler of an event runs: its proc is NULL.
Running(e) == \E k \in DOMAIN stack : stack[k].ev = e /\ ~stack[k].stale

\* The events of S are freed: who still works on one has a stale pointer from then on.
Freed(S, st) ==
  [k \in DOMAIN st |-> [st[k] EXCEPT !.stale = @ \/ st[k].ev \in S]]

\* The first event from position i on whose handler does not run already, or NULL.
FirstOfAll(i) == IF i > Len(queue) THEN NULL ELSE queue[i]
FirstIdle(i) ==
  LET idle == {j \in i..Len(queue) : ~Running(queue[j])} IN
  IF idle = {} THEN NULL ELSE queue[CHOOSE j \in idle : \A l \in idle : j <= l]

\* The loop finds an event and calls its handler.
Service ==
  /\ fault = "none" /\ Len(stack) < MaxDepth
  /\ FirstIdle(1) # NULL
  /\ stack' = Append(stack, [ev |-> FirstIdle(1), stale |-> FALSE])
  /\ UNCHANGED <<queue, last, marker, kind, posted, whole, fault>>

RefuseBlindly ==
  /\ fault = "none" /\ stack # <<>> /\ ~Top.stale
  /\ stack' = [stack EXCEPT ![Len(stack)].ev = FirstIdle(At(Top.ev) + 1)]
  /\ UNCHANGED <<queue, last, marker, kind, posted, whole, fault>>

\* The handler does not want the event now: it stays, and the loop goes on behind
\* it.  "Note that we are making the assumption that if the proc returns 0, the
\* event is still in the list."
Refuse ==
  /\ fault = "none" /\ stack # <<>> /\ ~Top.stale
  /\ LET next == FirstIdle(At(Top.ev) + 1) IN
     stack' = IF next = NULL THEN Front(stack)
              ELSE [stack EXCEPT ![Len(stack)].ev = next]
  /\ UNCHANGED <<queue, last, marker, kind, posted, whole, fault>>

\* Where the marker points when e is taken out of the list.
MarkerKept(e) == marker
MarkerWithout(e) == IF marker = e THEN Before(e) ELSE marker

\* Where lastEventPtr points when e is taken out of the list.
LastKept(e) == last
LastWithout(e) == IF e = Last(queue) THEN Before(e) ELSE last

Unlink(e) == /\ queue' = Kept(queue, {e})
             /\ posted' = Kept(posted, {e})
             /\ last' = LastWithout(e)
             /\ marker' = MarkerWithout(e)

\* The handler is done with the event: it is looked up again and freed, if it is
\* still there.
Handle ==
  /\ fault = "none" /\ stack # <<>>
  /\ \/ /\ ~Contains(queue, Top.ev)
        /\ stack' = Front(stack)
        /\ UNCHANGED <<queue, last, marker, posted, fault>>
     \/ /\ Contains(queue, Top.ev)
        /\ Unlink(Top.ev)
        /\ stack' = Freed({Top.ev}, Front(stack))
        /\ fault' = IF Top.stale THEN "lost" ELSE "none"
  /\ UNCHANGED <<kind, whole>>

\* Tcl_DeleteEvents takes the events its caller asks for out, one after the other.
Delete(S) ==
  /\ fault = "none" /\ S # {} /\ \A e \in S : Contains(queue, e)
  /\ whole \/ \A e \in S : ~Running(e)
  /\ LET kept == Kept(queue, S)
         left(e) == Kept(SubSeq(queue, 1, At(e) - 1), S)
     IN /\ queue' = kept
        /\ posted' = Kept(posted, S)
        /\ last' = IF last \notin S THEN last
                   ELSE IF kept = <<>> THEN NULL ELSE Last(kept)
        /\ marker' = IF marker \notin S THEN marker
                     ELSE IF left(marker) = <<>> THEN NULL ELSE Last(left(marker))
  /\ stack' = Freed(S, stack)
  /\ UNCHANGED <<kind, whole, fault>>
-------------------------------------------------------------------------------
Next == \/ \E e \in Events : QueueTail(e) \/ QueueHead(e) \/ QueueMark(e)
        \/ Service \/ Refuse \/ Handle
        \/ \E S \in SUBSET Events : Delete(S)

Spec == Init /\ [][Next]_vars
-------------------------------------------------------------------------------
\* The types of the list and of the activations.
TypeOK ==
  /\ queue \in Seq(Events) /\ posted \in Seq(Events)
  /\ last \in Events \cup {NULL} /\ marker \in Events \cup {NULL}
  /\ kind \in [Events -> {"tail", "head", "mark"}]
  /\ stack \in Seq([ev : Events, stale : BOOLEAN]) /\ Len(stack) <= MaxDepth
  /\ whole \in BOOLEAN /\ fault \in {"none", "lost"}

\* The pointers lead where they say: lastEventPtr to the end of the list, the
\* marker into it, no event is linked twice, and an event whose handler runs is in
\* the list and runs once.  So no event is cut off by the next one queued.
Linked ==
  /\ queue # <<>> => last = Last(queue)
  /\ marker # NULL => Contains(queue, marker)
  /\ \A i, j \in DOMAIN queue : queue[i] = queue[j] => i = j
  /\ ToSet(queue) = ToSet(posted)
  /\ \A k, l \in DOMAIN stack : ~stack[k].stale /\ ~stack[l].stale =>
       /\ Contains(queue, stack[k].ev)
       /\ stack[k].ev = stack[l].ev => k = l

\* "Events inserted before the marker will be processed in first-in-first-out
\* order, but before any events inserted at the tail of the queue.  Events
\* inserted at the head of the queue will be processed in last-in-first-out
\* order" (tclNotify.c:433-436), whatever has been handled and deleted since.
Ordered ==
  \A d, e \in Events : Precedes(queue, d, e) =>
    /\ kind[d] = "tail" => kind[e] = "tail" /\ Precedes(posted, d, e)
    /\ kind[d] = "mark" /\ kind[e] = "mark" => Precedes(posted, d, e)
    /\ kind[d] = "head" /\ kind[e] = "head" => Precedes(posted, e, d)

\* No event is freed before its handler has run, as long as those who delete events
\* leave the ones being handled alone.
NothingLost == ~whole => fault = "none"

\* "When freeing the event, must search the queue again from the front to find it
\* ... we can't depend on pointers found now still being valid when the handler
\* returns" (tclNotify.c:656-660): the search finds the event that was handled.
FoundAgain == fault # "lost"
==============================================================================
