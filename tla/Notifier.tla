------------------------------ MODULE Notifier ------------------------------
(***************************************************************************)
(* How the threads of a process wait for files and for each other on Unix  *)
(* (unix/tclUnixNotfy.c, with threads; the platform independent half is in *)
(* generic/tclNotify.c).  One notifier thread calls select() for all of    *)
(* them: a thread that waits puts itself on a list, writes a byte to the   *)
(* trigger pipe and sleeps; the notifier thread marks the files it found   *)
(* ready, takes the thread off the list and wakes it.  Other threads wake  *)
(* it when they have queued an event for it.                               *)
(*                                                                         *)
(* A step is what runs under notifierMutex without waiting.  A file has one*)
(* condition, as if every handler asked for TCL_READABLE.                  *)
(***************************************************************************)
EXTENDS Integers, Sequences, FiniteSets, SequencesExt

CONSTANTS Threads, NULL,
          Files,     \* the files a thread may have handlers for
          MaxEvents, \* file events queued for one file, a bound of the model
          PipeSize   \* bytes the trigger pipe holds

ASSUME NotifierAssumption ==
  /\ NULL \notin Threads
  /\ \A s, t \in Threads : s # t => Files[s] \cap Files[t] = {}
  /\ MaxEvents \in Nat \ {0} /\ PipeSize \in Nat \ {0}

AllFiles == UNION {Files[t] : t \in Threads}

VARIABLES
  state,      \* of a thread: "off", "starting", "running", "idle", "asleep", ...
  mode,       \* how it waits: "poll", "time" or "ever"
  watch,      \* checkMasks: its files with a handler
  ready,      \* readyMasks: what the notifier thread found
  readyMask,  \* the handlers whose readyMask is not zero
  events,     \* for each file: the file events in its thread's queue
  inbox,      \* an event from another thread is in its queue
  alerting,   \* the thread it is about to alert, or NULL
  eventReady,
  signalled,  \* waitCV was notified and the thread has not run since
  pollState,  \* "none", "want" (POLL_WANT) or "done" (POLL_WANT | POLL_DONE)
  list,       \* waitingListPtr
  listLock,   \* the thread that holds listLock while it waits, or NULL
  count,      \* notifierCount
  open,       \* triggerPipe >= 0
  bytes,      \* bytes in the trigger pipe
  quit,       \* then comes a "q" or the end of file
  pc,         \* the notifier thread: "off", "start", "masks", "select", ...
  mask,       \* the files it selects
  polling,    \* with a zero timeout
  seen,       \* the files select found ready
  piped,      \* and the pipe was readable
  hot         \* the files that are ready

threadVars == <<state, mode, watch, ready, readyMask, events, inbox, alerting>>
wakeVars == <<eventReady, signalled, pollState, list>>
lifeVars == <<listLock, count, open>>
pipeVars == <<bytes, quit>>
selectVars == <<mask, polling, seen, piped>>
vars == <<threadVars, wakeVars, lifeVars, pipeVars, pc, selectVars, hot>>

Init ==
  /\ state = [t \in Threads |-> "off"] /\ mode = [t \in Threads |-> "ever"]
  /\ watch = [t \in Threads |-> {}] /\ ready = [t \in Threads |-> {}]
  /\ readyMask = [t \in Threads |-> {}] /\ events = [f \in AllFiles |-> 0]
  /\ inbox = [t \in Threads |-> FALSE] /\ alerting = [t \in Threads |-> NULL]
  /\ eventReady = [t \in Threads |-> FALSE] /\ signalled = [t \in Threads |-> FALSE]
  /\ pollState = [t \in Threads |-> "none"] /\ list = <<>>
  /\ listLock = NULL /\ count = 0 /\ open = FALSE
  /\ bytes = 0 /\ quit = FALSE
  /\ pc = "off" /\ mask = {} /\ polling = FALSE /\ seen = {} /\ piped = FALSE
  /\ hot = {}

Runs(t) == state[t] = "running" /\ alerting[t] = NULL
-------------------------------------------------------------------------------
(* Starting and stopping *)

\* TclInitNotifier holds listLock; the first thread creates the notifier thread
\* and all wait for the trigger pipe.
NeverLocked == TRUE
Unlocked == listLock = NULL
TclInitNotifier(t) ==
  /\ state[t] = "off" /\ Unlocked
  /\ count' = count + 1
  /\ pc' = IF count = 0 THEN "start" ELSE pc
  /\ IF open THEN /\ state' = [state EXCEPT ![t] = "running"] /\ UNCHANGED listLock
             ELSE /\ state' = [state EXCEPT ![t] = "starting"] /\ listLock' = t
  /\ eventReady' = [eventReady EXCEPT ![t] = FALSE]
  /\ UNCHANGED <<mode, watch, ready, readyMask, events, inbox, alerting, signalled,
                 pollState, list, open, pipeVars, selectVars, hot>>

Started(t) ==
  /\ state[t] = "starting" /\ open
  /\ state' = [state EXCEPT ![t] = "running"] /\ listLock' = NULL
  /\ UNCHANGED <<mode, watch, ready, readyMask, events, inbox, alerting, wakeVars,
                 count, open, pipeVars, pc, selectVars, hot>>

\* TclFinalizeNotifier frees the queue first, under queueMutex only.
Empty(t) ==
  /\ Runs(t)
  /\ state' = [state EXCEPT ![t] = "emptied"]
  /\ inbox' = [inbox EXCEPT ![t] = FALSE]
  /\ events' = [f \in AllFiles |-> IF f \in Files[t] THEN 0 ELSE events[f]]
  /\ UNCHANGED <<mode, watch, ready, readyMask, alerting, wakeVars, lifeVars,
                 pipeVars, pc, selectVars, hot>>

\* The thread local data are gone with the thread.
Gone(t) == /\ state' = [state EXCEPT ![t] = "off"]
           /\ inbox' = [inbox EXCEPT ![t] = FALSE]
           /\ watch' = [watch EXCEPT ![t] = {}]
           /\ ready' = [ready EXCEPT ![t] = {}]
           /\ readyMask' = [readyMask EXCEPT ![t] = {}]
           /\ eventReady' = [eventReady EXCEPT ![t] = FALSE]
           /\ pollState' = [pollState EXCEPT ![t] = "none"]
           /\ UNCHANGED <<mode, events, alerting, signalled, list, pc, selectVars,
                          hot, open>>

\* Then, under listLock, it leaves; the last one tells the notifier thread to quit
\* and waits for its end.
TclFinalizeNotifier(t) ==
  /\ state[t] = "emptied" /\ Unlocked
  /\ count' = count - 1
  /\ \/ /\ count # 1
        /\ Gone(t)
        /\ UNCHANGED <<listLock, pipeVars>>
     \/ /\ count = 1
        /\ quit' = TRUE /\ listLock' = t
        /\ state' = [state EXCEPT ![t] = "stopping"]
        /\ UNCHANGED <<mode, watch, ready, readyMask, events, inbox, alerting,
                       wakeVars, open, bytes, pc, selectVars, hot>>

Joined(t) ==
  /\ state[t] = "stopping" /\ ~open /\ pc = "off"
  /\ Gone(t)
  /\ listLock' = NULL
  /\ UNCHANGED <<count, pipeVars>>
-------------------------------------------------------------------------------
(* What a thread does between two waits *)

\* Tcl_CreateFileHandler for a new file, and Tcl_DeleteFileHandler: the handler
\* goes with its readyMask, the events it has in the queue stay.
Tcl_CreateFileHandler(t, f) ==
  /\ Runs(t) /\ f \in Files[t] \ watch[t]
  /\ watch' = [watch EXCEPT ![t] = @ \cup {f}]
  /\ UNCHANGED <<state, mode, ready, readyMask, events, inbox, alerting, wakeVars,
                 lifeVars, pipeVars, pc, selectVars, hot>>

MaskKept(t, f) == readyMask[t]
MaskGone(t, f) == readyMask[t] \ {f}
Tcl_DeleteFileHandler(t, f) ==
  /\ Runs(t) /\ f \in watch[t] /\ events[f] < MaxEvents
  /\ watch' = [watch EXCEPT ![t] = @ \ {f}]
  /\ readyMask' = [readyMask EXCEPT ![t] = MaskGone(t, f)]
  /\ UNCHANGED <<state, mode, ready, events, inbox, alerting, wakeVars, lifeVars,
                 pipeVars, pc, selectVars, hot>>

\* A file event is taken from the queue; the callback, if there is still a reason
\* to call it, reads what there is.
FileHandlerEventProc(t, f) ==
  /\ Runs(t) /\ f \in Files[t] /\ events[f] > 0
  /\ events' = [events EXCEPT ![f] = @ - 1]
  /\ IF f \in watch[t] THEN /\ readyMask' = [readyMask EXCEPT ![t] = @ \ {f}]
                           /\ hot' = hot \ (readyMask[t] \cap {f})
                      ELSE UNCHANGED <<readyMask, hot>>
  /\ UNCHANGED <<state, mode, watch, ready, inbox, alerting, wakeVars, lifeVars,
                 pipeVars, pc, selectVars>>

\* The event from another thread is handled.
Receive(t) ==
  /\ Runs(t) /\ inbox[t]
  /\ inbox' = [inbox EXCEPT ![t] = FALSE]
  /\ UNCHANGED <<state, mode, watch, ready, readyMask, events, alerting, wakeVars,
                 lifeVars, pipeVars, pc, selectVars, hot>>

\* Tcl_ThreadQueueEvent, and then Tcl_ThreadAlert: two critical sections.  A
\* thread that is not in the list of notifiers gets neither.
Listed(t) == state[t] \notin {"off", "starting"}
Tcl_ThreadQueueEvent(s, t) ==
  /\ Runs(s) /\ Unlocked /\ s # t /\ Listed(t)
  /\ inbox' = [inbox EXCEPT ![t] = TRUE]
  /\ alerting' = [alerting EXCEPT ![s] = t]
  /\ UNCHANGED <<state, mode, watch, ready, readyMask, events, wakeVars, lifeVars,
                 pipeVars, pc, selectVars, hot>>

\* Tcl_AlertNotifier; a condition variable wakes only who waits on it.
Notified(t) == state[t] = "asleep"
OnlySignal(t) == [eventReady EXCEPT ![t] = eventReady[t] \/ state[t] = "asleep"]
Alerted(t) == [eventReady EXCEPT ![t] = TRUE]
Tcl_ThreadAlert(s) ==
  /\ alerting[s] # NULL /\ Unlocked
  /\ LET t == alerting[s] IN
     /\ eventReady' = IF Listed(t) THEN Alerted(t) ELSE eventReady
     /\ signalled' = IF Listed(t) THEN [signalled EXCEPT ![t] = Notified(t)]
                     ELSE signalled
  /\ alerting' = [alerting EXCEPT ![s] = NULL]
  /\ UNCHANGED <<state, mode, watch, ready, readyMask, events, inbox, pollState, list,
                 lifeVars, pipeVars, pc, selectVars, hot>>
-------------------------------------------------------------------------------
(* Tcl_WaitForEvent *)

\* Tcl_DoOneEvent has found nothing in the queue that its flags ask for (they may
\* leave out file events) and is going to wait.
Tcl_DoOneEvent(t) ==
  /\ Runs(t) /\ ~inbox[t]
  /\ state' = [state EXCEPT ![t] = "idle"]
  /\ UNCHANGED <<mode, watch, ready, readyMask, events, inbox, alerting, wakeVars,
                 lifeVars, pipeVars, pc, selectVars, hot>>

\* A write to the full pipe is lost: there are bytes enough in it.
NoTrigger(n) == UNCHANGED bytes
Trigger(n) == bytes' = IF bytes + n > PipeSize THEN PipeSize ELSE bytes + n

\* The list without t, on which it is once at most.
Without(l, t) == IF Contains(l, t)
                 THEN RemoveAt(l, CHOOSE i \in DOMAIN l : l[i] = t) ELSE l

\* Off the list, if it is still on it, and the ready files become events.  What the
\* wait was about is not looked at again: it is reset here, for fewer states.
Return(t, waiting, found) ==
  /\ list' = Without(waiting, t)
  /\ eventReady' = [eventReady EXCEPT ![t] = FALSE]
  /\ signalled' = [signalled EXCEPT ![t] = FALSE]
  /\ ready' = [ready EXCEPT ![t] = {}]
  /\ mode' = [mode EXCEPT ![t] = "ever"]
  /\ pollState' = [pollState EXCEPT ![t] = "none"]
  /\ events' = [f \in AllFiles |->
                  IF f \in (found \cap watch[t]) \ readyMask[t]
                  THEN events[f] + 1 ELSE events[f]]
  /\ readyMask' = [readyMask EXCEPT ![t] = @ \cup (found \cap watch[t])]
  /\ state' = [state EXCEPT ![t] = "running"]

\* An event is ready before the thread sleeps, or it sleeps.
WaitForEvent(t, m) ==
  LET files == m = "poll" \/ watch[t] # {}
      waiting == IF files THEN <<t>> \o list ELSE list
  IN
  /\ state[t] = "idle"
  /\ \/ /\ eventReady[t]
        /\ Return(t, waiting, {})
        /\ IF files THEN Trigger(2) ELSE UNCHANGED bytes
     \/ /\ ~eventReady[t]
        /\ state' = [state EXCEPT ![t] = "asleep"]
        /\ mode' = [mode EXCEPT ![t] = m]
        /\ pollState' = [pollState EXCEPT ![t] = IF m = "poll" THEN "want" ELSE "none"]
        /\ list' = waiting
        /\ IF files THEN Trigger(1) ELSE UNCHANGED bytes
        /\ UNCHANGED <<ready, readyMask, events, eventReady, signalled>>
  /\ UNCHANGED <<watch, inbox, alerting, lifeVars, quit, pc, selectVars, hot>>

\* The condition variable was notified, or the time is over.
Wake(t) ==
  /\ state[t] = "asleep"
  /\ Return(t, list, ready[t])
  /\ IF Contains(list, t) THEN Trigger(1) ELSE UNCHANGED bytes
  /\ UNCHANGED <<watch, inbox, alerting, lifeVars, quit, pc, selectVars, hot>>
Woken(t) == signalled[t] /\ Wake(t)
TimedOut(t) == mode[t] = "time" /\ ~signalled[t] /\ Wake(t)
-------------------------------------------------------------------------------
(* NotifierThreadProc *)

NotifierStart ==
  /\ pc = "start"
  /\ open' = TRUE /\ pc' = "masks" /\ bytes' = 0 /\ quit' = FALSE
  /\ UNCHANGED <<threadVars, wakeVars, listLock, count, selectVars, hot>>

\* "Compute the logical OR of the select masks from all the waiting notifiers."
ComputeMasks ==
  /\ pc = "masks"
  /\ mask' = UNION {watch[t] : t \in ToSet(list)}
  /\ pollState' = [t \in Threads |-> IF Contains(list, t) /\ pollState[t] = "want"
                                     THEN "done" ELSE pollState[t]]
  /\ polling' = \E t \in ToSet(list) : pollState[t] # "none"
  /\ pc' = "select"
  /\ UNCHANGED <<threadVars, eventReady, signalled, list, lifeVars, pipeVars, seen,
                 piped, hot>>

\* select() returns with something, or at once when somebody polls.
Select ==
  /\ pc = "select"
  /\ mask \cap hot # {} \/ bytes > 0 \/ quit \/ polling
  /\ seen' = mask \cap hot /\ piped' = (bytes > 0 \/ quit)
  /\ pc' = "report"
  /\ mask' = {} /\ polling' = FALSE
  /\ UNCHANGED <<threadVars, wakeVars, lifeVars, pipeVars, hot>>

\* A signal, or a file that was closed meanwhile.
SelectFails ==
  /\ pc = "select"
  /\ pc' = "masks"
  /\ mask' = {} /\ polling' = FALSE
  /\ UNCHANGED <<threadVars, wakeVars, lifeVars, pipeVars, seen, piped, hot>>

\* A thread with a ready file, or that polls and was in the masks, is woken.  Its
\* nextPtr is cleared when it leaves the list, so the walk ends with it.
Reported(t) == seen \cap watch[t] # {} \/ pollState[t] = "done"
Foremost(i) == Reported(list[i]) /\ \A j \in 1..(i - 1) : ~Reported(list[j])
Report ==
  /\ pc = "report"
  /\ pc' = IF piped THEN "read" ELSE "masks"
  /\ seen' = {} /\ piped' = FALSE
  /\ \/ /\ \A t \in ToSet(list) : ~Reported(t)
        /\ UNCHANGED <<ready, wakeVars>>
     \/ \E i \in DOMAIN list :
          /\ Foremost(i)
          /\ LET t == list[i] IN
             /\ ready' = [ready EXCEPT ![t] = @ \cup (seen \cap watch[t])]
             /\ eventReady' = [eventReady EXCEPT ![t] = TRUE]
             /\ list' = Without(list, t)
             /\ pollState' = [pollState EXCEPT ![t] = "none"]
             /\ signalled' = [signalled EXCEPT ![t] = Notified(t)]
  /\ UNCHANGED <<state, mode, watch, readyMask, events, inbox, alerting, lifeVars,
                 pipeVars, mask, polling, hot>>

\* One byte is read; behind the last one comes the end.
ReadPipe ==
  /\ pc = "read"
  /\ IF bytes > 0 THEN bytes' = bytes - 1 /\ pc' = "masks"
                  ELSE pc' = "exit" /\ UNCHANGED bytes
  /\ UNCHANGED <<threadVars, wakeVars, lifeVars, quit, selectVars, hot>>

NotifierExit ==
  /\ pc = "exit"
  /\ open' = FALSE /\ pc' = "off"
  /\ UNCHANGED <<threadVars, wakeVars, listLock, count, pipeVars, selectVars, hot>>
-------------------------------------------------------------------------------
\* Data arrive.
Arrive(f) == /\ f \notin hot /\ hot' = hot \cup {f}
             /\ UNCHANGED <<threadVars, wakeVars, lifeVars, pipeVars, pc, selectVars>>

NotifierThreadProc == \/ NotifierStart \/ ComputeMasks \/ Select \/ Report
                      \/ ReadPipe \/ NotifierExit

Next ==
  \/ \E t \in Threads :
       \/ TclInitNotifier(t) \/ Started(t) \/ Empty(t) \/ TclFinalizeNotifier(t)
       \/ Joined(t) \/ Receive(t) \/ Tcl_ThreadAlert(t) \/ Tcl_DoOneEvent(t)
       \/ Woken(t) \/ TimedOut(t)
       \/ \E f \in Files[t] : \/ Tcl_CreateFileHandler(t, f)
                              \/ Tcl_DeleteFileHandler(t, f)
                              \/ FileHandlerEventProc(t, f)
       \/ \E u \in Threads : Tcl_ThreadQueueEvent(t, u)
       \/ \E m \in {"poll", "time", "ever"} : WaitForEvent(t, m)
  \/ NotifierThreadProc \/ SelectFails
  \/ \E f \in AllFiles : Arrive(f)

\* Threads run, a thread handles what it has received, who has queued an event goes
\* on to alert, and select() does not fail for ever.
Fairness ==
  /\ WF_vars(NotifierThreadProc) /\ SF_vars(Select)
  /\ \A t \in Threads :
       /\ WF_vars(Started(t)) /\ WF_vars(TclFinalizeNotifier(t)) /\ WF_vars(Joined(t))
       /\ WF_vars(Receive(t)) /\ WF_vars(Tcl_ThreadAlert(t)) /\ WF_vars(Woken(t))

Spec == Init /\ [][Next]_vars /\ Fairness
-------------------------------------------------------------------------------
\* The types of the notifier's structures.
TypeOK ==
  /\ state \in [Threads -> {"off", "starting", "running", "idle", "asleep", "emptied",
                           "stopping"}]
  /\ mode \in [Threads -> {"poll", "time", "ever"}]
  /\ watch \in [Threads -> SUBSET AllFiles] /\ ready \in [Threads -> SUBSET AllFiles]
  /\ readyMask \in [Threads -> SUBSET AllFiles] /\ events \in [AllFiles -> Nat]
  /\ inbox \in [Threads -> BOOLEAN] /\ alerting \in [Threads -> Threads \cup {NULL}]
  /\ eventReady \in [Threads -> BOOLEAN] /\ signalled \in [Threads -> BOOLEAN]
  /\ pollState \in [Threads -> {"none", "want", "done"}] /\ list \in Seq(Threads)
  /\ listLock \in Threads \cup {NULL} /\ count \in Int /\ open \in BOOLEAN
  /\ bytes \in Nat /\ quit \in BOOLEAN
  /\ pc \in {"off", "start", "masks", "select", "report", "read", "exit"}
  /\ mask \subseteq AllFiles /\ seen \subseteq AllFiles /\ hot \subseteq AllFiles
  /\ polling \in BOOLEAN /\ piped \in BOOLEAN

\* Nobody sleeps through a wakeup: an event queued for a sleeping thread wakes it
\* or somebody is about to, and one who polls is woken or on the list.
NoLostWakeup ==
  \A t \in Threads : state[t] = "asleep" =>
    /\ eventReady[t] => signalled[t]
    /\ inbox[t] => eventReady[t] \/ \E s \in Threads : alerting[s] = t
    /\ (mode[t] = "poll" \/ watch[t] # {}) /\ ~Contains(list, t) => signalled[t]

\* "You must hold the notifierMutex lock before accessing these fields"
\* (tclUnixNotfy.c:101-103): a thread changes its checkMasks without it, so it must not
\* be on the list then, and it is there once.  A thread that may write to the pipe finds
\* it open and somebody who reads it.
ListExact == /\ \A i, j \in DOMAIN list : list[i] = list[j] => i = j
             /\ \A i \in DOMAIN list : state[list[i]] = "asleep"
PipeRead == \A t \in Threads : state[t] \in {"running", "idle", "asleep", "emptied"} =>
              open /\ ~quit /\ pc \notin {"off", "start", "exit"}
Unraced == ListExact /\ PipeRead

\* "Don't bother to queue an event if the mask was previously non-zero since an
\* event must still be on the queue" (tclUnixNotfy.c:847-850).
InLoop(t) == state[t] \in {"running", "idle", "asleep"}
EventThere == \A t \in Threads : InLoop(t) => \A f \in readyMask[t] : events[f] > 0

\* "Alert any threads that are waiting on a ready file descriptor"
\* (tclUnixNotfy.c:994): nobody whose file was found ready is left on the list.
AlertsAll ==
  [][Report => \A t \in ToSet(list) :
                 seen \cap watch[t] # {} => ~Contains(list', t)]_vars

\* An event queued for a thread wakes it.  So do its files and the poll it asked for,
\* unless the notifier thread finds others first for ever.
OthersQuiet(t) ==
  <>[](\A s \in Threads \ {t} : mode[s] # "poll" /\ Files[s] \cap hot = {})
Due(t) == state[t] = "asleep" /\ (mode[t] = "poll" \/ watch[t] \cap hot # {})
Wakes ==
  \A t \in Threads : /\ inbox[t] /\ state[t] = "asleep" ~> state[t] # "asleep"
                     /\ OthersQuiet(t) => []<>~Due(t)

\* Starting and stopping a notifier come to an end, and listLock with them.
Settles == []<>(listLock = NULL)
==============================================================================
