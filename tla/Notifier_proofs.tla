-------------------------- MODULE Notifier_proofs --------------------------
(***************************************************************************)
(* The Unix notifier loses no wakeup and keeps its list, its pipe and its  *)
(* file events in order, for any threads, files and size of the pipe.      *)
(***************************************************************************)
EXTENDS Notifier, FiniteSetTheorems, SequenceTheorems, TLAPS

\* A handler's readyMask goes with it, and a thread that has not begun has none.
Masks == \A t \in Threads : /\ readyMask[t] \subseteq watch[t] /\ watch[t] \subseteq Files[t]
                            /\ state[t] \in {"off", "starting"} => watch[t] = {}

\* An event for a thread that waits, or has found its queue empty, is announced.
Told == \A t \in Threads :
          state[t] \in {"idle", "asleep"} /\ inbox[t] =>
            eventReady[t] \/ \E s \in Threads : alerting[s] = t

\* The threads notifierCount counts.
Users == {t \in Threads : state[t] \notin {"off", "stopping"}}
Counted == IsFiniteSet(Users) /\ count = Cardinality(Users)

\* Who waits for the notifier thread holds listLock.
Locks == \A t \in Threads : state[t] \in {"starting", "stopping"} => listLock = t

\* The life of the notifier thread: none, being stopped, starting, running.
Stopping == \E t \in Threads : state[t] = "stopping"
Absent == Users = {} /\ ~Stopping /\ pc = "off" /\ ~open
Ending == Users = {} /\ Stopping /\ pc # "start" /\ quit
Beginning == /\ Users # {} /\ ~Stopping /\ pc = "start" /\ ~open
             /\ \A t \in Users : state[t] = "starting"
Serving == /\ Users # {} /\ ~Stopping /\ open /\ ~quit
           /\ pc \in {"masks", "select", "report", "read"}
Phase == Absent \/ Ending \/ Beginning \/ Serving

\* It reads the pipe only if there is something in it.
Sent == pc = "read" \/ (pc = "report" /\ piped) => bytes > 0 \/ quit

IInv == /\ TypeOK /\ ListExact /\ Masks /\ EventThere /\ Told /\ NoLostWakeup
        /\ Counted /\ Locks /\ Phase /\ Sent

-------------------------------------------------------------------------------
(* Sequences.                                                               *)

Injective(l) == \A i, j \in DOMAIN l : l[i] = l[j] => i = j

\* Taking an element off a list leaves the others.
LEMMA WithoutFacts ==
  ASSUME NEW S, NEW l \in Seq(S), Injective(l), NEW t
  PROVE  /\ Without(l, t) \in Seq(S) /\ Injective(Without(l, t))
         /\ \A v : Contains(Without(l, t), v) <=> Contains(l, v) /\ v # t
<1>1. CASE ~Contains(l, t)
  <2>1. Without(l, t) = l
    BY <1>1 DEF Without
  <2> QED
    BY <1>1, <2>1
<1>2. CASE Contains(l, t)
  <2> DEFINE k == CHOOSE i \in DOMAIN l : l[i] = t
             n == Len(l)
             w == SubSeq(l, 1, k - 1) \o SubSeq(l, k + 1, n)
  <2>1. n \in Nat /\ DOMAIN l = 1..n /\ \A i \in 1..n : l[i] \in S
    BY LenProperties, ElementOfSeq
  <2>2. k \in 1..n /\ l[k] = t
    BY <1>2, <2>1 DEF Contains
  <2>3. Without(l, t) = w
    BY <1>2 DEF Without, RemoveAt
  <2> HIDE DEF k
  <2> DEFINE a == SubSeq(l, 1, k - 1)
             b == SubSeq(l, k + 1, n)
  <2>4. a \in Seq(S) /\ Len(a) = k - 1 /\ \A i \in 1..(k - 1) : a[i] = l[1 + i - 1]
    BY <2>1, <2>2, SubSeqProperties
  <2>5. b \in Seq(S) /\ Len(b) = n - k /\ \A i \in 1..(n - k) : b[i] = l[k + 1 + i - 1]
    <3>1. k + 1 \in Int /\ n \in Int /\ \A i \in (k + 1)..n : l[i] \in S
      BY <2>1, <2>2
    <3>2. /\ b \in Seq(S) /\ Len(b) = IF k + 1 <= n THEN n - (k + 1) + 1 ELSE 0
          /\ \A i \in 1..(n - (k + 1) + 1) : b[i] = l[k + 1 + i - 1]
      BY <3>1, SubSeqProperties
    <3>3. n \in Nat /\ k \in Int /\ 1 <= k /\ k <= n
      BY <2>1, <2>2
    <3> HIDE DEF n
    <3>4. n - (k + 1) + 1 = n - k
      BY <3>3
    <3>5. ~(k + 1 <= n) => n - k = 0
      BY <3>3
    <3> QED
      BY <3>2, <3>3, <3>4, <3>5
  <2> HIDE DEF a, b
  <2>6. /\ a \o b \in Seq(S) /\ Len(a \o b) = Len(a) + Len(b)
        /\ \A i \in 1..(Len(a) + Len(b)) :
             (a \o b)[i] = IF i <= Len(a) THEN a[i] ELSE b[i - Len(a)]
    BY <2>4, <2>5, ConcatProperties
  <2> DEFINE c == a \o b
  <2>7. w = c
    BY DEF a, b
  <2> HIDE DEF c, w
  <2>8. c \in Seq(S) /\ Len(c) = n - 1 /\ DOMAIN c = 1..(n - 1)
    <3>1. c \in Seq(S) /\ Len(c) = n - 1
      BY <2>1, <2>2, <2>4, <2>5, <2>6 DEF c
    <3> QED
      BY <3>1, LenProperties
  <2>9. \A i \in 1..(n - 1) : c[i] = IF i < k THEN l[i] ELSE l[i + 1]
    <3> SUFFICES ASSUME NEW i \in 1..(n - 1)
                 PROVE  c[i] = IF i < k THEN l[i] ELSE l[i + 1]
      OBVIOUS
    <3>1. c[i] = IF i <= k - 1 THEN a[i] ELSE b[i - (k - 1)]
      BY <2>1, <2>2, <2>4, <2>5, <2>6 DEF c
    <3>2. CASE i < k
      BY <2>1, <2>2, <2>4, <3>1, <3>2
    <3>3. CASE ~(i < k)
      <4>1. i - (k - 1) \in 1..(n - k) /\ k + 1 + (i - (k - 1)) - 1 = i + 1 /\ ~(i <= k - 1)
        BY <2>1, <2>2, <3>3
      <4> QED
        BY <2>5, <3>1, <3>3, <4>1
    <3> QED
      BY <3>2, <3>3
  <2>10. Injective(c)
    <3> SUFFICES ASSUME NEW i \in 1..(n - 1), NEW j \in 1..(n - 1), c[i] = c[j] PROVE i = j
      BY <2>8 DEF Injective
    <3> DEFINE o(m) == IF m < k THEN m ELSE m + 1
    <3>1. o(i) \in 1..n /\ o(j) \in 1..n /\ (o(i) = o(j) => i = j)
      BY <2>1, <2>2
    <3>2. c[i] = l[o(i)] /\ c[j] = l[o(j)]
      BY <2>9
    <3> HIDE DEF o
    <3> QED
      BY <2>1, <3>1, <3>2 DEF Injective
  <2>11. ASSUME NEW v PROVE Contains(c, v) <=> Contains(l, v) /\ v # t
    <3>1. ASSUME Contains(c, v) PROVE Contains(l, v) /\ v # t
      <4>1. PICK i \in 1..(n - 1) : c[i] = v
        BY <2>8, <3>1 DEF Contains
      <4>2. PICK j \in 1..n : l[j] = v /\ j # k
        <5>1. CASE i < k
          BY <2>1, <2>2, <2>9, <4>1, <5>1
        <5>2. CASE ~(i < k)
          BY <2>1, <2>2, <2>9, <4>1, <5>2
        <5> QED
          BY <5>1, <5>2
      <4> QED
        BY <2>1, <2>2, <4>2 DEF Contains, Injective
    <3>2. ASSUME Contains(l, v), v # t PROVE Contains(c, v)
      <4>1. PICK j \in 1..n : l[j] = v
        BY <3>2 DEF Contains
      <4>2. j # k
        BY <2>2, <3>2, <4>1
      <4>3. PICK i \in 1..(n - 1) : c[i] = l[j]
        <5>1. CASE j < k
          <6>1. j \in 1..(n - 1) /\ c[j] = l[j]
            BY <2>1, <2>2, <2>9, <4>1, <5>1
          <6> QED
            BY <6>1
        <5>2. CASE ~(j < k)
          <6>1. j - 1 \in 1..(n - 1) /\ ~(j - 1 < k) /\ j - 1 + 1 = j
            BY <2>1, <2>2, <4>1, <4>2, <5>2
          <6>2. c[j - 1] = l[j]
            BY <2>9, <6>1
          <6> QED
            BY <6>1, <6>2
        <5> QED
          BY <5>1, <5>2
      <4> QED
        BY <2>8, <4>1, <4>3 DEF Contains
    <3> QED
      BY <3>1, <3>2
  <2> QED
    BY <2>3, <2>7, <2>8, <2>10, <2>11
<1> QED
  BY <1>1, <1>2

\* Putting a new element in front of a list.
LEMMA PushFacts ==
  ASSUME NEW S, NEW l \in Seq(S), Injective(l), NEW t \in S, ~Contains(l, t)
  PROVE  /\ <<t>> \o l \in Seq(S) /\ Injective(<<t>> \o l)
         /\ \A v : Contains(<<t>> \o l, v) <=> Contains(l, v) \/ v = t
<1> DEFINE n == Len(l)
           o == <<t>>
           p == o \o l
<1>1. n \in Nat /\ DOMAIN l = 1..n
  BY LenProperties
<1>2. o \in Seq(S) /\ Len(o) = 1 /\ o[1] = t
  OBVIOUS
<1> HIDE DEF o
<1>3. p \in Seq(S) /\ Len(p) = 1 + n
      /\ \A i \in 1..(1 + n) : p[i] = IF i <= 1 THEN o[i] ELSE l[i - 1]
  <2>1. /\ o \o l \in Seq(S) /\ Len(o \o l) = Len(o) + Len(l)
        /\ \A i \in 1..(Len(o) + Len(l)) :
             (o \o l)[i] = IF i <= Len(o) THEN o[i] ELSE l[i - Len(o)]
    BY <1>2, ConcatProperties
  <2> QED
    BY <1>2, <2>1
<1>4. DOMAIN p = 1..(n + 1) /\ p[1] = t /\ \A i \in 1..n : p[i + 1] = l[i]
  <2>1. DOMAIN p = 1..(n + 1)
    BY <1>1, <1>3, LenProperties
  <2>2. p[1] = t
    BY <1>1, <1>2, <1>3
  <2>3. ASSUME NEW i \in 1..n PROVE p[i + 1] = l[i]
    <3>1. i + 1 \in 1..(1 + n) /\ ~(i + 1 <= 1) /\ i + 1 - 1 = i
      BY <1>1
    <3> QED
      BY <1>3, <3>1
  <2> QED
    BY <2>1, <2>2, <2>3
<1> HIDE DEF p
<1>5. \A i \in 2..(n + 1) : p[i] = l[i - 1] /\ i - 1 \in 1..n
  BY <1>1, <1>4
<1>6. \A i \in 1..n : l[i] # t
  BY DEF Contains
<1>7. Injective(p)
  <2> SUFFICES ASSUME NEW i \in 1..(n + 1), NEW j \in 1..(n + 1), p[i] = p[j] PROVE i = j
    BY <1>4 DEF Injective
  <2>1. CASE i = 1
    BY <1>1, <1>4, <1>5, <1>6, <2>1
  <2>2. CASE j = 1
    BY <1>1, <1>4, <1>5, <1>6, <2>2
  <2>3. CASE i # 1 /\ j # 1
    <3>1. i - 1 \in 1..n /\ j - 1 \in 1..n /\ l[i - 1] = l[j - 1]
      BY <1>1, <1>5, <2>3
    <3>2. i - 1 = j - 1
      BY <1>1, <3>1 DEF Injective
    <3> QED
      BY <1>1, <3>2
  <2> QED
    BY <2>1, <2>2, <2>3
<1>8. ASSUME NEW v PROVE Contains(p, v) <=> Contains(l, v) \/ v = t
  <2>1. ASSUME Contains(p, v) PROVE Contains(l, v) \/ v = t
    <3>1. PICK i \in 1..(n + 1) : p[i] = v
      BY <1>1, <1>3, <2>1 DEF Contains
    <3> QED
      BY <1>1, <1>4, <1>5, <3>1 DEF Contains
  <2>2. ASSUME Contains(l, v) PROVE Contains(p, v)
    <3>1. PICK i \in 1..n : l[i] = v
      BY <2>2 DEF Contains
    <3>2. i + 1 \in 1..(1 + n) /\ p[i + 1] = v
      BY <1>1, <1>4, <3>1
    <3> QED
      BY <1>3, <3>2 DEF Contains
  <2>3. ASSUME v = t PROVE Contains(p, v)
    <3>1. 1 \in 1..(1 + n) /\ p[1] = v
      BY <1>1, <1>4, <2>3
    <3> QED
      BY <1>3, <3>1 DEF Contains
  <2> QED
    BY <2>1, <2>2, <2>3
<1> QED
  BY <1>3, <1>7, <1>8 DEF o, p

-------------------------------------------------------------------------------
(* Types.                                                                   *)

\* The list as a set of sleeping threads.
LEMMA ListView ==
  ASSUME list \in Seq(Threads)
  PROVE  ListExact <=> /\ Injective(list)
                       /\ \A v \in Threads : Contains(list, v) => state[v] = "asleep"
<1>1. DOMAIN list = 1..Len(list) /\ \A i \in 1..Len(list) : list[i] \in Threads
  BY LenProperties, ElementOfSeq
<1> QED
  BY <1>1 DEF ListExact, Injective, Contains

\* A thread whose file handlers and list entry go comes back to its code.
LEMMA ReturnTypes ==
  ASSUME TypeOK, ListExact, NEW t \in Threads, NEW l \in Seq(Threads), Injective(l),
         NEW found \in SUBSET AllFiles, Return(t, l, found)
  PROVE  /\ list' \in Seq(Threads) /\ state' \in [Threads -> {"off", "starting",
              "running", "idle", "asleep", "emptied", "stopping"}]
         /\ mode' \in [Threads -> {"poll", "time", "ever"}]
         /\ ready' \in [Threads -> SUBSET AllFiles]
         /\ readyMask' \in [Threads -> SUBSET AllFiles] /\ events' \in [AllFiles -> Nat]
         /\ eventReady' \in [Threads -> BOOLEAN] /\ signalled' \in [Threads -> BOOLEAN]
         /\ pollState' \in [Threads -> {"none", "want", "done"}]
<1>1. list' \in Seq(Threads)
  BY WithoutFacts DEF Return
<1>2. events' \in [AllFiles -> Nat]
  BY DEF TypeOK, Return
<1>3. readyMask' \in [Threads -> SUBSET AllFiles]
  <2>1. watch[t] \in SUBSET AllFiles
    BY DEF TypeOK
  <2> QED
    BY <2>1 DEF TypeOK, Return
<1> QED
  BY <1>1, <1>2, <1>3 DEF TypeOK, Return

\* What a thread writes to the pipe.
LEMMA TriggerTypes ==
  ASSUME TypeOK, NEW n \in Nat, Trigger(n)
  PROVE  bytes' \in Nat /\ (n # 0 => bytes' > 0) /\ (bytes > 0 => bytes' > 0)
BY NotifierAssumption DEF TypeOK, Trigger

LEMMA TypeStep ==
  ASSUME TypeOK, ListExact, [Next]_vars
  PROVE  TypeOK'
<1>1. ASSUME NEW t \in Threads, TclInitNotifier(t) PROVE TypeOK'
  <2>1. count' \in Int
    BY <1>1 DEF TypeOK, TclInitNotifier
  <2>2. state' \in [Threads -> {"off", "starting", "running", "idle", "asleep",
                              "emptied", "stopping"}] /\ listLock' \in Threads \cup {NULL}
    <3>1. CASE open
      BY <1>1, <3>1 DEF TypeOK, TclInitNotifier
    <3>2. CASE ~open
      BY <1>1, <3>2 DEF TypeOK, TclInitNotifier
    <3> QED
      BY <3>1, <3>2
  <2>3. pc' \in {"off", "start", "masks", "select", "report", "read", "exit"}
    BY <1>1 DEF TypeOK, TclInitNotifier
  <2>4. eventReady' \in [Threads -> BOOLEAN]
    BY <1>1 DEF TypeOK, TclInitNotifier
  <2> QED
    BY <1>1, <2>1, <2>2, <2>3, <2>4 DEF TypeOK, TclInitNotifier,
       threadVars, wakeVars, lifeVars, pipeVars, selectVars
<1>2. ASSUME NEW t \in Threads, Started(t) PROVE TypeOK'
  BY <1>2 DEF TypeOK, Started,
     threadVars, wakeVars, lifeVars, pipeVars, selectVars
<1>3. ASSUME NEW t \in Threads, Empty(t) PROVE TypeOK'
  BY <1>3 DEF TypeOK, Empty,
     threadVars, wakeVars, lifeVars, pipeVars, selectVars
<1>4. ASSUME NEW t \in Threads, TclFinalizeNotifier(t) PROVE TypeOK'
  <2>1. count' \in Int
    BY <1>4 DEF TypeOK, TclFinalizeNotifier
  <2>2. CASE count # 1
    <3>1. Gone(t) /\ UNCHANGED <<listLock, pipeVars>>
      BY <1>4, <2>2 DEF TclFinalizeNotifier
    <3> QED
      BY <2>1, <3>1 DEF TypeOK, Gone,
         threadVars, wakeVars, lifeVars, pipeVars, selectVars
  <2>3. CASE count = 1
    <3>1. /\ quit' = TRUE /\ listLock' = t
          /\ state' = [state EXCEPT ![t] = "stopping"]
          /\ UNCHANGED <<mode, watch, ready, readyMask, events, inbox, alerting,
                         wakeVars, open, bytes, pc, selectVars, hot>>
      BY <1>4, <2>3 DEF TclFinalizeNotifier
    <3> QED
      BY <2>1, <3>1 DEF TypeOK,
         threadVars, wakeVars, lifeVars, pipeVars, selectVars
  <2> QED
    BY <2>2, <2>3
<1>5. ASSUME NEW t \in Threads, Joined(t) PROVE TypeOK'
  BY <1>5 DEF TypeOK, Joined, Gone,
     threadVars, wakeVars, lifeVars, pipeVars, selectVars
<1>6. ASSUME NEW t \in Threads, Receive(t) PROVE TypeOK'
  BY <1>6 DEF TypeOK, Receive,
     threadVars, wakeVars, lifeVars, pipeVars, selectVars
<1>7. ASSUME NEW t \in Threads, Tcl_ThreadAlert(t) PROVE TypeOK'
  BY <1>7 DEF TypeOK, Tcl_ThreadAlert, Alerted, Notified,
     threadVars, wakeVars, lifeVars, pipeVars, selectVars
<1>8. ASSUME NEW t \in Threads, Tcl_DoOneEvent(t) PROVE TypeOK'
  BY <1>8 DEF TypeOK, Tcl_DoOneEvent,
     threadVars, wakeVars, lifeVars, pipeVars, selectVars
<1>9. ASSUME NEW t \in Threads, Wake(t) PROVE TypeOK'
  <2>1. Injective(list) /\ list \in Seq(Threads) /\ ready[t] \in SUBSET AllFiles
    BY ListView DEF TypeOK
  <2>2. Return(t, list, ready[t])
    BY <1>9 DEF Wake
  <2>3. bytes' \in Nat
    BY <1>9, TriggerTypes DEF TypeOK, Wake
  <2> QED
    BY <1>9, <2>1, <2>2, <2>3, ReturnTypes
    DEF TypeOK, Wake, threadVars, wakeVars, lifeVars, pipeVars, selectVars
<1>10. ASSUME NEW t \in Threads, NEW f \in Files[t], Tcl_CreateFileHandler(t, f) PROVE TypeOK'
  <2>1. f \in AllFiles
    BY DEF AllFiles
  <2> QED
    BY <1>10, <2>1 DEF TypeOK, Tcl_CreateFileHandler,
       threadVars, wakeVars, lifeVars, pipeVars, selectVars
<1>11. ASSUME NEW t \in Threads, NEW f \in Files[t], Tcl_DeleteFileHandler(t, f) PROVE TypeOK'
  <2>1. f \in AllFiles
    BY DEF AllFiles
  <2> QED
    BY <1>11, <2>1 DEF TypeOK, Tcl_DeleteFileHandler, MaskGone,
       threadVars, wakeVars, lifeVars, pipeVars, selectVars
<1>12. ASSUME NEW t \in Threads, NEW f \in Files[t], FileHandlerEventProc(t, f) PROVE TypeOK'
  <2>1. f \in AllFiles
    BY DEF AllFiles
  <2> QED
    BY <1>12, <2>1 DEF TypeOK, FileHandlerEventProc,
       threadVars, wakeVars, lifeVars, pipeVars, selectVars
<1>13. ASSUME NEW t \in Threads, NEW v \in Threads, Tcl_ThreadQueueEvent(t, v) PROVE TypeOK'
  BY <1>13 DEF TypeOK, Tcl_ThreadQueueEvent,
     threadVars, wakeVars, lifeVars, pipeVars, selectVars
<1>14. ASSUME NEW t \in Threads, NEW m \in {"poll", "time", "ever"}, WaitForEvent(t, m)
       PROVE TypeOK'
  <2> DEFINE files == m = "poll" \/ watch[t] # {}
             l == IF files THEN <<t>> \o list ELSE list
  <2>1. Injective(list) /\ list \in Seq(Threads) /\ state[t] = "idle"
    BY <1>14, ListView DEF TypeOK, WaitForEvent
  <2>2. ~Contains(list, t)
    BY <2>1, ListView
  <2>3. l \in Seq(Threads) /\ Injective(l)
    BY <2>1, <2>2, PushFacts
  <2>4. bytes' \in Nat
    BY <1>14, TriggerTypes DEF TypeOK, WaitForEvent
  <2>5. UNCHANGED <<watch, inbox, alerting, lifeVars, quit, pc, selectVars, hot>>
    BY <1>14 DEF WaitForEvent
  <2>6. CASE eventReady[t]
    <3>1. Return(t, l, {})
      BY <1>14, <2>6 DEF WaitForEvent
    <3> HIDE DEF l
    <3> QED
      BY <2>3, <2>4, <2>5, <3>1, ReturnTypes DEF TypeOK, lifeVars, selectVars
  <2>7. CASE ~eventReady[t]
    <3>1. /\ state' = [state EXCEPT ![t] = "asleep"] /\ mode' = [mode EXCEPT ![t] = m]
          /\ pollState' = [pollState EXCEPT ![t] = IF m = "poll" THEN "want" ELSE "none"]
          /\ list' = l
          /\ UNCHANGED <<ready, readyMask, events, eventReady, signalled>>
      BY <1>14, <2>7 DEF WaitForEvent
    <3> HIDE DEF l
    <3> QED
      BY <2>3, <2>4, <2>5, <3>1 DEF TypeOK, lifeVars, selectVars
  <2> QED
    BY <2>6, <2>7
<1>15. ASSUME NotifierStart PROVE TypeOK'
  BY <1>15 DEF TypeOK, NotifierStart,
     threadVars, wakeVars, lifeVars, pipeVars, selectVars
<1>16. ASSUME ComputeMasks PROVE TypeOK'
  <2>1. \A v \in ToSet(list) : v \in Threads
    BY LenProperties, ElementOfSeq DEF TypeOK, ToSet
  <2>2. mask' \subseteq AllFiles
    BY <1>16, <2>1 DEF TypeOK, ComputeMasks
  <2>3. pollState' \in [Threads -> {"none", "want", "done"}] /\ polling' \in BOOLEAN
    BY <1>16 DEF TypeOK, ComputeMasks
  <2> QED
    BY <1>16, <2>2, <2>3 DEF TypeOK, ComputeMasks,
       threadVars, wakeVars, lifeVars, pipeVars, selectVars
<1>17. ASSUME Select PROVE TypeOK'
  BY <1>17 DEF TypeOK, Select,
     threadVars, wakeVars, lifeVars, pipeVars, selectVars
<1>18. ASSUME SelectFails PROVE TypeOK'
  BY <1>18 DEF TypeOK, SelectFails,
     threadVars, wakeVars, lifeVars, pipeVars, selectVars
<1>19. ASSUME ReadPipe PROVE TypeOK'
  BY <1>19 DEF TypeOK, ReadPipe,
     threadVars, wakeVars, lifeVars, pipeVars, selectVars
<1>20. ASSUME NotifierExit PROVE TypeOK'
  BY <1>20 DEF TypeOK, NotifierExit,
     threadVars, wakeVars, lifeVars, pipeVars, selectVars
<1>21. ASSUME Report PROVE TypeOK'
  <2>1. CASE UNCHANGED <<ready, wakeVars>>
    BY <1>21, <2>1 DEF TypeOK, Report,
       threadVars, wakeVars, lifeVars, pipeVars, selectVars
  <2>2. CASE ~UNCHANGED <<ready, wakeVars>>
    <3>1. PICK i \in DOMAIN list :
            LET t == list[i] IN
             /\ ready' = [ready EXCEPT ![t] = @ \cup (seen \cap watch[t])]
             /\ eventReady' = [eventReady EXCEPT ![t] = TRUE]
             /\ list' = Without(list, t)
             /\ pollState' = [pollState EXCEPT ![t] = "none"]
             /\ signalled' = [signalled EXCEPT ![t] = Notified(t)]
      BY <1>21, <2>2 DEF Report
    <3>2. list[i] \in Threads /\ Injective(list) /\ Notified(list[i]) \in BOOLEAN
      BY ListView, LenProperties, ElementOfSeq DEF TypeOK, Notified
    <3>3. list' \in Seq(Threads)
      BY <3>1, <3>2, WithoutFacts DEF TypeOK
    <3> QED
      BY <1>21, <3>1, <3>2, <3>3 DEF TypeOK, Report,
         threadVars, wakeVars, lifeVars, pipeVars, selectVars
  <2> QED
    BY <2>1, <2>2
<1>22. ASSUME NEW f \in AllFiles, Arrive(f) PROVE TypeOK'
  BY <1>22 DEF TypeOK, Arrive,
     threadVars, wakeVars, lifeVars, pipeVars, selectVars
<1>23. ASSUME UNCHANGED vars PROVE TypeOK'
  BY <1>23 DEF TypeOK, vars,
     threadVars, wakeVars, lifeVars, pipeVars, selectVars
<1> QED
  BY <1>1, <1>2, <1>3, <1>4, <1>5, <1>6, <1>7, <1>8, <1>9, <1>10, <1>11, <1>12, <1>13, <1>14, <1>15, <1>16, <1>17, <1>18, <1>19, <1>20, <1>21, <1>22, <1>23
  DEF Next, NotifierThreadProc, Woken, TimedOut


-------------------------------------------------------------------------------
(* The list.                                                                *)

\* What the two halves of ListExact say of any list and any states.
LEMMA Exact ==
  ASSUME NEW l \in Seq(Threads), NEW s
  PROVE  (/\ \A i, j \in DOMAIN l : l[i] = l[j] => i = j
          /\ \A i \in DOMAIN l : s[l[i]] = "asleep")
         <=> Injective(l) /\ \A v \in Threads : Contains(l, v) => s[v] = "asleep"
<1>1. DOMAIN l = 1..Len(l) /\ \A i \in 1..Len(l) : l[i] \in Threads
  BY LenProperties, ElementOfSeq
<1> QED
  BY <1>1 DEF Injective, Contains

\* The list holds sleeping threads, each once: a thread is put on it by its own wait
\* and taken off before it runs.
LEMMA ListStep ==
  ASSUME TypeOK, ListExact, [Next]_vars
  PROVE  ListExact'
<1> DEFINE Goal == Injective(list') /\ \A v \in Threads : Contains(list', v) => state'[v] = "asleep"
<1>a. list \in Seq(Threads) /\ list' \in Seq(Threads)
  BY TypeStep DEF TypeOK
<1>b. Injective(list) /\ \A v \in Threads : Contains(list, v) => state[v] = "asleep"
  BY <1>a, ListView
<1>c. SUFFICES Goal
  BY <1>a, Exact DEF ListExact
<1>1. ASSUME UNCHANGED <<state, list>> PROVE Goal
  BY <1>b, <1>1
<1>2. ASSUME NEW t \in Threads, NEW x, state[t] # "asleep", list' = list,
            state' = [state EXCEPT ![t] = x] PROVE Goal
  BY <1>b, <1>2 DEF TypeOK
<1>3. ASSUME NEW t \in Threads, NEW w \in Seq(Threads), Injective(w),
            \A v \in Threads \ {t} : Contains(w, v) => Contains(list, v),
            list' = Without(w, t), state' = [state EXCEPT ![t] = "running"] PROVE Goal
  <2>1. Injective(list') /\ \A v : Contains(list', v) <=> Contains(w, v) /\ v # t
    BY <1>3, WithoutFacts
  <2>2. ASSUME NEW v \in Threads, Contains(list', v) PROVE state'[v] = "asleep"
    <3>1. v # t /\ state[v] = "asleep"
      BY <1>b, <1>3, <2>1, <2>2
    <3> QED
      BY <1>3, <3>1 DEF TypeOK
  <2> QED
    BY <2>1, <2>2
<1>4. ASSUME NEW t \in Threads, TclInitNotifier(t) PROVE Goal
  <2>1. \/ state' = [state EXCEPT ![t] = "starting"]
        \/ state' = [state EXCEPT ![t] = "running"]
    BY <1>4 DEF TclInitNotifier
  <2>2. state[t] # "asleep" /\ list' = list
    BY <1>4 DEF TclInitNotifier
  <2> QED
    BY <1>2, <2>1, <2>2
<1>5. ASSUME NEW t \in Threads, Started(t) PROVE Goal
  BY <1>2, <1>5 DEF Started, wakeVars
<1>6. ASSUME NEW t \in Threads, Empty(t) PROVE Goal
  BY <1>2, <1>6 DEF Empty, Runs, wakeVars
<1>7. ASSUME NEW t \in Threads, TclFinalizeNotifier(t) PROVE Goal
  <2>1. \/ state' = [state EXCEPT ![t] = "off"]
        \/ state' = [state EXCEPT ![t] = "stopping"]
    BY <1>7 DEF TclFinalizeNotifier, Gone, wakeVars
  <2>2. state[t] # "asleep" /\ list' = list
    BY <1>7 DEF TclFinalizeNotifier, Gone, wakeVars
  <2> QED
    BY <1>2, <2>1, <2>2
<1>8. ASSUME NEW t \in Threads, Joined(t) PROVE Goal
  BY <1>2, <1>8 DEF Joined, Gone
<1>9. ASSUME NEW t \in Threads, Tcl_DoOneEvent(t) PROVE Goal
  BY <1>2, <1>9 DEF Tcl_DoOneEvent, Runs, wakeVars
<1>10. ASSUME NEW t \in Threads, Receive(t) PROVE Goal
  BY <1>1, <1>10 DEF Receive, wakeVars
<1>11. ASSUME NEW t \in Threads, Tcl_ThreadAlert(t) PROVE Goal
  BY <1>1, <1>11 DEF Tcl_ThreadAlert
<1>12. ASSUME NEW t \in Threads, NEW f \in Files[t], Tcl_CreateFileHandler(t, f) PROVE Goal
  BY <1>1, <1>12 DEF Tcl_CreateFileHandler, wakeVars
<1>13. ASSUME NEW t \in Threads, NEW f \in Files[t], Tcl_DeleteFileHandler(t, f) PROVE Goal
  BY <1>1, <1>13 DEF Tcl_DeleteFileHandler, wakeVars
<1>14. ASSUME NEW t \in Threads, NEW f \in Files[t], FileHandlerEventProc(t, f) PROVE Goal
  BY <1>1, <1>14 DEF FileHandlerEventProc, wakeVars
<1>15. ASSUME NEW t \in Threads, NEW v \in Threads, Tcl_ThreadQueueEvent(t, v) PROVE Goal
  BY <1>1, <1>15 DEF Tcl_ThreadQueueEvent, wakeVars
<1>16. ASSUME NEW t \in Threads, NEW m \in {"poll", "time", "ever"}, WaitForEvent(t, m) PROVE Goal
  <2> DEFINE w == IF m = "poll" \/ watch[t] # {} THEN <<t>> \o list ELSE list
  <2>1. state[t] = "idle" /\ ~Contains(list, t)
    BY <1>b, <1>16 DEF WaitForEvent
  <2>2. w \in Seq(Threads) /\ Injective(w)
        /\ \A v \in Threads \ {t} : Contains(w, v) => Contains(list, v)
    BY <1>a, <1>b, <2>1, PushFacts
  <2>3. CASE eventReady[t]
    <3>1. Return(t, w, {})
      BY <1>16, <2>3 DEF WaitForEvent
    <3>2. list' = Without(w, t) /\ state' = [state EXCEPT ![t] = "running"]
      BY <3>1 DEF Return
    <3> HIDE DEF w
    <3> QED
      BY <1>3, <2>2, <3>2
  <2>4. CASE ~eventReady[t]
    <3>1. list' = w /\ state' = [state EXCEPT ![t] = "asleep"]
      BY <1>16, <2>4 DEF WaitForEvent
    <3> HIDE DEF w
    <3>2. ASSUME NEW v \in Threads, Contains(list', v) PROVE state'[v] = "asleep"
      BY <1>b, <2>2, <3>1, <3>2 DEF TypeOK
    <3> QED
      BY <2>2, <3>1, <3>2
  <2> QED
    BY <2>3, <2>4
<1>17. ASSUME NEW t \in Threads, Wake(t) PROVE Goal
  <2>1. list' = Without(list, t) /\ state' = [state EXCEPT ![t] = "running"]
    BY <1>17 DEF Wake, Return
  <2> QED
    BY <1>a, <1>b, <1>3, <2>1
<1>18. ASSUME Report PROVE Goal
  <2>1. CASE UNCHANGED wakeVars
    BY <1>1, <1>18, <2>1 DEF Report, wakeVars
  <2>2. CASE ~UNCHANGED wakeVars
    <3>1. PICK i \in DOMAIN list : list' = Without(list, list[i])
      BY <1>18, <2>2 DEF Report
    <3>2. Injective(list') /\ \A v : Contains(list', v) => Contains(list, v)
      BY <1>a, <1>b, <3>1, WithoutFacts
    <3> QED
      BY <1>b, <1>18, <3>2 DEF Report
  <2> QED
    BY <2>1, <2>2
<1>19. ASSUME NotifierStart PROVE Goal
  BY <1>1, <1>19 DEF NotifierStart, threadVars, wakeVars
<1>20. ASSUME ComputeMasks PROVE Goal
  BY <1>1, <1>20 DEF ComputeMasks, threadVars, wakeVars
<1>21. ASSUME Select PROVE Goal
  BY <1>1, <1>21 DEF Select, threadVars, wakeVars
<1>22. ASSUME SelectFails PROVE Goal
  BY <1>1, <1>22 DEF SelectFails, threadVars, wakeVars
<1>23. ASSUME ReadPipe PROVE Goal
  BY <1>1, <1>23 DEF ReadPipe, threadVars, wakeVars
<1>24. ASSUME NotifierExit PROVE Goal
  BY <1>1, <1>24 DEF NotifierExit, threadVars, wakeVars
<1>25. ASSUME NEW f \in AllFiles, Arrive(f) PROVE Goal
  BY <1>1, <1>25 DEF Arrive, threadVars, wakeVars
<1>26. ASSUME UNCHANGED vars PROVE Goal
  BY <1>1, <1>26 DEF vars, threadVars, wakeVars
<1> QED
  BY <1>4, <1>5, <1>6, <1>7, <1>8, <1>9, <1>10, <1>11, <1>12, <1>13, <1>14, <1>15, <1>16, <1>17, <1>18, <1>19, <1>20, <1>21, <1>22, <1>23, <1>24, <1>25, <1>26
  DEF Next, NotifierThreadProc, Woken, TimedOut

-------------------------------------------------------------------------------
(* File events.                                                             *)

\* A readyMask that is not zero stands for an event in the queue: the handler, its
\* mask and the event come and go, but never the event before the mask.
LEMMA FilesStep ==
  ASSUME TypeOK, Masks, EventThere, [Next]_vars
  PROVE  Masks' /\ EventThere'
<1> DEFINE Goal == Masks' /\ EventThere'
<1>a. \A s, t \in Threads : s # t => Files[s] \cap Files[t] = {}
  BY NotifierAssumption
<1>b. \A t \in Threads : Files[t] \subseteq AllFiles
  BY DEF AllFiles
<1>1. ASSUME UNCHANGED <<state, watch, readyMask, events>> PROVE Goal
  BY <1>1 DEF Masks, EventThere, InLoop
<1>2. ASSUME NEW t \in Threads, NEW x,
            state' = [state EXCEPT ![t] = x], UNCHANGED <<watch, readyMask, events>>,
            x \in {"off", "starting"} => state[t] \in {"off", "starting"}, 
            InLoop(t) \/ x \notin {"running", "idle", "asleep"}
            \/ state[t] \in {"off", "starting"} PROVE Goal
  <2>1. Masks'
    BY <1>2 DEF Masks, TypeOK
  <2>2. \A v \in Threads : readyMask[v] \subseteq watch[v]
    BY DEF Masks
  <2>3. ASSUME NEW v \in Threads, InLoop(v)', NEW f \in readyMask'[v] PROVE events'[f] > 0
    <3>1. CASE v = t /\ state[t] \in {"off", "starting"}
      BY <1>2, <2>3, <3>1 DEF Masks
    <3>2. CASE InLoop(v)
      BY <1>2, <2>3, <3>2 DEF EventThere
    <3> QED
      BY <1>2, <2>3, <3>1, <3>2 DEF InLoop, TypeOK
  <2> QED
    BY <2>1, <2>3 DEF EventThere
<1>3. ASSUME NEW t \in Threads, Gone(t) PROVE Goal
  <2>1. Masks'
    BY <1>3 DEF Masks, Gone, TypeOK
  <2>2. ASSUME NEW v \in Threads, InLoop(v)', NEW f \in readyMask'[v] PROVE events'[f] > 0
    <3>1. v # t /\ InLoop(v) /\ f \in readyMask[v]
      BY <1>3, <2>2 DEF Gone, InLoop, TypeOK
    <3> QED
      BY <1>3, <3>1 DEF EventThere, Gone
  <2> QED
    BY <2>1, <2>2 DEF EventThere
<1>4. ASSUME NEW t \in Threads, NEW w, NEW found \in SUBSET AllFiles, InLoop(t),
            Return(t, w, found), UNCHANGED watch PROVE Goal
  <2>0. watch[t] \in SUBSET AllFiles /\ readyMask[t] \in SUBSET AllFiles
    BY DEF TypeOK
  <2>1. /\ readyMask' = [readyMask EXCEPT ![t] = readyMask[t] \cup (found \cap watch[t])]
        /\ state' = [state EXCEPT ![t] = "running"]
        /\ events' = [f \in AllFiles |->
                        IF f \in (found \cap watch[t]) \ readyMask[t]
                        THEN events[f] + 1 ELSE events[f]]
    BY <1>4 DEF Return
  <2>2. Masks'
    BY <1>4, <2>1 DEF Masks, TypeOK
  <2>3. ASSUME NEW v \in Threads, InLoop(v)', NEW f \in readyMask'[v] PROVE events'[f] > 0
    <3>1. f \in AllFiles /\ InLoop(v)
      BY <1>b, <1>4, <2>0, <2>1, <2>3 DEF InLoop, TypeOK
    <3>2. CASE f \in readyMask[v]
      <4>1. events[f] > 0 /\ events[f] \in Nat
        BY <3>1, <3>2 DEF EventThere, TypeOK
      <4> QED
        BY <2>1, <3>1, <4>1
    <3>3. CASE f \notin readyMask[v]
      <4>1. v = t /\ f \in (found \cap watch[t]) \ readyMask[t]
        BY <2>1, <2>3, <3>3 DEF TypeOK
      <4>2. events'[f] = events[f] + 1 /\ events[f] \in Nat
        BY <2>1, <3>1, <4>1 DEF TypeOK
      <4> QED
        BY <4>2
    <3> QED
      BY <3>2, <3>3
  <2> QED
    BY <2>2, <2>3 DEF EventThere
<1>5. ASSUME NEW t \in Threads, TclInitNotifier(t) PROVE Goal
  <2>1. CASE open
    BY <1>2, <1>5, <2>1 DEF TclInitNotifier
  <2>2. CASE ~open
    BY <1>2, <1>5, <2>2 DEF TclInitNotifier
  <2> QED
    BY <2>1, <2>2
<1>6. ASSUME NEW t \in Threads, Started(t) PROVE Goal
  BY <1>2, <1>6 DEF Started
<1>7. ASSUME NEW t \in Threads, Empty(t) PROVE Goal
  <2>1. Masks'
    BY <1>7 DEF Masks, Empty, Runs, TypeOK
  <2>2. ASSUME NEW v \in Threads, InLoop(v)', NEW f \in readyMask'[v] PROVE events'[f] > 0
    <3>1. v # t /\ InLoop(v) /\ f \in readyMask[v]
      BY <1>7, <2>2 DEF Empty, InLoop, TypeOK
    <3>2. f \in Files[v] /\ f \in AllFiles /\ f \notin Files[t]
      BY <1>a, <1>b, <3>1 DEF Masks
    <3>3. events'[f] = events[f]
      BY <1>7, <3>2 DEF Empty
    <3> QED
      BY <3>1, <3>3 DEF EventThere
  <2> QED
    BY <2>1, <2>2 DEF EventThere
<1>8. ASSUME NEW t \in Threads, TclFinalizeNotifier(t) PROVE Goal
  <2>1. CASE count # 1
    BY <1>3, <1>8, <2>1 DEF TclFinalizeNotifier
  <2>2. CASE count = 1
    BY <1>2, <1>8, <2>2 DEF TclFinalizeNotifier
  <2> QED
    BY <2>1, <2>2 DEF TypeOK
<1>9. ASSUME NEW t \in Threads, Joined(t) PROVE Goal
  BY <1>3, <1>9 DEF Joined
<1>10. ASSUME NEW t \in Threads, Tcl_DoOneEvent(t) PROVE Goal
  BY <1>2, <1>10 DEF Tcl_DoOneEvent, Runs, InLoop
<1>11. ASSUME NEW t \in Threads, NEW f \in Files[t], Tcl_CreateFileHandler(t, f) PROVE Goal
  <2>1. Masks'
    BY <1>11 DEF Masks, Tcl_CreateFileHandler, Runs, TypeOK
  <2> QED
    BY <1>11, <2>1 DEF EventThere, InLoop, Tcl_CreateFileHandler
<1>12. ASSUME NEW t \in Threads, NEW f \in Files[t], Tcl_DeleteFileHandler(t, f) PROVE Goal
  <2>1. Masks'
    BY <1>12 DEF Masks, Tcl_DeleteFileHandler, MaskGone, TypeOK
  <2>2. \A v \in Threads : readyMask'[v] \subseteq readyMask[v]
    BY <1>12 DEF Tcl_DeleteFileHandler, MaskGone, TypeOK
  <2> QED
    BY <1>12, <2>1, <2>2 DEF EventThere, InLoop, Tcl_DeleteFileHandler
<1>13. ASSUME NEW t \in Threads, NEW f \in Files[t], FileHandlerEventProc(t, f) PROVE Goal
  <2>1. f \in AllFiles /\ events' = [events EXCEPT ![f] = events[f] - 1] /\ state' = state /\ watch' = watch
    BY <1>b, <1>13 DEF FileHandlerEventProc
  <2>2. \A v \in Threads : readyMask'[v] \subseteq readyMask[v] \ {f}
    <3>1. \A v \in Threads \ {t} : f \notin readyMask[v]
      BY <1>a DEF Masks
    <3>2. CASE f \in watch[t]
      BY <1>13, <3>1, <3>2 DEF FileHandlerEventProc, TypeOK
    <3>3. CASE f \notin watch[t]
      BY <1>13, <3>1, <3>3 DEF FileHandlerEventProc, Masks, TypeOK
    <3> QED
      BY <3>2, <3>3
  <2>3. Masks'
    BY <2>1, <2>2 DEF Masks
  <2>4. ASSUME NEW v \in Threads, InLoop(v)', NEW g \in readyMask'[v] PROVE events'[g] > 0
    <3>1. g \in readyMask[v] /\ g # f /\ InLoop(v) /\ g \in AllFiles
      BY <2>1, <2>2, <2>4 DEF InLoop, TypeOK
    <3>2. events'[g] = events[g]
      BY <2>1, <3>1 DEF TypeOK
    <3> QED
      BY <3>1, <3>2 DEF EventThere
  <2> QED
    BY <2>3, <2>4 DEF EventThere
<1>14. ASSUME NEW t \in Threads, NEW m \in {"poll", "time", "ever"}, WaitForEvent(t, m) PROVE Goal
  <2>1. CASE eventReady[t]
    <3>1. PICK w : Return(t, w, {})
      BY <1>14, <2>1 DEF WaitForEvent
    <3>2. InLoop(t) /\ UNCHANGED watch
      BY <1>14 DEF WaitForEvent, InLoop
    <3> QED
      BY <1>4, <3>1, <3>2
  <2>2. CASE ~eventReady[t]
    BY <1>2, <1>14, <2>2 DEF WaitForEvent, InLoop
  <2> QED
    BY <2>1, <2>2
<1>15. ASSUME NEW t \in Threads, Wake(t) PROVE Goal
  <2>1. InLoop(t) /\ UNCHANGED watch /\ Return(t, list, ready[t]) /\ ready[t] \in SUBSET AllFiles
    BY <1>15 DEF Wake, InLoop, TypeOK
  <2> QED
    BY <1>4, <2>1
<1>16. ASSUME NEW t \in Threads, Receive(t) PROVE Goal
  BY <1>1, <1>16 DEF Receive, threadVars
<1>17. ASSUME NEW t \in Threads, Tcl_ThreadAlert(t) PROVE Goal
  BY <1>1, <1>17 DEF Tcl_ThreadAlert, threadVars
<1>18. ASSUME NEW t \in Threads, NEW v \in Threads, Tcl_ThreadQueueEvent(t, v) PROVE Goal
  BY <1>1, <1>18 DEF Tcl_ThreadQueueEvent, threadVars
<1>19. ASSUME Report PROVE Goal
  BY <1>1, <1>19 DEF Report, threadVars
<1>20. ASSUME NotifierStart PROVE Goal
  BY <1>1, <1>20 DEF NotifierStart, threadVars
<1>21. ASSUME ComputeMasks PROVE Goal
  BY <1>1, <1>21 DEF ComputeMasks, threadVars
<1>22. ASSUME Select PROVE Goal
  BY <1>1, <1>22 DEF Select, threadVars
<1>23. ASSUME SelectFails PROVE Goal
  BY <1>1, <1>23 DEF SelectFails, threadVars
<1>24. ASSUME ReadPipe PROVE Goal
  BY <1>1, <1>24 DEF ReadPipe, threadVars
<1>25. ASSUME NotifierExit PROVE Goal
  BY <1>1, <1>25 DEF NotifierExit, threadVars
<1>26. ASSUME NEW f \in AllFiles, Arrive(f) PROVE Goal
  BY <1>1, <1>26 DEF Arrive, threadVars
<1>27. ASSUME UNCHANGED vars PROVE Goal
  BY <1>1, <1>27 DEF vars, threadVars
<1> QED
  BY <1>5, <1>6, <1>7, <1>8, <1>9, <1>10, <1>11, <1>12, <1>13, <1>14, <1>15, <1>16, <1>17, <1>18, <1>19, <1>20, <1>21, <1>22, <1>23, <1>24, <1>25, <1>26, <1>27
  DEF Next, NotifierThreadProc, Woken, TimedOut

-------------------------------------------------------------------------------
(* Wakeups.                                                                 *)

\* An event that is queued while its thread is about to wait, or waits, is announced
\* by the one who queued it, and an announcement reaches a sleeper.
LEMMA WakeupStep ==
  ASSUME TypeOK, ListExact, Told, NoLostWakeup, [Next]_vars
  PROVE  Told' /\ NoLostWakeup'
<1> DEFINE Goal == Told' /\ NoLostWakeup'
<1>a. list \in Seq(Threads) /\ Injective(list)
      /\ \A v \in Threads : Contains(list, v) => state[v] = "asleep"
  BY ListView DEF TypeOK
<1>1. ASSUME UNCHANGED <<state, inbox, eventReady, alerting, signalled, mode, watch, list>> PROVE Goal
  BY <1>1 DEF Told, NoLostWakeup
<1>2. ASSUME NEW t \in Threads, alerting' = alerting,
            state'[t] \notin {"idle", "asleep"},
            \A v \in Threads \ {t} : /\ state'[v] = state[v] /\ inbox'[v] = inbox[v]
                                     /\ eventReady'[v] = eventReady[v]
                                     /\ signalled'[v] = signalled[v]
                                     /\ mode'[v] = mode[v] /\ watch'[v] = watch[v]
                                     /\ Contains(list', v) <=> Contains(list, v) PROVE Goal
  <2>1. Told'
    BY <1>2 DEF Told
  <2>2. NoLostWakeup'
    BY <1>2 DEF NoLostWakeup
  <2> QED
    BY <2>1, <2>2
<1>3. ASSUME NEW t \in Threads, TclInitNotifier(t) PROVE Goal
  <2>1. CASE open
    BY <1>2, <1>3, <2>1 DEF TypeOK, TclInitNotifier
  <2>2. CASE ~(open)
    BY <1>2, <1>3, <2>2 DEF TypeOK, TclInitNotifier
  <2> QED
    BY <2>1, <2>2
<1>4. ASSUME NEW t \in Threads, TclFinalizeNotifier(t) PROVE Goal
  <2>1. CASE count # 1
    BY <1>2, <1>4, <2>1, SMTT(40) DEF TypeOK, TclFinalizeNotifier, Gone, wakeVars
  <2>2. CASE ~(count # 1)
    BY <1>2, <1>4, <2>2 DEF TypeOK, TclFinalizeNotifier, Gone, wakeVars
  <2> QED
    BY <2>1, <2>2
<1>5. ASSUME NEW t \in Threads, Started(t) PROVE Goal
  BY <1>2, <1>5 DEF TypeOK, Started, wakeVars
<1>6. ASSUME NEW t \in Threads, Empty(t) PROVE Goal
  BY <1>2, <1>6 DEF TypeOK, Empty, wakeVars
<1>7. ASSUME NEW t \in Threads, Joined(t) PROVE Goal
  BY <1>2, <1>7 DEF TypeOK, Joined, Gone
<1>8. ASSUME NEW t \in Threads, Receive(t) PROVE Goal
  BY <1>2, <1>8 DEF TypeOK, Receive, Runs, wakeVars
<1>9. ASSUME NEW t \in Threads, NEW f \in Files[t], Tcl_CreateFileHandler(t, f) PROVE Goal
  BY <1>2, <1>9 DEF TypeOK, Tcl_CreateFileHandler, Runs, wakeVars
<1>10. ASSUME NEW t \in Threads, NEW f \in Files[t], Tcl_DeleteFileHandler(t, f) PROVE Goal
  BY <1>2, <1>10 DEF TypeOK, Tcl_DeleteFileHandler, Runs, wakeVars
<1>11. ASSUME NEW t \in Threads, NEW f \in Files[t], FileHandlerEventProc(t, f) PROVE Goal
  BY <1>1, <1>11 DEF FileHandlerEventProc, wakeVars
<1>12. ASSUME NEW t \in Threads, Tcl_DoOneEvent(t) PROVE Goal
  <2>1. Told'
    BY <1>12 DEF Told, Tcl_DoOneEvent, TypeOK, wakeVars
  <2>2. NoLostWakeup'
    BY <1>12 DEF NoLostWakeup, Tcl_DoOneEvent, TypeOK, wakeVars
  <2> QED
    BY <2>1, <2>2
<1>13. ASSUME NEW t \in Threads, NEW v \in Threads, Tcl_ThreadQueueEvent(t, v) PROVE Goal
  <2>1. /\ inbox' = [inbox EXCEPT ![v] = TRUE] /\ alerting' = [alerting EXCEPT ![t] = v]
        /\ alerting[t] = NULL
        /\ UNCHANGED <<state, mode, watch, eventReady, signalled, list>>
    BY <1>13 DEF Tcl_ThreadQueueEvent, Runs, wakeVars
  <2>2. ASSUME NEW w \in Threads, inbox'[w], ~(inbox[w] /\ eventReady[w]),
               state[w] \in {"idle", "asleep"}, Told
        PROVE  eventReady'[w] \/ \E s \in Threads : alerting'[s] = w
    <3>1. CASE w = v
      BY <2>1, <3>1 DEF TypeOK
    <3>2. CASE w # v
      <4>1. inbox[w] /\ ~eventReady[w]
        BY <2>1, <2>2, <3>2 DEF TypeOK
      <4>2. PICK s \in Threads : alerting[s] = w
        BY <2>2, <4>1 DEF Told
      <4>3. s # t /\ alerting'[s] = w
        BY <2>1, <4>2, NotifierAssumption DEF TypeOK
      <4> QED
        BY <4>3
    <3> QED
      BY <3>1, <3>2
  <2>3. Told'
    BY <2>1, <2>2 DEF Told
  <2>4. NoLostWakeup'
    BY <2>1, <2>3 DEF NoLostWakeup, Told
  <2> QED
    BY <2>3, <2>4
<1>14. ASSUME NEW t \in Threads, Tcl_ThreadAlert(t) PROVE Goal
  <2> DEFINE a == alerting[t]
  <2>1. /\ a \in Threads /\ alerting' = [alerting EXCEPT ![t] = NULL]
        /\ UNCHANGED <<state, mode, watch, inbox, list>>
    BY <1>14 DEF Tcl_ThreadAlert, TypeOK
  <2>2. /\ \A w \in Threads \ {a} : eventReady'[w] = eventReady[w] /\ signalled'[w] = signalled[w]
        /\ state[a] \in {"idle", "asleep"} => eventReady'[a]
        /\ state[a] = "asleep" => signalled'[a]
    <3>1. CASE Listed(a)
      <4>1. eventReady' = [eventReady EXCEPT ![a] = TRUE]
        BY <1>14, <3>1 DEF Tcl_ThreadAlert, Alerted
      <4>2. signalled' = [signalled EXCEPT ![a] = Notified(a)]
        BY <1>14, <3>1 DEF Tcl_ThreadAlert
      <4> QED
        BY <2>1, <4>1, <4>2 DEF TypeOK, Notified
    <3>2. CASE ~Listed(a)
      BY <1>14, <3>2 DEF Tcl_ThreadAlert, Listed
    <3> QED
      BY <3>1, <3>2
  <2>3. \A s, w \in Threads : alerting[s] = w /\ w # a => alerting'[s] = w
    BY <2>1 DEF TypeOK
  <2> HIDE DEF a
  <2>4. Told'
    <3> SUFFICES ASSUME NEW w \in Threads, state[w] \in {"idle", "asleep"}, inbox[w]
                 PROVE  eventReady'[w] \/ \E s \in Threads : alerting'[s] = w
      BY <2>1 DEF Told
    <3>1. CASE w = a
      BY <2>2, <3>1
    <3>2. CASE w # a
      BY <2>2, <2>3, <3>2 DEF Told
    <3> QED
      BY <3>1, <3>2
  <2>5. NoLostWakeup'
    <3> SUFFICES ASSUME NEW w \in Threads, state[w] = "asleep"
                 PROVE  /\ eventReady'[w] => signalled'[w]
                        /\ (mode[w] = "poll" \/ watch[w] # {}) /\ ~Contains(list, w) => signalled'[w]
      BY <2>1, <2>4 DEF NoLostWakeup, Told
    <3>1. CASE w = a
      BY <2>2, <3>1
    <3>2. CASE w # a
      BY <2>2, <3>2 DEF NoLostWakeup
    <3> QED
      BY <3>1, <3>2
  <2> QED
    BY <2>4, <2>5
<1>15. ASSUME NEW t \in Threads, NEW w \in Seq(Threads), Injective(w), NEW found,
            \A v \in Threads \ {t} : Contains(w, v) <=> Contains(list, v),
            Return(t, w, found), UNCHANGED <<inbox, alerting, watch>> PROVE Goal
  <2>1. \A v \in Threads \ {t} : Contains(list', v) <=> Contains(list, v)
    BY <1>15, WithoutFacts DEF Return
  <2>2. state'[t] = "running"
    BY <1>15 DEF Return, TypeOK
  <2>3. \A v \in Threads \ {t} : /\ state'[v] = state[v] /\ inbox'[v] = inbox[v]
                                 /\ eventReady'[v] = eventReady[v]
                                 /\ signalled'[v] = signalled[v]
                                 /\ mode'[v] = mode[v] /\ watch'[v] = watch[v]
    BY <1>15 DEF Return, TypeOK
  <2> QED
    BY <1>2, <1>15, <2>1, <2>2, <2>3
<1>16. ASSUME NEW t \in Threads, NEW m \in {"poll", "time", "ever"}, WaitForEvent(t, m) PROVE Goal
  <2> DEFINE w == IF m = "poll" \/ watch[t] # {} THEN <<t>> \o list ELSE list
  <2>1. state[t] = "idle" /\ ~Contains(list, t) /\ UNCHANGED <<inbox, alerting, watch>>
    BY <1>a, <1>16 DEF WaitForEvent
  <2>2. w \in Seq(Threads) /\ Injective(w)
        /\ \A v \in Threads \ {t} : Contains(w, v) <=> Contains(list, v)
    BY <1>a, <2>1, PushFacts
  <2>3. m = "poll" \/ watch[t] # {} => Contains(w, t)
    BY <1>a, <2>1, PushFacts
  <2>4. CASE eventReady[t]
    <3>1. Return(t, w, {})
      BY <1>16, <2>4 DEF WaitForEvent
    <3> HIDE DEF w
    <3> QED
      BY <1>15, <2>1, <2>2, <3>1
  <2>5. CASE ~eventReady[t]
    <3>1. /\ state' = [state EXCEPT ![t] = "asleep"] /\ mode' = [mode EXCEPT ![t] = m]
          /\ list' = w /\ UNCHANGED <<eventReady, signalled>>
      BY <1>16, <2>5 DEF WaitForEvent
    <3> HIDE DEF w
    <3>2. Told'
      BY <2>1, <3>1 DEF Told, TypeOK
    <3>3. NoLostWakeup'
      <4> SUFFICES ASSUME NEW v \in Threads, state'[v] = "asleep"
                   PROVE  /\ eventReady[v] => signalled[v]
                          /\ (mode'[v] = "poll" \/ watch[v] # {}) /\ ~Contains(w, v) => signalled[v]
        BY <2>1, <3>1, <3>2 DEF NoLostWakeup, Told
      <4>1. CASE v = t
        BY <2>3, <2>5, <3>1, <4>1 DEF TypeOK
      <4>2. CASE v # t
        BY <2>2, <3>1, <4>2 DEF TypeOK, NoLostWakeup
      <4> QED
        BY <4>1, <4>2
    <3> QED
      BY <3>2, <3>3
  <2> QED
    BY <2>4, <2>5
<1>17. ASSUME NEW t \in Threads, Wake(t) PROVE Goal
  <2>1. Return(t, list, ready[t]) /\ UNCHANGED <<inbox, alerting, watch>>
    BY <1>17 DEF Wake
  <2> QED
    BY <1>a, <1>15, <2>1
<1>18. ASSUME Report PROVE Goal
  <2>1. UNCHANGED <<state, inbox, alerting, mode, watch>>
    BY <1>18 DEF Report
  <2>2. CASE UNCHANGED wakeVars
    BY <1>1, <2>1, <2>2 DEF wakeVars
  <2>3. CASE ~UNCHANGED wakeVars
    <3>1. PICK i \in DOMAIN list :
            LET t == list[i] IN
             /\ eventReady' = [eventReady EXCEPT ![t] = TRUE]
             /\ list' = Without(list, t)
             /\ signalled' = [signalled EXCEPT ![t] = Notified(t)]
      BY <1>18, <2>3 DEF Report
    <3> DEFINE t == list[i]
    <3>2. t \in Threads /\ Notified(t)
      BY LenProperties, ElementOfSeq DEF ListExact, Notified, TypeOK
    <3>3. /\ eventReady' = [eventReady EXCEPT ![t] = TRUE] /\ signalled' = [signalled EXCEPT ![t] = TRUE]
      BY <3>1, <3>2
    <3>4. \A v \in Threads \ {t} : Contains(list', v) <=> Contains(list, v)
      BY <1>a, <3>1, WithoutFacts
    <3>5. eventReady'[t] /\ signalled'[t]
      BY <3>2, <3>3 DEF TypeOK
    <3>6. \A v \in Threads \ {t} : eventReady'[v] = eventReady[v] /\ signalled'[v] = signalled[v]
      BY <3>2, <3>3 DEF TypeOK
    <3> HIDE DEF t
    <3>7. Told'
      BY <2>1, <3>5, <3>6 DEF Told
    <3>8. NoLostWakeup'
      BY <2>1, <3>4, <3>5, <3>6 DEF NoLostWakeup
    <3> QED
      BY <3>7, <3>8
  <2> QED
    BY <2>2, <2>3
<1>19. ASSUME NotifierStart PROVE Goal
  BY <1>1, <1>19 DEF NotifierStart, threadVars, wakeVars
<1>20. ASSUME ComputeMasks PROVE Goal
  BY <1>1, <1>20 DEF ComputeMasks, threadVars, wakeVars
<1>21. ASSUME Select PROVE Goal
  BY <1>1, <1>21 DEF Select, threadVars, wakeVars
<1>22. ASSUME SelectFails PROVE Goal
  BY <1>1, <1>22 DEF SelectFails, threadVars, wakeVars
<1>23. ASSUME ReadPipe PROVE Goal
  BY <1>1, <1>23 DEF ReadPipe, threadVars, wakeVars
<1>24. ASSUME NotifierExit PROVE Goal
  BY <1>1, <1>24 DEF NotifierExit, threadVars, wakeVars
<1>25. ASSUME NEW f \in AllFiles, Arrive(f) PROVE Goal
  BY <1>1, <1>25 DEF Arrive, threadVars, wakeVars
<1>26. ASSUME UNCHANGED vars PROVE Goal
  BY <1>1, <1>26 DEF vars, threadVars, wakeVars
<1> QED
  BY <1>3, <1>4, <1>5, <1>6, <1>7, <1>8, <1>9, <1>10, <1>11, <1>12, <1>13, <1>14, <1>15, <1>16, <1>17, <1>18, <1>19, <1>20, <1>21, <1>22, <1>23, <1>24, <1>25, <1>26
  DEF Next, NotifierThreadProc, Woken, TimedOut

-------------------------------------------------------------------------------
(* The notifier thread.                                                     *)

\* notifierCount is zero when nobody is counted.
LEMMA CountFacts ==
  ASSUME Counted
  PROVE  (count = 0 <=> Users = {}) /\ count \in Nat
BY FS_EmptySet, FS_CardinalityType DEF Counted

\* It is there while a thread needs it, one at a time starts or stops it, and what it
\* reads from the pipe has been written.
LEMMA LifeStep ==
  ASSUME TypeOK, Counted, Locks, Phase, Sent, [Next]_vars
  PROVE  Counted' /\ Locks' /\ Phase' /\ Sent'
<1> DEFINE Goal == Counted' /\ Locks' /\ Phase' /\ Sent'
           Live == {"running", "idle", "asleep", "emptied"}
<1>a. NULL \notin Threads
  BY NotifierAssumption
<1>b. count = 0 <=> Users = {}
  BY CountFacts
<1>1. ASSUME UNCHANGED <<state, listLock, count, open, pc, bytes, quit, piped>> PROVE Goal
  <2>1. Users' = Users
    BY <1>1 DEF Users
  <2> QED
    BY <1>1, <2>1 DEF Counted, Locks, Sent, Phase, Absent, Ending, Beginning, Serving, Stopping
<1>2. ASSUME NEW t \in Threads, NEW x \in Live, state[t] \in Live,
            state' = [state EXCEPT ![t] = x], bytes > 0 => bytes' > 0,
            UNCHANGED <<listLock, count, open, pc, quit, piped>> PROVE Goal
  <2>1. Users' = Users
    BY <1>2 DEF Users, TypeOK
  <2>2. Counted' /\ Locks'
    BY <1>2, <2>1 DEF Counted, Locks, TypeOK
  <2>3. Sent'
    BY <1>2 DEF Sent
  <2>4. Serving /\ Serving'
    <3>1. Serving
      BY <1>2 DEF Users, TypeOK, Phase, Absent, Ending, Beginning, Serving, Stopping
    <3> QED
      BY <1>2, <2>1, <3>1 DEF Serving, Stopping, TypeOK
  <2> QED
    BY <2>2, <2>3, <2>4 DEF Phase
<1>3. ASSUME NEW t \in Threads, TclInitNotifier(t) PROVE Goal
  <2>1. state[t] = "off" /\ listLock = NULL /\ count' = count + 1
        /\ UNCHANGED <<open, bytes, quit, piped>>
    BY <1>3 DEF TclInitNotifier, Unlocked, pipeVars, selectVars
  <2>2. \A v \in Threads : state[v] \notin {"starting", "stopping"}
    BY <1>a, <2>1 DEF Locks
  <2>3. \E x \in {"running", "starting"} : state' = [state EXCEPT ![t] = x]
    BY <1>3 DEF TclInitNotifier
  <2>4. Users' = Users \cup {t} /\ t \notin Users
    BY <2>1, <2>3 DEF Users, TypeOK
  <2>5. Counted'
    BY <2>1, <2>4, FS_AddElement DEF Counted
  <2>6. CASE open
    <3>1. state' = [state EXCEPT ![t] = "running"] /\ listLock' = listLock
      BY <1>3, <2>6 DEF TclInitNotifier
    <3>2. Serving
      BY <2>2, <2>6 DEF Phase, Absent, Ending, Beginning, Serving, Stopping
    <3>3. pc' = pc
      BY <1>b, <1>3, <3>2 DEF TclInitNotifier, Serving
    <3>4. Locks' /\ Sent'
      BY <2>1, <2>2, <3>1, <3>3 DEF Locks, Sent, TypeOK
    <3>5. Serving'
      BY <2>1, <2>4, <3>1, <3>2, <3>3 DEF Serving, Stopping, TypeOK
    <3> QED
      BY <2>5, <3>4, <3>5 DEF Phase
  <2>7. CASE ~open
    <3>1. state' = [state EXCEPT ![t] = "starting"] /\ listLock' = t
      BY <1>3, <2>7 DEF TclInitNotifier
    <3>2. Absent
      BY <2>2, <2>7 DEF Users, Phase, Absent, Ending, Beginning, Serving, Stopping
    <3>3. pc' = "start"
      BY <1>b, <1>3, <3>2 DEF TclInitNotifier, Absent
    <3>4. Locks' /\ Sent'
      BY <2>1, <2>2, <3>1, <3>3 DEF Locks, Sent, TypeOK
    <3>5. Beginning'
      <4>1. Users' = {t} /\ state'[t] = "starting"
        BY <2>4, <3>1, <3>2 DEF Absent, TypeOK
      <4>2. ~Stopping'
        BY <2>2, <3>1 DEF Stopping, TypeOK
      <4> QED
        BY <2>1, <2>7, <3>3, <4>1, <4>2 DEF Beginning
    <3> QED
      BY <2>5, <3>4, <3>5 DEF Phase
  <2> QED
    BY <2>6, <2>7
<1>4. ASSUME NEW t \in Threads, Started(t) PROVE Goal
  <2>1. /\ state[t] = "starting" /\ open /\ state' = [state EXCEPT ![t] = "running"]
        /\ listLock' = NULL /\ UNCHANGED <<count, open, pc, bytes, quit, piped>>
    BY <1>4 DEF Started, pipeVars, selectVars
  <2>2. Users' = Users /\ t \in Users
    BY <2>1 DEF Users, TypeOK
  <2>3. Counted' /\ Sent'
    BY <2>1, <2>2 DEF Counted, Sent
  <2>4. Locks'
    BY <1>a, <2>1 DEF Locks, TypeOK
  <2>5. Serving
    BY <2>1, <2>2 DEF Phase, Absent, Ending, Beginning, Serving, Stopping
  <2>6. Serving'
    BY <2>1, <2>2, <2>5 DEF Serving, Stopping, TypeOK
  <2> QED
    BY <2>3, <2>4, <2>6 DEF Phase
<1>5. ASSUME NEW t \in Threads, Empty(t) PROVE Goal
  BY <1>2, <1>5 DEF Empty, Runs, lifeVars, pipeVars, selectVars
<1>6. ASSUME NEW t \in Threads, Tcl_DoOneEvent(t) PROVE Goal
  BY <1>2, <1>6 DEF Tcl_DoOneEvent, Runs, lifeVars, pipeVars, selectVars
<1>7. ASSUME NEW t \in Threads, TclFinalizeNotifier(t) PROVE Goal
  <2>1. state[t] = "emptied" /\ listLock = NULL /\ count' = count - 1
        /\ UNCHANGED <<open, pc, piped, bytes>>
    BY <1>7 DEF TclFinalizeNotifier, Gone, Unlocked, selectVars, pipeVars
  <2>2. \A v \in Threads : state[v] \notin {"starting", "stopping"}
    BY <1>a, <2>1 DEF Locks
  <2>3. \E x \in {"off", "stopping"} : state' = [state EXCEPT ![t] = x]
    BY <1>7 DEF TclFinalizeNotifier, Gone
  <2>4. Users' = Users \ {t} /\ t \in Users
    BY <2>1, <2>3 DEF Users, TypeOK
  <2>5. Counted'
    BY <2>1, <2>4, FS_RemoveElement DEF Counted
  <2>6. Serving
    BY <2>1, <2>4 DEF Phase, Absent, Ending, Beginning, Serving, Stopping
  <2>7. count' = 0 <=> Users' = {}
    BY <2>5, FS_EmptySet DEF Counted
  <2>8. CASE count # 1
    <3>1. state' = [state EXCEPT ![t] = "off"] /\ UNCHANGED <<listLock, quit>>
      BY <1>7, <2>8 DEF TclFinalizeNotifier, Gone, pipeVars
    <3>2. Locks' /\ Sent'
      BY <2>1, <2>2, <3>1 DEF Locks, Sent, TypeOK
    <3>3. Users' # {}
      BY <2>1, <2>7, <2>8 DEF TypeOK
    <3>4. Serving'
      BY <2>1, <2>6, <3>1, <3>3 DEF Serving, Stopping, TypeOK
    <3> QED
      BY <2>5, <3>2, <3>4 DEF Phase
  <2>9. CASE count = 1
    <3>1. state' = [state EXCEPT ![t] = "stopping"] /\ listLock' = t /\ quit'
      BY <1>7, <2>9 DEF TclFinalizeNotifier
    <3>2. Locks'
      BY <2>1, <2>2, <3>1 DEF Locks, TypeOK
    <3>3. Sent'
      BY <3>1 DEF Sent
    <3>4. Users' = {}
      BY <2>1, <2>7, <2>9
    <3>5. Stopping'
      BY <3>1 DEF Stopping, TypeOK
    <3>6. Ending'
      BY <2>1, <2>6, <3>1, <3>4, <3>5 DEF Ending, Serving
    <3> QED
      BY <2>5, <3>2, <3>3, <3>6 DEF Phase
  <2> QED
    BY <2>8, <2>9
<1>8. ASSUME NEW t \in Threads, Joined(t) PROVE Goal
  <2>1. /\ state[t] = "stopping" /\ ~open /\ pc = "off" /\ listLock' = NULL
        /\ state' = [state EXCEPT ![t] = "off"]
        /\ UNCHANGED <<count, open, pc, bytes, quit, piped>>
    BY <1>8 DEF Joined, Gone, pipeVars, selectVars
  <2>2. Users = {} /\ Users' = {}
    <3>1. Users = {}
      BY <2>1 DEF Phase, Absent, Ending, Beginning, Serving, Stopping
    <3> QED
      BY <2>1, <3>1 DEF Users, TypeOK
  <2>3. Counted' /\ Sent'
    BY <2>1, <2>2 DEF Counted, Sent
  <2>4. \A v \in Threads \ {t} : state[v] \notin {"starting", "stopping"}
    BY <2>1 DEF Locks
  <2>5. \A v \in Threads : state'[v] \notin {"starting", "stopping"}
    BY <2>1, <2>4 DEF TypeOK
  <2> QED
    BY <2>1, <2>2, <2>3, <2>5 DEF Locks, Phase, Absent, Stopping
<1>9. ASSUME NEW t \in Threads, NEW m \in {"poll", "time", "ever"}, WaitForEvent(t, m) PROVE Goal
  <2>1. bytes > 0 => bytes' > 0
    BY <1>9, TriggerTypes DEF WaitForEvent
  <2>2. state[t] = "idle" /\ \E x \in Live : state' = [state EXCEPT ![t] = x]
    BY <1>9 DEF WaitForEvent, Return
  <2>3. UNCHANGED <<listLock, count, open, pc, quit, piped>>
    BY <1>9 DEF WaitForEvent, lifeVars, selectVars
  <2> QED
    BY <1>2, <2>1, <2>2, <2>3
<1>10. ASSUME NEW t \in Threads, Wake(t) PROVE Goal
  <2>1. bytes > 0 => bytes' > 0
    BY <1>10, TriggerTypes DEF Wake
  <2>2. state[t] = "asleep" /\ state' = [state EXCEPT ![t] = "running"]
    BY <1>10 DEF Wake, Return
  <2>3. UNCHANGED <<listLock, count, open, pc, quit, piped>>
    BY <1>10 DEF Wake, lifeVars, selectVars
  <2> QED
    BY <1>2, <2>1, <2>2, <2>3
<1>11. ASSUME UNCHANGED <<state, listLock, count>> PROVE Users' = Users /\ Counted' /\ Locks' /\ (Stopping' <=> Stopping)
            /\ \A v \in Users : state'[v] = state[v]
  BY <1>11 DEF Users, Counted, Locks, Stopping
<1>12. ASSUME NotifierStart PROVE Goal
  <2>1. /\ pc = "start" /\ open' /\ pc' = "masks" /\ ~quit'
        /\ UNCHANGED <<state, listLock, count>>
    BY <1>12 DEF NotifierStart, threadVars
  <2>2. Beginning
    BY <2>1 DEF Phase, Absent, Ending, Beginning, Serving, Stopping
  <2>3. Serving' /\ Sent'
    BY <1>11, <2>1, <2>2 DEF Beginning, Serving, Sent
  <2> QED
    BY <1>11, <2>1, <2>3 DEF Phase
<1>13. ASSUME ComputeMasks PROVE Goal
  <2>1. pc \in {"masks", "select", "report", "read"} /\ pc' \in {"masks", "select", "report"}
        /\ UNCHANGED <<state, listLock, count, open, bytes, quit>>
    BY <1>13 DEF ComputeMasks, threadVars, lifeVars, pipeVars
  <2>2. Sent'
    BY <1>13 DEF ComputeMasks, Sent, pipeVars
  <2>3. Phase'
    BY <1>11, <2>1 DEF Phase, Absent, Ending, Beginning, Serving
  <2> QED
    BY <1>11, <2>1, <2>2, <2>3
<1>14. ASSUME Select PROVE Goal
  <2>1. pc \in {"masks", "select", "report", "read"} /\ pc' \in {"masks", "select", "report"}
        /\ UNCHANGED <<state, listLock, count, open, bytes, quit>>
    BY <1>14 DEF Select, threadVars, lifeVars, pipeVars
  <2>2. Sent'
    BY <1>14 DEF Select, Sent, pipeVars
  <2>3. Phase'
    BY <1>11, <2>1 DEF Phase, Absent, Ending, Beginning, Serving
  <2> QED
    BY <1>11, <2>1, <2>2, <2>3
<1>15. ASSUME SelectFails PROVE Goal
  <2>1. pc \in {"masks", "select", "report", "read"} /\ pc' \in {"masks", "select", "report"}
        /\ UNCHANGED <<state, listLock, count, open, bytes, quit>>
    BY <1>15 DEF SelectFails, threadVars, lifeVars, pipeVars
  <2>2. Sent'
    BY <1>15 DEF SelectFails, Sent, pipeVars
  <2>3. Phase'
    BY <1>11, <2>1 DEF Phase, Absent, Ending, Beginning, Serving
  <2> QED
    BY <1>11, <2>1, <2>2, <2>3
<1>16. ASSUME Report PROVE Goal
  <2>1. pc = "report" /\ pc' = (IF piped THEN "read" ELSE "masks")
        /\ UNCHANGED <<state, listLock, count, open, bytes, quit>>
    BY <1>16 DEF Report, lifeVars, pipeVars
  <2>2. Sent'
    BY <2>1 DEF Sent
  <2>3. Phase'
    BY <1>11, <2>1 DEF Phase, Absent, Ending, Beginning, Serving
  <2> QED
    BY <1>11, <2>1, <2>2, <2>3
<1>17. ASSUME ReadPipe PROVE Goal
  <2>1. pc = "read" /\ UNCHANGED <<state, listLock, count, open, quit>>
    BY <1>17 DEF ReadPipe, threadVars, lifeVars
  <2>2. CASE bytes > 0
    <3>1. pc' = "masks"
      BY <1>17, <2>2 DEF ReadPipe
    <3>2. Phase' /\ Sent'
      BY <1>11, <2>1, <3>1 DEF Phase, Absent, Ending, Beginning, Serving, Sent
    <3> QED
      BY <1>11, <2>1, <3>2
  <2>3. CASE ~(bytes > 0)
    <3>1. pc' = "exit" /\ quit
      BY <1>17, <2>1, <2>3 DEF ReadPipe, Sent
    <3>2. Ending
      BY <2>1, <3>1 DEF Phase, Absent, Beginning, Serving
    <3>3. Ending' /\ Sent'
      BY <1>11, <2>1, <3>1, <3>2 DEF Ending, Sent
    <3> QED
      BY <1>11, <2>1, <3>3 DEF Phase
  <2> QED
    BY <2>2, <2>3
<1>18. ASSUME NotifierExit PROVE Goal
  <2>1. pc = "exit" /\ pc' = "off" /\ UNCHANGED <<state, listLock, count, quit>>
    BY <1>18 DEF NotifierExit, threadVars, pipeVars
  <2>2. Ending
    BY <2>1 DEF Phase, Absent, Beginning, Serving
  <2>3. Ending' /\ Sent'
    BY <1>11, <2>1, <2>2 DEF Ending, Sent
  <2> QED
    BY <1>11, <2>1, <2>3 DEF Phase
<1>19. ASSUME NEW t \in Threads, Receive(t) PROVE Goal
  BY <1>1, <1>19 DEF Receive, lifeVars, pipeVars, selectVars
<1>20. ASSUME NEW t \in Threads, Tcl_ThreadAlert(t) PROVE Goal
  BY <1>1, <1>20 DEF Tcl_ThreadAlert, lifeVars, pipeVars, selectVars
<1>21. ASSUME NEW t \in Threads, NEW f \in Files[t], Tcl_CreateFileHandler(t, f) PROVE Goal
  BY <1>1, <1>21 DEF Tcl_CreateFileHandler, lifeVars, pipeVars, selectVars
<1>22. ASSUME NEW t \in Threads, NEW f \in Files[t], Tcl_DeleteFileHandler(t, f) PROVE Goal
  BY <1>1, <1>22 DEF Tcl_DeleteFileHandler, lifeVars, pipeVars, selectVars
<1>23. ASSUME NEW t \in Threads, NEW f \in Files[t], FileHandlerEventProc(t, f) PROVE Goal
  BY <1>1, <1>23 DEF FileHandlerEventProc, lifeVars, pipeVars, selectVars
<1>24. ASSUME NEW t \in Threads, NEW v \in Threads, Tcl_ThreadQueueEvent(t, v) PROVE Goal
  BY <1>1, <1>24 DEF Tcl_ThreadQueueEvent, lifeVars, pipeVars, selectVars
<1>25. ASSUME NEW f \in AllFiles, Arrive(f) PROVE Goal
  BY <1>1, <1>25 DEF Arrive, threadVars, lifeVars, pipeVars, selectVars
<1>26. ASSUME UNCHANGED vars PROVE Goal
  BY <1>1, <1>26 DEF vars, threadVars, lifeVars, pipeVars, selectVars
<1> QED
  BY <1>3, <1>4, <1>5, <1>6, <1>7, <1>8, <1>9, <1>10, <1>11, <1>12, <1>13, <1>14, <1>15, <1>16, <1>17, <1>18, <1>19, <1>20, <1>21, <1>22, <1>23, <1>24, <1>25, <1>26
  DEF Next, NotifierThreadProc, Woken, TimedOut

-------------------------------------------------------------------------------
(* Theorems.                                                                *)

LEMMA Starts ==
  ASSUME Init
  PROVE  IInv
<1>1. TypeOK
  <2>1. <<>> \in Seq(Threads)
    OBVIOUS
  <2>2. state \in [Threads -> {"off", "starting", "running", "idle", "asleep", "emptied",
                              "stopping"}]
    BY DEF Init
  <2>3. /\ mode \in [Threads -> {"poll", "time", "ever"}]
        /\ pollState \in [Threads -> {"none", "want", "done"}]
    BY DEF Init
  <2>4. /\ watch \in [Threads -> SUBSET AllFiles] /\ ready \in [Threads -> SUBSET AllFiles]
        /\ readyMask \in [Threads -> SUBSET AllFiles]
    BY DEF Init
  <2>5. events \in [AllFiles -> Nat]
    BY DEF Init
  <2>6. inbox \in [Threads -> BOOLEAN]
    BY DEF Init
  <2>7. eventReady \in [Threads -> BOOLEAN] /\ signalled \in [Threads -> BOOLEAN]
    BY DEF Init
  <2>8. alerting \in [Threads -> Threads \cup {NULL}]
    BY DEF Init
  <2>9. list \in Seq(Threads) /\ listLock \in Threads \cup {NULL} /\ count \in Int
    BY <2>1 DEF Init
  <2>10. /\ open \in BOOLEAN /\ bytes \in Nat /\ quit \in BOOLEAN
         /\ pc \in {"off", "start", "masks", "select", "report", "read", "exit"}
         /\ mask \subseteq AllFiles /\ seen \subseteq AllFiles /\ hot \subseteq AllFiles
         /\ polling \in BOOLEAN /\ piped \in BOOLEAN
    BY DEF Init
  <2> QED
    BY <2>2, <2>3, <2>4, <2>5, <2>6, <2>7, <2>8, <2>9, <2>10 DEF TypeOK
<1>2. list = <<>> /\ \A t \in Threads : state[t] = "off" /\ ~inbox[t] /\ readyMask[t] = {}
                                        /\ watch[t] = {}
  BY DEF Init
<1>3. ListExact
  BY <1>2 DEF ListExact
<1>4. Masks /\ EventThere /\ Told /\ NoLostWakeup /\ Locks
  BY <1>2 DEF Masks, EventThere, InLoop, Told, NoLostWakeup, Locks
<1>5. Users = {} /\ count = 0 /\ pc = "off" /\ ~open
  BY <1>2 DEF Users, Init
<1>6. Counted
  BY <1>5, FS_EmptySet DEF Counted
<1>7. Phase /\ Sent
  BY <1>2, <1>5 DEF Phase, Absent, Stopping, Sent
<1> QED
  BY <1>1, <1>3, <1>4, <1>6, <1>7 DEF IInv

\* The inductive invariant of the notifier: types, the list, masks and their events,
\* announcements, the count of threads, the lock and the life of the notifier thread.
THEOREM Invariant == Spec => []IInv
<1>1. Init => IInv
  BY Starts
<1>2. IInv /\ [Next]_vars => IInv'
  <2> SUFFICES ASSUME IInv, [Next]_vars PROVE IInv'
    OBVIOUS
  <2>1. TypeOK'
    BY TypeStep DEF IInv
  <2>2. ListExact'
    BY ListStep DEF IInv
  <2>3. Masks' /\ EventThere'
    BY FilesStep DEF IInv
  <2>4. Told' /\ NoLostWakeup'
    BY WakeupStep DEF IInv
  <2>5. Counted' /\ Locks' /\ Phase' /\ Sent'
    BY LifeStep DEF IInv
  <2> QED
    BY <2>1, <2>2, <2>3, <2>4, <2>5 DEF IInv
<1> QED
  BY <1>1, <1>2, PTL DEF Spec

\* Every variable of the notifier keeps its type.
THEOREM TypeCorrect == Spec => []TypeOK
<1>1. IInv => TypeOK
  BY DEF IInv
<1> QED
  BY <1>1, Invariant, PTL

\* An event queued for a sleeping thread has woken it or is about to be announced.
THEOREM WakeupsKept == Spec => []NoLostWakeup
<1>1. IInv => NoLostWakeup
  BY DEF IInv
<1> QED
  BY <1>1, Invariant, PTL

\* The waiting list holds sleeping threads, once each, and a thread that may write to
\* the trigger pipe finds it open and read.
THEOREM NotRaced == Spec => []Unraced
<1>1. IInv => Unraced
  <2> SUFFICES ASSUME IInv PROVE PipeRead
    BY DEF IInv, Unraced
  <2> SUFFICES ASSUME NEW t \in Threads, state[t] \in {"running", "idle", "asleep", "emptied"}
               PROVE  open /\ ~quit /\ pc \notin {"off", "start", "exit"}
    BY DEF PipeRead
  <2>1. t \in Users
    BY DEF Users
  <2>2. Serving
    BY <2>1 DEF IInv, Phase, Absent, Ending, Beginning
  <2> QED
    BY <2>2 DEF Serving
<1> QED
  BY <1>1, Invariant, PTL

\* A readyMask that is not zero stands for an event in the queue.
THEOREM EventsThere == Spec => []EventThere
<1>1. IInv => EventThere
  BY DEF IInv
<1> QED
  BY <1>1, Invariant, PTL
=============================================================================
